---------------------------- MODULE SessionProofs ----------------------------
(***************************************************************************)
(* Proofs about Session, for any sets of sessions, names, files and        *)
(* assertions.                                                             *)
(*                                                                         *)
(* CatalogOK is inductive by itself: types, and one binding per name and   *)
(* session.  With it SchemaIsOfLastBinder is inductive.  ActiveOK says of  *)
(* the activation history what ActiveIsLastActivation needs: the snapshot  *)
(* in force is the beginning of its session's list of bindings, which only *)
(* ever grows at its end.                                                  *)
(*                                                                         *)
(* PendingOK types the assertion in progress; with it the rest of TypeOK   *)
(* is inductive.  CountedOK says that each count it keeps is that of the   *)
(* content read with it, which is what makes a verdict exact.              *)
(***************************************************************************)
EXTENDS Session, SequenceTheorems, FiniteSetTheorems, TLAPS

CatalogOK ==
    /\ files \in [Uris -> Contents \cup {Gone}]
    /\ registrations \in [Sessions -> Seq(Registration)]
    /\ \A s \in Sessions :
          \A i, j \in DOMAIN registrations[s] :
              registrations[s][i].name = registrations[s][j].name => i = j
    /\ schemas \in [Names -> Columns \cup {NoColumns}]
    /\ binder \in [Names -> SUBSET Sessions]
    /\ states \in Seq(Seq(Registration)) /\ flags \in Seq(BOOLEAN)
    /\ Len(states) = Len(flags)

ActiveOK ==
    \/ ActiveBindings = <<>> /\ activated = <<>>
    \/ \E s \in Sessions : \E k \in 0..Len(registrations[s]) :
          /\ activated = <<[session |-> s, count |-> k]>>
          /\ ActiveBindings = <<SubSeq(registrations[s], 1, k)>>

\* The actions that leave both the catalogue and the activations alone.
Elsewhere == UNCHANGED <<registrations, schemas, binder, states, flags, activated>>

LEMMA ElsewhereSteps ==
    ASSUME Next,
           ~(\E s \in Sessions, n \in Names \cup {""}, kind \in Kinds, u \in Uris \cup {""} :
                Register(s, n, kind, u)),
           ~(\E s \in Sessions : Activate(s)), ~ClearActive
    PROVE  Elsewhere
<1>1. ASSUME NEW s \in Sessions, NEW n \in Names, Collect(s, n) PROVE Elsewhere
  BY <1>1 DEF Collect, CollectFrom, Elsewhere, catalog, active
<1>2. ASSUME NEW n \in Names, LazyCollect(n) PROVE Elsewhere
  BY <1>2 DEF LazyCollect, CollectFrom, Elsewhere, catalog, active
<1>3. ASSUME NEW u \in Uris, FileChanges(u) PROVE Elsewhere
  BY <1>3 DEF FileChanges, Elsewhere, catalog, active
<1>4. ASSUME NEW s \in Sessions, NEW a \in Assertions, NEW f, Observe(s, a, f)
      PROVE Elsewhere
  BY <1>4 DEF Observe, Elsewhere, catalog, active
<1>5. ASSUME ProbeSucceeds PROVE Elsewhere
  BY <1>5 DEF ProbeSucceeds, Elsewhere, catalog, active
<1>6. ASSUME ProbeFails PROVE Elsewhere
  BY <1>6 DEF ProbeFails, Elsewhere, catalog, active
<1> QED
  BY <1>1, <1>2, <1>3, <1>4, <1>5, <1>6 DEF Next

\* No step but a change of a file touches the files.
LEMMA FilesTyped ==
    ASSUME CatalogOK, [Next]_vars
    PROVE  files' \in [Uris -> Contents \cup {Gone}]
<1>1. ASSUME NEW u \in Uris, FileChanges(u)
      PROVE files' \in [Uris -> Contents \cup {Gone}]
  BY <1>1 DEF FileChanges, CatalogOK
<1>2. CASE \A u \in Uris : ~FileChanges(u)
  <2>1. files' = files
    <3>1. CASE Next
      <4>1. ASSUME NEW s \in Sessions, NEW n, NEW kind, NEW u, Register(s, n, kind, u)
            PROVE files' = files
        BY <4>1 DEF Register
      <4>2. ASSUME NEW s \in Sessions, Activate(s) PROVE files' = files
        BY <4>2 DEF Activate
      <4>3. ASSUME ClearActive PROVE files' = files
        BY <4>3 DEF ClearActive
      <4>4. ASSUME NEW s \in Sessions, NEW n, Collect(s, n) PROVE files' = files
        BY <4>4 DEF Collect, CollectFrom
      <4>5. ASSUME NEW n, LazyCollect(n) PROVE files' = files
        BY <4>5 DEF LazyCollect, CollectFrom
      <4>6. ASSUME NEW s, NEW a, NEW f, Observe(s, a, f) PROVE files' = files
        BY <4>6 DEF Observe
      <4>7. ASSUME ProbeSucceeds PROVE files' = files
        BY <4>7 DEF ProbeSucceeds
      <4>8. ASSUME ProbeFails PROVE files' = files
        BY <4>8 DEF ProbeFails
      <4> QED
        BY <1>2, <3>1, <4>1, <4>2, <4>3, <4>4, <4>5, <4>6, <4>7, <4>8 DEF Next
    <3>2. CASE UNCHANGED vars
      BY <3>2 DEF vars
    <3> QED
      BY <3>1, <3>2
  <2> QED
    BY <2>1 DEF CatalogOK
<1> QED
  BY <1>1, <1>2

\* What a successful registration appends, and where.
Registered(s, n, columns) ==
    /\ n \in Names
    /\ n \notin NamesOf(registrations[s])
    /\ \E r \in Registration :
         /\ r.name = n /\ r.planned = columns
         /\ registrations' = [registrations EXCEPT ![s] = Append(@, r)]
    /\ columns \in Columns \cup {NoColumns}
    /\ schemas' = [schemas EXCEPT ![n] = columns]
    /\ binder' = [binder EXCEPT ![n] = {s}]
    /\ UNCHANGED <<states, flags, activated>>

LEMMA RegisterAppends ==
    ASSUME CatalogOK, NEW s \in Sessions, NEW n \in Names \cup {""}, NEW kind \in Kinds,
           NEW u \in Uris \cup {""}, Register(s, n, kind, u)
    PROVE  Registered(s, n, PlannedColumns(kind, u))
<1> DEFINE r == [name |-> n, kind |-> kind, uri |-> u, planned |-> PlannedColumns(kind, u)]
<1>1. n \in Names /\ u \in Uris /\ n \notin NamesOf(registrations[s])
  BY DEF Register, RegistrationFails
<1>2. PlannedColumns(kind, u) \in Columns \cup {NoColumns}
  <2>1. files[u] \in Contents \cup {Gone}
    BY <1>1 DEF CatalogOK
  <2>2. \A c \in Contents : c.columns \in Columns
    BY DEF Columns
  <2>3. Gone.columns = NoColumns
    BY DEF Gone
  <2>4. files[u].columns \in Columns \cup {NoColumns}
    BY <2>1, <2>2, <2>3
  <2> QED
    BY <2>4 DEF PlannedColumns
<1>3. r \in Registration
  BY <1>1, <1>2 DEF Registration
<1>4. /\ registrations' = [registrations EXCEPT ![s] = Append(@, r)]
      /\ binder' = [binder EXCEPT ![n] = {s}]
  BY DEF Register, Bind
<1> QED
  BY <1>1, <1>2, <1>3, <1>4 DEF Register, active, Registered

\* Appending a binding whose name is not yet bound keeps the names apart.
LEMMA AppendFresh ==
    ASSUME NEW S, NEW q \in Seq(S), NEW r \in S,
           \A k \in DOMAIN q : q[k].name # r.name,
           \A k, l \in DOMAIN q : q[k].name = q[l].name => k = l
    PROVE  \A k, l \in DOMAIN Append(q, r) :
               Append(q, r)[k].name = Append(q, r)[l].name => k = l
<1>1. /\ Len(q) \in Nat
      /\ DOMAIN q = 1..Len(q)
      /\ DOMAIN Append(q, r) = 1..Len(q) + 1
      /\ \A k \in 1..Len(q) : Append(q, r)[k] = q[k]
      /\ Append(q, r)[Len(q) + 1] = r
  <2>1. /\ Append(q, r) \in Seq(S)
        /\ Len(Append(q, r)) = Len(q) + 1
        /\ \A k \in 1..Len(q) : Append(q, r)[k] = q[k]
        /\ Append(q, r)[Len(q) + 1] = r
    BY AppendProperties
  <2>2. /\ Len(q) \in Nat /\ DOMAIN q = 1..Len(q)
        /\ DOMAIN Append(q, r) = 1..Len(Append(q, r))
    BY <2>1, LenProperties
  <2> QED
    BY <2>1, <2>2
<1> SUFFICES ASSUME NEW k \in DOMAIN Append(q, r), NEW l \in DOMAIN Append(q, r),
                    Append(q, r)[k].name = Append(q, r)[l].name
             PROVE  k = l
  OBVIOUS
<1>2. k \in 1..Len(q) \/ k = Len(q) + 1
  BY <1>1
<1>3. l \in 1..Len(q) \/ l = Len(q) + 1
  BY <1>1
<1> QED
  BY <1>1, <1>2, <1>3

LEMMA CatalogStep == CatalogOK /\ [Next]_vars => CatalogOK'
<1> SUFFICES ASSUME CatalogOK, [Next]_vars PROVE CatalogOK'
  OBVIOUS
<1>0. files' \in [Uris -> Contents \cup {Gone}]
  BY FilesTyped
<1>1. ASSUME NEW s \in Sessions, NEW n \in Names \cup {""}, NEW kind \in Kinds,
             NEW u \in Uris \cup {""}, Register(s, n, kind, u)
      PROVE CatalogOK'
  <2>0. Registered(s, n, PlannedColumns(kind, u))
    BY <1>1, RegisterAppends
  <2>1. PICK r \in Registration :
          /\ r.name = n /\ r.planned = PlannedColumns(kind, u)
          /\ registrations' = [registrations EXCEPT ![s] = Append(@, r)]
    BY <2>0 DEF Registered
  <2>2. registrations \in [Sessions -> Seq(Registration)] /\ registrations[s] \in Seq(Registration)
    BY DEF CatalogOK
  <2>7. Append(registrations[s], r) \in Seq(Registration)
    BY <2>1, <2>2, AppendProperties
  <2>3. registrations' \in [Sessions -> Seq(Registration)]
    BY <2>1, <2>2, <2>7
  <2>4. ASSUME NEW t \in Sessions, NEW i \in DOMAIN registrations'[t],
               NEW j \in DOMAIN registrations'[t],
               registrations'[t][i].name = registrations'[t][j].name
        PROVE i = j
    <3>1. CASE t # s
      BY <2>1, <2>4, <3>1 DEF CatalogOK
    <3>2. CASE t = s
      <4>1. registrations'[t] = Append(registrations[s], r)
        BY <2>1, <2>2, <3>2
      <4>2. \A k \in DOMAIN registrations[s] : registrations[s][k].name # r.name
        BY <2>0, <2>1 DEF NamesOf, Registered
      <4>3. \A k, l \in DOMAIN registrations[s] :
              registrations[s][k].name = registrations[s][l].name => k = l
        BY DEF CatalogOK
      <4>4. \A k, l \in DOMAIN Append(registrations[s], r) :
              Append(registrations[s], r)[k].name = Append(registrations[s], r)[l].name
                => k = l
        BY <2>1, <2>2, <4>2, <4>3, AppendFresh
      <4> QED
        BY <2>4, <4>1, <4>4
    <3> QED
      BY <3>1, <3>2
  <2>5. /\ schemas' \in [Names -> Columns \cup {NoColumns}]
        /\ binder' \in [Names -> SUBSET Sessions]
    BY <2>0 DEF CatalogOK, Registered
  <2>6. UNCHANGED <<states, flags>>
    BY <2>0 DEF Registered
  <2> QED
    BY <1>0, <2>3, <2>4, <2>5, <2>6 DEF CatalogOK
<1>2. ASSUME NEW s \in Sessions, Activate(s) PROVE CatalogOK'
  BY <1>0, <1>2 DEF Activate, CatalogOK, catalog
<1>3. CASE ClearActive
  BY <1>0, <1>3 DEF ClearActive, CatalogOK, catalog
<1>4. CASE Elsewhere
  BY <1>0, <1>4 DEF Elsewhere, CatalogOK
<1>5. CASE UNCHANGED vars
  BY <1>0, <1>5 DEF vars, catalog, active, CatalogOK
<1> QED
  BY <1>1, <1>2, <1>3, <1>4, <1>5, ElsewhereSteps

LEMMA CatalogInit == Init => CatalogOK
  BY EmptySeq DEF Init, CatalogOK

-----------------------------------------------------------------------------
(* Sequences.                                                              *)

LEMMA RangeAppend ==
    ASSUME NEW S, NEW q \in Seq(S), NEW r \in S
    PROVE  Range(Append(q, r)) = Range(q) \cup {r}
<1>1. /\ Append(q, r) \in Seq(S)
      /\ Len(Append(q, r)) = Len(q) + 1
      /\ \A k \in 1..Len(q) : Append(q, r)[k] = q[k]
      /\ Append(q, r)[Len(q) + 1] = r
  BY AppendProperties
<1>2. /\ Len(q) \in Nat /\ DOMAIN q = 1..Len(q)
      /\ DOMAIN Append(q, r) = 1..Len(q) + 1
  BY <1>1, LenProperties
<1> QED
  BY <1>1, <1>2 DEF Range

LEMMA LastAppend ==
    ASSUME NEW S, NEW q \in Seq(S), NEW r \in S
    PROVE  Append(q, r) # <<>> /\ Last(Append(q, r)) = r
  BY AppendProperties DEF Last

\* What was at the beginning of a list is there after appending to it.
LEMMA SubSeqAppend ==
    ASSUME NEW S, NEW q \in Seq(S), NEW r \in S, NEW k \in 0..Len(q)
    PROVE  SubSeq(Append(q, r), 1, k) = SubSeq(q, 1, k)
<1>1. /\ Len(q) \in Nat
      /\ Append(q, r) \in Seq(S)
      /\ \A i \in 1..Len(q) : Append(q, r)[i] = q[i] /\ q[i] \in S
  BY AppendProperties, LenProperties, ElementOfSeq
<1>2. \A i \in 1..k : Append(q, r)[i] = q[i] /\ q[i] \in S
  BY <1>1
<1>3. k \in Int /\ k >= 0
  BY <1>1
<1>4. /\ SubSeq(q, 1, k) \in Seq(S) /\ Len(SubSeq(q, 1, k)) = k
      /\ \A i \in 1..k : SubSeq(q, 1, k)[i] = q[i]
  <2>1. /\ SubSeq(q, 1, k) \in Seq(S)
        /\ Len(SubSeq(q, 1, k)) = IF 1 <= k THEN k - 1 + 1 ELSE 0
        /\ \A i \in 1..k - 1 + 1 : SubSeq(q, 1, k)[i] = q[1 + i - 1]
    BY <1>2, <1>3, SubSeqProperties
  <2> QED
    BY <1>3, <2>1
<1>5. /\ SubSeq(Append(q, r), 1, k) \in Seq(S) /\ Len(SubSeq(Append(q, r), 1, k)) = k
      /\ \A i \in 1..k : SubSeq(Append(q, r), 1, k)[i] = Append(q, r)[i]
  <2>1. /\ SubSeq(Append(q, r), 1, k) \in Seq(S)
        /\ Len(SubSeq(Append(q, r), 1, k)) = IF 1 <= k THEN k - 1 + 1 ELSE 0
        /\ \A i \in 1..k - 1 + 1 : SubSeq(Append(q, r), 1, k)[i] = Append(q, r)[1 + i - 1]
    BY <1>2, <1>3, SubSeqProperties
  <2> QED
    BY <1>3, <2>1
<1> QED
  BY <1>2, <1>4, <1>5, SeqEqual

LEMMA RangeWidens == \A n \in Nat : \A k \in 0..n : k \in 0..n + 1
  OBVIOUS

LEMMA SubSeqWhole ==
    ASSUME NEW S, NEW q \in Seq(S)
    PROVE  SubSeq(q, 1, Len(q)) = q
  BY SubSeqFull

-----------------------------------------------------------------------------
(* The registry.                                                           *)

LEMMA BinderStep == CatalogOK /\ SchemaIsOfLastBinder /\ [Next]_vars => SchemaIsOfLastBinder'
<1> SUFFICES ASSUME CatalogOK, SchemaIsOfLastBinder, [Next]_vars PROVE SchemaIsOfLastBinder'
  OBVIOUS
<1>1. ASSUME NEW s \in Sessions, NEW n \in Names \cup {""}, NEW kind \in Kinds,
             NEW u \in Uris \cup {""}, Register(s, n, kind, u)
      PROVE SchemaIsOfLastBinder'
  <2>0. Registered(s, n, PlannedColumns(kind, u))
    BY <1>1, RegisterAppends
  <2>1. PICK r \in Registration :
          /\ r.name = n /\ r.planned = PlannedColumns(kind, u)
          /\ registrations' = [registrations EXCEPT ![s] = Append(@, r)]
    BY <2>0 DEF Registered
  <2>2. /\ registrations \in [Sessions -> Seq(Registration)]
        /\ registrations[s] \in Seq(Registration)
        /\ schemas \in [Names -> Columns \cup {NoColumns}]
        /\ binder \in [Names -> SUBSET Sessions]
    BY DEF CatalogOK
  <2>3. registrations'[s] = Append(registrations[s], r)
    BY <2>1, <2>2
  <2>4. Range(registrations'[s]) = Range(registrations[s]) \cup {r}
    <3>1. \A q \in Seq(Registration) : \A x \in Registration :
            Range(Append(q, x)) = Range(q) \cup {x}
      BY RangeAppend
    <3> QED
      BY <2>2, <2>3, <3>1
  <2>5. \A t \in Sessions \ {s} : registrations'[t] = registrations[t]
    BY <2>1, <2>2
  <2>6. \A t \in Sessions : Range(registrations[t]) \subseteq Range(registrations'[t])
    BY <2>4, <2>5
  <2>7. ASSUME NEW t \in Sessions, NEW m \in Names, m # n, ~Binds(t, m)
        PROVE  ~Binds(t, m)'
    <3>1. \A x \in Range(registrations[t]) : x.name # m
      BY <2>7 DEF Binds, NamesOf, Range
    <3>2. \A x \in Range(registrations'[t]) : x \in Range(registrations[t]) \/ x = r
      BY <2>4, <2>5
    <3>3. \A x \in Range(registrations'[t]) : x.name # m
      BY <2>1, <2>7, <3>1, <3>2
    <3> QED
      BY <3>3 DEF Binds, NamesOf, Range
  <2>8. ASSUME NEW m \in Names
        PROVE  /\ binder'[m] = {} => schemas'[m] = NoColumns /\ \A t \in Sessions : ~Binds(t, m)'
               /\ \A t \in binder'[m] :
                     \E x \in Range(registrations'[t]) : x.name = m /\ x.planned = schemas'[m]
    <3>1. CASE m = n
      <4>1. schemas'[m] = r.planned /\ binder'[m] = {s}
        BY <2>0, <2>1, <2>2, <3>1 DEF Registered
      <4>2. r \in Range(registrations'[s])
        BY <2>4
      <4> QED
        BY <2>1, <3>1, <4>1, <4>2
    <3>2. CASE m # n
      <4>1. schemas'[m] = schemas[m] /\ binder'[m] = binder[m] /\ binder[m] \subseteq Sessions
        BY <2>0, <2>2, <3>2 DEF Registered
      <4>2. /\ binder[m] = {} => schemas[m] = NoColumns /\ \A t \in Sessions : ~Binds(t, m)
            /\ \A t \in binder[m] :
                  \E x \in Range(registrations[t]) : x.name = m /\ x.planned = schemas[m]
        BY DEF SchemaIsOfLastBinder
      <4>3. binder'[m] = {} => schemas'[m] = NoColumns /\ \A t \in Sessions : ~Binds(t, m)'
        BY <2>7, <3>2, <4>1, <4>2
      <4>4. ASSUME NEW t \in binder'[m]
            PROVE  \E x \in Range(registrations'[t]) : x.name = m /\ x.planned = schemas'[m]
        BY <2>6, <4>1, <4>2
      <4> QED
        BY <4>3, <4>4
    <3> QED
      BY <3>1, <3>2
  <2> QED
    BY <2>8 DEF SchemaIsOfLastBinder
<1>2. ASSUME registrations' = registrations, schemas' = schemas, binder' = binder
      PROVE SchemaIsOfLastBinder'
  BY <1>2 DEF SchemaIsOfLastBinder, Binds
<1>3. ASSUME NEW s \in Sessions, Activate(s) PROVE SchemaIsOfLastBinder'
  BY <1>2, <1>3 DEF Activate, catalog
<1>4. CASE ClearActive
  BY <1>2, <1>4 DEF ClearActive, catalog
<1>5. CASE Elsewhere
  BY <1>2, <1>5 DEF Elsewhere
<1>6. CASE UNCHANGED vars
  BY <1>2, <1>6 DEF vars, catalog
<1> QED
  BY <1>1, <1>3, <1>4, <1>5, <1>6, ElsewhereSteps

-----------------------------------------------------------------------------
(* The activation history.                                                 *)

LEMMA ActiveStep == CatalogOK /\ ActiveOK /\ [Next]_vars => ActiveOK'
<1> SUFFICES ASSUME CatalogOK, ActiveOK, [Next]_vars PROVE ActiveOK'
  OBVIOUS
<1>0. /\ registrations \in [Sessions -> Seq(Registration)]
      /\ \A t \in Sessions : registrations[t] \in Seq(Registration)
      /\ states \in Seq(Seq(Registration)) /\ flags \in Seq(BOOLEAN)
  BY DEF CatalogOK
<1>1. ASSUME NEW s \in Sessions, NEW n \in Names \cup {""}, NEW kind \in Kinds,
             NEW u \in Uris \cup {""}, Register(s, n, kind, u)
      PROVE ActiveOK'
  <2>0. Registered(s, n, PlannedColumns(kind, u))
    BY <1>1, RegisterAppends
  <2>1. PICK r \in Registration : registrations' = [registrations EXCEPT ![s] = Append(@, r)]
    BY <2>0 DEF Registered
  <2>2. ActiveBindings' = ActiveBindings /\ activated' = activated
    BY <2>0 DEF ActiveBindings, Registered
  <2>3. ASSUME NEW t \in Sessions
        PROVE \A k \in 0..Len(registrations[t]) :
                /\ k \in 0..Len(registrations'[t])
                /\ SubSeq(registrations'[t], 1, k) = SubSeq(registrations[t], 1, k)
    <3>1. CASE t = s
      <4>1. registrations'[t] = Append(registrations[t], r)
        BY <1>0, <2>1, <3>1
      <4>2. registrations[t] \in Seq(Registration) /\ r \in Registration
        BY <1>0
      <4>3. Len(registrations[t]) \in Nat
        BY <4>2, LenProperties
      <4>4. Len(Append(registrations[t], r)) = Len(registrations[t]) + 1
        BY <4>2, AppendProperties
      <4>5. \A k \in 0..Len(registrations[t]) : k \in 0..Len(registrations[t]) + 1
        BY <4>3, RangeWidens
      <4>6. \A k \in 0..Len(registrations[t]) :
              SubSeq(Append(registrations[t], r), 1, k) = SubSeq(registrations[t], 1, k)
        BY <4>2, SubSeqAppend
      <4> QED
        BY <4>1, <4>4, <4>5, <4>6
    <3>2. CASE t # s
      BY <1>0, <2>1, <3>2
    <3> QED
      BY <3>1, <3>2
  <2> QED
    BY <2>2, <2>3 DEF ActiveOK
<1>2. ASSUME NEW s \in Sessions, Activate(s) PROVE ActiveOK'
  <2>1. ActiveBindings' = <<registrations[s]>>
    <3>1. flags' = Append(flags, TRUE) /\ states' = Append(states, registrations[s])
      BY <1>2 DEF Activate
    <3>2. flags' # <<>> /\ Last(flags') = TRUE
      BY <1>0, <3>1, LastAppend
    <3>3. Last(states') = registrations[s]
      BY <1>0, <3>1, LastAppend
    <3> QED
      BY <3>2, <3>3 DEF ActiveBindings
  <2>2. registrations' = registrations
    BY <1>2 DEF Activate, catalog
  <2>3. activated' = <<[session |-> s, count |-> Len(registrations[s])]>>
    BY <1>2 DEF Activate
  <2>4. SubSeq(registrations[s], 1, Len(registrations[s])) = registrations[s]
    BY <1>0, SubSeqWhole
  <2>5. Len(registrations[s]) \in 0..Len(registrations[s])
    BY <1>0, LenProperties
  <2> QED
    BY <2>1, <2>2, <2>3, <2>4, <2>5 DEF ActiveOK
<1>3. CASE ClearActive
  <2>1. flags' = Append(flags, FALSE)
    BY <1>3 DEF ClearActive
  <2>2. Last(flags') = FALSE
    BY <1>0, <2>1, LastAppend
  <2> QED
    BY <1>3, <2>2 DEF ClearActive, ActiveOK, ActiveBindings
<1>4. CASE Elsewhere
  BY <1>4 DEF Elsewhere, ActiveOK, ActiveBindings
<1>5. CASE UNCHANGED vars
  BY <1>5 DEF vars, catalog, active, ActiveOK, ActiveBindings
<1> QED
  BY <1>1, <1>2, <1>3, <1>4, <1>5, ElsewhereSteps

LEMMA ActiveOKImplies == ActiveOK => ActiveIsLastActivation
<1> SUFFICES ASSUME ActiveOK PROVE ActiveIsLastActivation
  OBVIOUS
<1>1. CASE ActiveBindings = <<>> /\ activated = <<>>
  BY <1>1 DEF ActiveIsLastActivation, Range
<1>2. ASSUME NEW s \in Sessions, NEW k \in 0..Len(registrations[s]),
             activated = <<[session |-> s, count |-> k]>>,
             ActiveBindings = <<SubSeq(registrations[s], 1, k)>>
      PROVE ActiveIsLastActivation
  <2>1. Range(activated) = {[session |-> s, count |-> k]}
    BY <1>2 DEF Range
  <2>2. \A a \in Range(activated) : a.session = s /\ a.count = k
    BY <2>1
  <2>3. Len(ActiveBindings) = 1 /\ Len(activated) = 1
    BY <1>2
  <2>4. ActiveBindings[1] = SubSeq(registrations[s], 1, k)
    BY <1>2
  <2> QED
    BY <2>2, <2>3, <2>4 DEF ActiveIsLastActivation
<1> QED
  BY <1>1, <1>2 DEF ActiveOK

-----------------------------------------------------------------------------
(* Quality assertions.  A call under evaluation has made fewer collects    *)
(* than its assertion needs, and keeps one count and one content of each.  *)

Call(s, a, f, k, v) ==
    [session |-> s, assertion |-> a, frames |-> f, counts |-> k, seen |-> v]

\* The call after one more collect.
Continued(c, counts, seen) == [c EXCEPT !.counts = counts, !.seen = seen]

LEMMA CallUpdates ==
    ASSUME NEW s, NEW a, NEW f, NEW k, NEW v, NEW counts, NEW seen,
           NEW C, C = Call(s, a, f, k, v)
    PROVE  Continued(C, counts, seen) = Call(s, a, f, counts, seen)
<1> DEFINE Calls == [session : {s}, assertion : {a}, frames : {f},
                     counts : {k, counts}, seen : {v, seen}]
           D == [C EXCEPT !.counts = counts]
           E == [D EXCEPT !.seen = seen]
<1>1. C \in Calls /\ C.seen = v
  BY DEF Call
<1>2. D \in Calls /\ D.counts = counts
  BY <1>1
<1> HIDE DEF D
<1>3. E \in Calls /\ E.counts = counts /\ E.seen = seen
  BY <1>2
<1>4. E = Continued(C, counts, seen)
  BY DEF E, D, Continued
<1> HIDE DEF E
<1>5. E = [session |-> E.session, assertion |-> E.assertion, frames |-> E.frames,
           counts |-> E.counts, seen |-> E.seen]
  BY <1>3
<1>6. E.session = s /\ E.assertion = a /\ E.frames = f
  BY <1>3
<1> QED
  BY <1>3, <1>4, <1>5, <1>6 DEF Call

\* k and v are lists; what is on them does not matter here.
CallShape(c) ==
    \E s \in Sessions, a \in Assertions : \E f, k, v, S :
        /\ c = Call(s, a, f, k, v)
        /\ Supported(a, f) /\ Range(f) \subseteq Names
        /\ k \in Seq(S) /\ v \in Seq(S)
        /\ Len(k) = Len(v) /\ Len(k) < Len(Probes(a))

PendingOK == call = <<>> \/ \E c : call = <<c>> /\ CallShape(c)

LEMMA PendingNext ==
    ASSUME call' = <<>> \/ \E c : call' = <<c>> /\ CallShape(c)
    PROVE  PendingOK'
BY Zenon DEF PendingOK, CallShape, Call, Supported, Probes, Range

LEMMA SingleRange ==
    ASSUME NEW c
    PROVE  Range(<<c>>) = {c}
BY DEF Range

LEMMA EmptyRange == Range(<<>>) = {}
BY DEF Range

LEMMA ProbesLength ==
    ASSUME NEW a \in Assertions
    PROVE  Len(Probes(a)) \in Nat \ {0}
<1>1. a.kind \in {"row_count", "null_rate", "unique", "group_row_count", "cross"}
  BY AssertionAssumption
<1>2. CASE a.kind = "group_row_count"
  <2>1. Probes(a) = <<"small">> \o (IF a.max # {} THEN <<"large">> ELSE <<>>)
    BY <1>2 DEF Probes
  <2>2. CASE a.max # {}
    <3>1. Probes(a) = <<"small">> \o <<"large">>
      BY <2>1, <2>2
    <3> QED
      BY <3>1
  <2>3. CASE a.max = {}
    <3>1. Probes(a) = <<"small">> \o <<>>
      BY <2>1, <2>3
    <3> QED
      BY <3>1
  <2> QED
    BY <2>2, <2>3
<1>3. CASE a.kind = "row_count"
  BY <1>3 DEF Probes
<1>4. CASE a.kind = "null_rate"
  BY <1>4 DEF Probes
<1>5. CASE a.kind = "unique"
  BY <1>5 DEF Probes
<1>6. CASE a.kind = "cross"
  BY <1>6 DEF Probes
<1> QED
  BY <1>1, <1>2, <1>3, <1>4, <1>5, <1>6

LEMMA SeqWidens ==
    ASSUME NEW S, NEW T, S \subseteq T, NEW q \in Seq(S)
    PROVE  q \in Seq(T)
<1>1. q \in [1..Len(q) -> S] /\ Len(q) \in Nat
  BY LenProperties
<1>2. q \in [1..Len(q) -> T]
  BY <1>1
<1> QED
  BY <1>1, <1>2, SeqDef

\* A list of anything stays a list when anything is appended.
LEMMA AppendAny ==
    ASSUME NEW S, NEW q \in Seq(S), NEW x
    PROVE  /\ Append(q, x) \in Seq(S \cup {x})
           /\ Len(Append(q, x)) = Len(q) + 1
           /\ DOMAIN Append(q, x) = 1..Len(q) + 1
           /\ Len(q) \in Nat
<1> DEFINE T == S \cup {x}
<1>1. q \in Seq(T) /\ x \in T
  BY SeqWidens
<1> HIDE DEF T
<1>2. Append(q, x) \in Seq(T) /\ Len(Append(q, x)) = Len(q) + 1
  BY <1>1, AppendProperties
<1>3. DOMAIN Append(q, x) = 1..Len(Append(q, x)) /\ Len(q) \in Nat
  BY <1>1, <1>2, LenProperties
<1> QED
  BY <1>2, <1>3 DEF T

LEMMA ObserveStep ==
    ASSUME PendingOK, NEW s \in Sessions, NEW a \in Assertions, NEW f,
           Range(f) \subseteq Names, Observe(s, a, f)
    PROVE  PendingOK'
<1>1. CASE Supported(a, f)
  <2>1. call' = <<Call(s, a, f, <<>>, <<>>)>>
    BY <1>1 DEF Observe, Call
  <2>2. <<>> \in Seq({}) /\ Len(<<>>) = 0
    OBVIOUS
  <2>3. 0 < Len(Probes(a))
    BY ProbesLength
  <2>4. CallShape(Call(s, a, f, <<>>, <<>>))
    BY <1>1, <2>2, <2>3 DEF CallShape
  <2> QED
    BY <2>1, <2>4, PendingNext
<1>2. CASE ~Supported(a, f)
  <2>1. call' = <<>>
    BY <1>2 DEF Observe, Idle
  <2> QED
    BY <2>1, PendingNext
<1> QED
  BY <1>1, <1>2

\* After one more collect, an assertion has its verdict or is still pending.
LEMMA SuccessOutcome ==
    ASSUME PendingOK, ProbeSucceeds
    PROVE  \/ /\ call' = <<>>
              /\ \E k, S : /\ k \in Seq(S)
                           /\ observation'.status \in {"passed", "failed"}
                           /\ observation'.refs = Upto(Len(k))
                           /\ observation'.attempts = [i \in DOMAIN k |-> TRUE]
           \/ /\ \E c : call' = <<c>> /\ CallShape(c)
              /\ observation' = NoObservation
<1>1. call # <<>>
  BY EmptyRange DEF ProbeSucceeds
<1>2. PICK c : call = <<c>> /\ CallShape(c)
  BY <1>1 DEF PendingOK
<1>3. PICK s \in Sessions, a \in Assertions : \E f, k, v, S :
        /\ c = Call(s, a, f, k, v)
        /\ Supported(a, f) /\ Range(f) \subseteq Names
        /\ k \in Seq(S) /\ v \in Seq(S)
        /\ Len(k) = Len(v) /\ Len(k) < Len(Probes(a))
  BY <1>2 DEF CallShape
<1>4. PICK f, k, v, S :
        /\ c = Call(s, a, f, k, v)
        /\ Supported(a, f) /\ Range(f) \subseteq Names
        /\ k \in Seq(S) /\ v \in Seq(S)
        /\ Len(k) = Len(v) /\ Len(k) < Len(Probes(a))
  BY <1>3
<1>5. c.assertion = a /\ c.counts = k /\ c.seen = v
  BY <1>4 DEF Call
<1> DEFINE content == files[UriOf(registrations[c.session], NextFrame(c))]
           count == RowCount(a, Probes(a)[Len(k) + 1], content)
           counts == Append(k, count)
           seen == Append(v, content)
           U == S \cup {count} \cup {content}
<1>6. IF Len(counts) = Len(Probes(a))
      THEN /\ call' = <<>>
           /\ observation' = [assertions |-> {a},
                              status |-> IF Passes(a, counts) THEN "passed" ELSE "failed",
                              refs |-> Upto(Len(counts)),
                              attempts |-> [i \in DOMAIN counts |-> TRUE],
                              seen |-> seen]
      ELSE /\ call' = <<[c EXCEPT !.counts = counts, !.seen = seen]>>
           /\ observation' = NoObservation
  <2>1. Range(call) = {c}
    BY <1>2, SingleRange
  <2> QED
    BY <1>5, <2>1 DEF ProbeSucceeds
<1> HIDE DEF content, count
<1>7. /\ counts \in Seq(S \cup {count})
      /\ seen \in Seq(S \cup {content})
      /\ Len(counts) = Len(k) + 1
      /\ Len(seen) = Len(v) + 1
      /\ Len(k) \in Nat
  BY <1>4, AppendAny
<1> HIDE DEF counts, seen
<1>8. CASE Len(counts) = Len(Probes(a))
  <2>1. /\ call' = <<>>
        /\ observation'.status = (IF Passes(a, counts) THEN "passed" ELSE "failed")
        /\ observation'.refs = Upto(Len(counts))
        /\ observation'.attempts = [i \in DOMAIN counts |-> TRUE]
    BY <1>6, <1>8
  <2>2. observation'.status \in {"passed", "failed"}
    BY <2>1
  <2> QED
    BY <1>7, <2>1, <2>2
<1>9. CASE Len(counts) # Len(Probes(a))
  <2>1. Continued(c, counts, seen) = Call(s, a, f, counts, seen)
    BY <1>4, CallUpdates
  <2>2. counts \in Seq(U) /\ seen \in Seq(U)
    BY <1>7, SeqWidens
  <2>3. Len(Probes(a)) \in Nat
    BY ProbesLength
  <2>4. Len(counts) = Len(seen) /\ Len(counts) < Len(Probes(a))
    BY <1>4, <1>7, <1>9, <2>3
  <2> HIDE DEF U
  <2>5. CallShape(Call(s, a, f, counts, seen))
    BY <1>4, <2>2, <2>4 DEF CallShape
  <2>6. call' = <<Call(s, a, f, counts, seen)>> /\ observation' = NoObservation
    BY <1>6, <1>9, <2>1 DEF Continued
  <2> QED
    BY <2>5, <2>6
<1> QED
  BY <1>8, <1>9

LEMMA PendingStep == PendingOK /\ [Next]_vars => PendingOK'
<1> SUFFICES ASSUME PendingOK, [Next]_vars PROVE PendingOK'
  OBVIOUS
<1>1. ASSUME call' = call PROVE PendingOK'
  BY <1>1, PendingNext DEF PendingOK
<1>2. ASSUME NEW s \in Sessions, NEW n \in Names \cup {""}, NEW kind \in Kinds,
             NEW u \in Uris \cup {""}, Register(s, n, kind, u)
      PROVE PendingOK'
  BY <1>1, <1>2 DEF Register
<1>3. ASSUME NEW s \in Sessions, Activate(s) PROVE PendingOK'
  BY <1>1, <1>3 DEF Activate
<1>4. CASE ClearActive
  BY <1>1, <1>4 DEF ClearActive
<1>5. ASSUME NEW s \in Sessions, NEW n \in Names, Collect(s, n) PROVE PendingOK'
  BY <1>1, <1>5 DEF Collect, CollectFrom
<1>6. ASSUME NEW n \in Names, LazyCollect(n) PROVE PendingOK'
  BY <1>1, <1>6 DEF LazyCollect, CollectFrom
<1>7. ASSUME NEW u \in Uris, FileChanges(u) PROVE PendingOK'
  BY <1>1, <1>7 DEF FileChanges
<1>8. ASSUME NEW s \in Sessions, NEW a \in Assertions, NEW n \in Names, Observe(s, a, <<n>>)
      PROVE PendingOK'
  <2>1. Range(<<n>>) \subseteq Names
    BY DEF Range
  <2> QED
    BY <1>8, <2>1, ObserveStep
<1>9. ASSUME NEW s \in Sessions, NEW a \in Assertions, NEW l \in Names, NEW r \in Names,
             Observe(s, a, <<l, r>>)
      PROVE PendingOK'
  <2>1. Range(<<l, r>>) \subseteq Names
    BY DEF Range
  <2> QED
    BY <1>9, <2>1, ObserveStep
<1>10. CASE ProbeSucceeds
  BY <1>10, SuccessOutcome, PendingNext
<1>11. CASE ProbeFails
  BY <1>11, PendingNext DEF ProbeFails
<1>12. CASE UNCHANGED vars
  BY <1>1, <1>12 DEF vars
<1> QED
  BY <1>2, <1>3, <1>4, <1>5, <1>6, <1>7, <1>8, <1>9, <1>10, <1>11, <1>12 DEF Next

LEMMA PendingTyped ==
    ASSUME PendingOK
    PROVE  /\ Len(call) <= 1
           /\ \A c \in Range(call) : CallOK(c)
<1>1. CASE call = <<>>
  BY <1>1, EmptyRange
<1>2. ASSUME NEW c, call = <<c>>, CallShape(c)
      PROVE Len(call) <= 1 /\ \A d \in Range(call) : CallOK(d)
  <2>1. CallOK(c)
    BY <1>2 DEF CallShape, Call, CallOK
  <2> QED
    BY <1>2, <2>1, SingleRange
<1> QED
  BY <1>1, <1>2 DEF PendingOK

-----------------------------------------------------------------------------
(* What a verdict says.                                                    *)

\* Each count is what its probe counts in the content read with it.
CountsOf(a, counts, seen) ==
    /\ Len(counts) = Len(seen)
    /\ \A i \in 1..Len(seen) :
          seen[i] \in Contents /\ counts[i] = RowCount(a, Probes(a)[i], seen[i])

CountedOK == \A c \in Range(call) : CountsOf(c.assertion, c.counts, c.seen)

\* The groups of a content whose size is in T.
GroupsIn(c, T) == {g \in DOMAIN c.groups : c.groups[g] \in T}

\* No group is of the kind counted exactly if their number is zero.
LEMMA NoneCounted ==
    ASSUME NEW c \in Contents, NEW T
    PROVE  Cardinality(GroupsIn(c, T)) = 0 <=> \A n \in Range(c.groups) : n \notin T
<1>1. IsFiniteSet(GroupsIn(c, T))
  <2>1. c.groups \in Seq(Nat \ {0})
    BY ContentAssumption
  <2>2. DOMAIN c.groups = 1..Len(c.groups) /\ Len(c.groups) \in Nat
    BY <2>1, LenProperties
  <2>3. IsFiniteSet(1..Len(c.groups))
    BY <2>2, FS_Interval
  <2>4. GroupsIn(c, T) \subseteq 1..Len(c.groups)
    BY <2>2 DEF GroupsIn
  <2> QED
    BY <2>3, <2>4, FS_Subset
<1>2. Cardinality(GroupsIn(c, T)) = 0 <=> GroupsIn(c, T) = {}
  BY <1>1, FS_EmptySet
<1>3. GroupsIn(c, T) = {} <=> \A n \in Range(c.groups) : n \notin T
  BY DEF Range, GroupsIn
<1> QED
  BY <1>2, <1>3

\* What the probes of groups count.
LEMMA GroupProbes ==
    ASSUME NEW a \in Assertions, NEW c \in Contents
    PROVE  /\ RowCount(a, "repeated", c) = Cardinality(GroupsIn(c, {n \in Nat : n > 1}))
           /\ RowCount(a, "small", c)
              = Cardinality(GroupsIn(c, {n \in Nat : \E m \in a.min : n < m}))
           /\ RowCount(a, "large", c)
              = Cardinality(GroupsIn(c, {n \in Nat : \E m \in a.max : n > m}))
<1>1. \A g \in DOMAIN c.groups : c.groups[g] \in Nat
  <2>1. c.groups \in Seq(Nat \ {0})
    BY ContentAssumption
  <2> QED
    BY <2>1
<1>2. GroupsIn(c, {n \in Nat : n > 1}) = {g \in DOMAIN c.groups : c.groups[g] > 1}
  BY <1>1 DEF GroupsIn
<1>3. GroupsIn(c, {n \in Nat : \E m \in a.min : n < m})
      = {g \in DOMAIN c.groups : \E m \in a.min : c.groups[g] < m}
  BY <1>1 DEF GroupsIn
<1>4. GroupsIn(c, {n \in Nat : \E m \in a.max : n > m})
      = {g \in DOMAIN c.groups : \E m \in a.max : c.groups[g] > m}
  BY <1>1 DEF GroupsIn
<1>5. RowCount(a, "repeated", c) = Cardinality({g \in DOMAIN c.groups : c.groups[g] > 1})
  BY DEF RowCount, GroupsWith
<1>6. RowCount(a, "small", c)
      = Cardinality({g \in DOMAIN c.groups : \E m \in a.min : c.groups[g] < m})
  BY DEF RowCount, GroupsWith
<1>7. RowCount(a, "large", c)
      = Cardinality({g \in DOMAIN c.groups : \E m \in a.max : c.groups[g] > m})
  BY DEF RowCount, GroupsWith
<1> QED
  BY <1>2, <1>3, <1>4, <1>5, <1>6, <1>7

\* The counts of an assertion decide it, for the first and the last content they
\* were read with.
LEMMA CountsDecide ==
    ASSUME NEW a \in Assertions, NEW S, NEW k \in Seq(S), NEW v \in Seq(S),
           Len(k) = Len(Probes(a)), CountsOf(a, k, v)
    PROVE  Passes(a, k) <=> Holds(a, v[1], Last(v))
<1>1. a.kind \in {"row_count", "null_rate", "unique", "group_row_count", "cross"}
  BY AssertionAssumption
<1>2. \A i \in 1..Len(Probes(a)) :
         v[i] \in Contents /\ k[i] = RowCount(a, Probes(a)[i], v[i])
  BY DEF CountsOf
<1>3. /\ DOMAIN k = 1..Len(Probes(a)) /\ Len(v) = Len(Probes(a))
      /\ Last(v) = v[Len(Probes(a))]
  BY LenProperties DEF CountsOf, Last
<1>4. CASE a.kind = "cross"
  <2>1. Probes(a) = <<"all", "all">>
    BY <1>4 DEF Probes
  <2>2. /\ 1 \in 1..Len(Probes(a)) /\ Probes(a)[1] = "all"
        /\ 2 \in 1..Len(Probes(a)) /\ Probes(a)[2] = "all"
        /\ Len(Probes(a)) = 2
    BY <2>1
  <2>3. k[1] = RowCount(a, "all", v[1]) /\ k[2] = RowCount(a, "all", v[2])
    BY <1>2, <2>2
  <2>4. k[1] = RowsIn(v[1]) /\ k[2] = RowsIn(v[2])
    BY <2>3 DEF RowCount
  <2> QED
    BY <1>3, <1>4, <2>2, <2>4 DEF Passes, Holds
<1>5. 1 \in 1..Len(Probes(a)) /\ Len(Probes(a)) \in 1..Len(Probes(a)) /\ v[1] \in Contents
  BY <1>2, ProbesLength
<1>6. ASSUME NEW c \in Contents PROVE \A n \in Range(c.groups) : n \in Nat \ {0}
  <2>1. c.groups \in Seq(Nat \ {0})
    BY ContentAssumption
  <2> QED
    BY <2>1 DEF Range
<1>7. CASE a.kind = "row_count"
  <2>1. Probes(a) = <<"all">>
    BY <1>7 DEF Probes
  <2>2. 1 \in 1..Len(Probes(a)) /\ Probes(a)[1] = "all"
    BY <2>1
  <2>3. k[1] = RowCount(a, "all", v[1])
    BY <1>2, <2>2
  <2>4. k[1] = RowsIn(v[1])
    BY <2>3 DEF RowCount
  <2> QED
    BY <1>7, <2>4 DEF Passes, Holds
<1>8. CASE a.kind = "null_rate"
  <2>1. Probes(a) = <<"all", "nulls">>
    BY <1>8 DEF Probes
  <2>2. /\ 1 \in 1..Len(Probes(a)) /\ Probes(a)[1] = "all"
        /\ 2 \in 1..Len(Probes(a)) /\ Probes(a)[2] = "nulls"
        /\ Len(Probes(a)) = 2
    BY <2>1
  <2>3. k[1] = RowCount(a, "all", v[1]) /\ k[2] = RowCount(a, "nulls", v[2])
    BY <1>2, <2>2
  <2>4. k[1] = RowsIn(v[1]) /\ k[2] = v[2].nulls
    BY <2>3 DEF RowCount
  <2> QED
    BY <1>3, <1>8, <2>2, <2>4 DEF Passes, Holds
<1>9. CASE a.kind = "unique"
  <2> DEFINE Repeated == {n \in Nat : n > 1}
  <2>1. Probes(a) = <<"repeated">>
    BY <1>9 DEF Probes
  <2>2. 1 \in 1..Len(Probes(a)) /\ Probes(a)[1] = "repeated"
    BY <2>1
  <2>3. k[1] = Cardinality(GroupsIn(v[1], Repeated))
    BY <1>2, <1>5, <2>2, GroupProbes
  <2>4. k[1] = 0 <=> \A n \in Range(v[1].groups) : n \notin Repeated
    BY <1>5, <2>3, NoneCounted
  <2>5. Passes(a, k) <=> k[1] = 0
    BY <1>3, <1>9, <2>1 DEF Passes
  <2>6. Holds(a, v[1], Last(v)) <=> \A n \in Range(v[1].groups) : n = 1
    BY <1>9 DEF Holds
  <2> QED
    BY <1>5, <1>6, <2>4, <2>5, <2>6
<1>10. CASE a.kind = "group_row_count"
  <2> DEFINE Small == {n \in Nat : \E m \in a.min : n < m}
             Large == {n \in Nat : \E m \in a.max : n > m}
             last == Last(v)
  <2>1. Probes(a) = <<"small">> \o (IF a.max # {} THEN <<"large">> ELSE <<>>)
    BY <1>10 DEF Probes
  <2>2. 1 \in 1..Len(Probes(a)) /\ Probes(a)[1] = "small"
    BY <1>5, <2>1
  <2>3. k[1] = Cardinality(GroupsIn(v[1], Small))
    BY <1>2, <1>5, <2>2, GroupProbes
  <2>4. k[1] = 0 <=> \A n \in Range(v[1].groups) : n \notin Small
    BY <1>5, <2>3, NoneCounted
  <2>5. Passes(a, k) <=> \A i \in 1..Len(Probes(a)) : k[i] = 0
    BY <1>3, <1>10 DEF Passes
  <2>6. last \in Contents
    BY <1>2, <1>3, <1>5
  <2>7. Holds(a, v[1], last) <=>
          /\ \A n \in Range(v[1].groups), m \in a.min : n >= m
          /\ \A n \in Range(last.groups), m \in a.max : n <= m
    BY <1>10 DEF Holds
  <2>8. /\ \A n \in Nat : n \notin Small <=> \A m \in a.min : n >= m
        /\ \A n \in Nat : n \notin Large <=> \A m \in a.max : n <= m
    <3>1. a.min \subseteq Nat /\ a.max \subseteq Nat
      BY AssertionAssumption
    <3> QED
      BY <3>1
  <2>9. Holds(a, v[1], last) <=>
          /\ \A n \in Range(v[1].groups) : n \notin Small
          /\ \A n \in Range(last.groups) : n \notin Large
    <3>1. \A n \in Range(v[1].groups) : n \in Nat
      BY <1>5, <1>6
    <3>2. \A n \in Range(last.groups) : n \in Nat
      BY <1>6, <2>6
    <3> HIDE DEF Small, Large, last
    <3> QED
      BY <2>7, <2>8, <3>1, <3>2
  <2>10. CASE a.max # {}
    <3>1. Len(Probes(a)) = 2 /\ Probes(a)[2] = "large"
      <4>1. Probes(a) = <<"small">> \o <<"large">>
        BY <2>1, <2>10
      <4> QED
        BY <4>1
    <3>2. 2 \in 1..Len(Probes(a)) /\ last = v[2]
      BY <1>3, <3>1
    <3>3. k[2] = RowCount(a, "large", last)
      BY <1>2, <3>1, <3>2
    <3>4. k[2] = Cardinality(GroupsIn(last, Large))
      BY <2>6, <3>3, GroupProbes
    <3>5. k[2] = 0 <=> \A n \in Range(last.groups) : n \notin Large
      BY <2>6, <3>4, NoneCounted
    <3>6. Passes(a, k) <=> k[1] = 0 /\ k[2] = 0
      BY <2>5, <3>1
    <3> HIDE DEF Small, Large, last
    <3>7. Passes(a, k) <=> Holds(a, v[1], last)
      BY <2>4, <2>9, <3>5, <3>6
    <3> QED
      BY <3>7 DEF last
  <2>11. CASE a.max = {}
    <3>1. Probes(a) = <<"small">>
      <4>1. Probes(a) = <<"small">> \o <<>>
        BY <2>1, <2>11
      <4> QED
        BY <4>1
    <3>2. Passes(a, k) <=> k[1] = 0
      BY <2>5, <3>1
    <3>3. Large = {}
      BY <2>11
    <3> HIDE DEF Small, Large, last
    <3>4. Passes(a, k) <=> Holds(a, v[1], last)
      BY <2>4, <2>9, <3>2, <3>3
    <3> QED
      BY <3>4 DEF last
  <2> QED
    BY <2>10, <2>11
<1> QED
  BY <1>1, <1>4, <1>7, <1>8, <1>9, <1>10

\* A collect that succeeds reads a file's content, not a missing file.
LEMMA ReadsContent ==
    ASSUME CatalogOK, NEW s \in Sessions, NEW n, CanRead(registrations[s], n)
    PROVE  files[UriOf(registrations[s], n)] \in Contents
<1> DEFINE bindings == registrations[s]
           i == CHOOSE j \in DOMAIN bindings : bindings[j].name = n
<1>1. bindings \in Seq(Registration)
  BY DEF CatalogOK
<1>2. i \in DOMAIN bindings
  BY DEF CanRead, NamesOf
<1>3. bindings[i] \in Registration
  BY <1>1, <1>2, ElementOfSeq, LenProperties
<1>4. UriOf(bindings, n) = bindings[i].uri
  BY DEF UriOf
<1>5. UriOf(bindings, n) \in Uris
  <2> HIDE DEF i, bindings
  <2> QED
    BY <1>3, <1>4 DEF Registration
<1> QED
  BY <1>5 DEF CanRead, CatalogOK

\* One more collect appends its count and what it read.
LEMMA AppendCounted ==
    ASSUME NEW a \in Assertions, NEW S, NEW k \in Seq(S), NEW v \in Seq(S),
           CountsOf(a, k, v), NEW content \in Contents
    PROVE  CountsOf(a, Append(k, RowCount(a, Probes(a)[Len(k) + 1], content)),
                    Append(v, content))
<1> DEFINE count == RowCount(a, Probes(a)[Len(k) + 1], content)
           T == S \cup {count, content}
<1>1. k \in Seq(T) /\ v \in Seq(T) /\ count \in T /\ content \in T
  BY SeqWidens
<1>2. Len(k) = Len(v) /\ Len(v) \in Nat
  BY LenProperties DEF CountsOf
<1> HIDE DEF T, count
<1>3. /\ Len(Append(k, count)) = Len(k) + 1 /\ Len(Append(v, content)) = Len(v) + 1
      /\ \A i \in 1..Len(k) : Append(k, count)[i] = k[i]
      /\ \A i \in 1..Len(v) : Append(v, content)[i] = v[i]
      /\ Append(k, count)[Len(k) + 1] = count /\ Append(v, content)[Len(v) + 1] = content
  BY <1>1, AppendProperties
<1>4. ASSUME NEW i \in 1..Len(v) + 1
      PROVE  /\ Append(v, content)[i] \in Contents
             /\ Append(k, count)[i] = RowCount(a, Probes(a)[i], Append(v, content)[i])
  <2>1. CASE i \in 1..Len(v)
    BY <1>2, <1>3, <2>1 DEF CountsOf
  <2>2. CASE i = Len(v) + 1
    BY <1>2, <1>3, <2>2 DEF count
  <2> QED
    BY <1>2, <2>1, <2>2
<1> QED
  BY <1>2, <1>3, <1>4 DEF CountsOf, count

\* An assertion whose last collect succeeded.
Decided(made, a, k, v) ==
    /\ Len(k) = Len(Probes(a))
    /\ CountsOf(a, k, v)
    /\ made.assertions = {a}
    /\ made.status = IF Passes(a, k) THEN "passed" ELSE "failed"
    /\ made.seen = v

LEMMA CountedOutcome ==
    ASSUME CatalogOK, PendingOK, CountedOK, ProbeSucceeds
    PROVE  \/ /\ call' = <<>>
              /\ \E a \in Assertions : \E k, v, S :
                    k \in Seq(S) /\ v \in Seq(S) /\ Decided(observation', a, k, v)
           \/ /\ \E c : call' = <<c>> /\ CountsOf(c.assertion, c.counts, c.seen)
              /\ observation' = NoObservation
<1>1. PICK c : call = <<c>> /\ CallShape(c)
  BY EmptyRange DEF PendingOK, ProbeSucceeds
<1>2. PICK s \in Sessions, a \in Assertions : \E f, k, v, S :
        /\ c = Call(s, a, f, k, v)
        /\ k \in Seq(S) /\ v \in Seq(S)
  BY <1>1 DEF CallShape
<1>3. PICK f, k, v, S :
        /\ c = Call(s, a, f, k, v)
        /\ k \in Seq(S) /\ v \in Seq(S)
  BY <1>2
<1>4. c.session = s /\ c.assertion = a /\ c.counts = k /\ c.seen = v
  BY <1>3 DEF Call
<1>5. Range(call) = {c}
  BY <1>1, SingleRange
<1> DEFINE content == files[UriOf(registrations[c.session], NextFrame(c))]
           count == RowCount(a, Probes(a)[Len(k) + 1], content)
           counts == Append(k, count)
           seen == Append(v, content)
           U == S \cup {count} \cup {content}
<1>6. IF Len(counts) = Len(Probes(a))
      THEN /\ call' = <<>>
           /\ observation' = [assertions |-> {a},
                              status |-> IF Passes(a, counts) THEN "passed" ELSE "failed",
                              refs |-> Upto(Len(counts)),
                              attempts |-> [i \in DOMAIN counts |-> TRUE],
                              seen |-> seen]
      ELSE /\ call' = <<[c EXCEPT !.counts = counts, !.seen = seen]>>
           /\ observation' = NoObservation
  BY <1>4, <1>5 DEF ProbeSucceeds
<1>7. content \in Contents
  <2>1. CanRead(registrations[s], NextFrame(c))
    BY <1>4, <1>5 DEF ProbeSucceeds
  <2> QED
    BY <1>4, <2>1, ReadsContent
<1> HIDE DEF content
<1>8. CountsOf(a, counts, seen)
  <2>1. CountsOf(a, k, v)
    BY <1>4, <1>5 DEF CountedOK
  <2> QED
    BY <1>3, <1>7, <2>1, AppendCounted
<1> HIDE DEF count
<1>9. counts \in Seq(U) /\ seen \in Seq(U)
  <2>1. counts \in Seq(S \cup {count}) /\ seen \in Seq(S \cup {content})
    BY <1>3, AppendAny
  <2> HIDE DEF counts, seen
  <2> QED
    BY <2>1, SeqWidens
<1> HIDE DEF counts, seen, U
<1>10. CASE Len(counts) = Len(Probes(a))
  <2>1. Decided(observation', a, counts, seen)
    BY <1>6, <1>8, <1>10 DEF Decided
  <2> QED
    BY <1>6, <1>9, <1>10, <2>1
<1>11. CASE Len(counts) # Len(Probes(a))
  <2>1. Continued(c, counts, seen) = Call(s, a, f, counts, seen)
    BY <1>3, CallUpdates
  <2>2. call' = <<Call(s, a, f, counts, seen)>> /\ observation' = NoObservation
    BY <1>6, <1>11, <2>1 DEF Continued
  <2>3. /\ Call(s, a, f, counts, seen).assertion = a
        /\ Call(s, a, f, counts, seen).counts = counts
        /\ Call(s, a, f, counts, seen).seen = seen
    BY DEF Call
  <2> QED
    BY <1>8, <2>2, <2>3
<1> QED
  BY <1>10, <1>11

LEMMA CountedNext ==
    ASSUME call' = <<>> \/ \E c : call' = <<c>> /\ CountsOf(c.assertion, c.counts, c.seen)
    PROVE  CountedOK'
<1>1. CASE call' = <<>>
  <2>1. Range(call') = {}
    BY <1>1, EmptyRange
  <2> QED
    BY <2>1 DEF CountedOK
<1>2. ASSUME NEW c, call' = <<c>>, CountsOf(c.assertion, c.counts, c.seen)
      PROVE CountedOK'
  <2>1. Range(call') = {c}
    BY <1>2, SingleRange
  <2> QED
    BY <1>2, <2>1 DEF CountedOK
<1> QED
  BY <1>1, <1>2

LEMMA NoVerdict ==
    ASSUME observation' = NoObservation
    PROVE  VerdictIsExact'
BY DEF VerdictIsExact, NoObservation

LEMMA DecidedExact ==
    ASSUME NEW a \in Assertions, NEW S, NEW k \in Seq(S), NEW v \in Seq(S),
           Decided(observation', a, k, v)
    PROVE  VerdictIsExact'
<1>1. /\ observation'.assertions = {a} /\ observation'.seen = v
      /\ observation'.status = IF Passes(a, k) THEN "passed" ELSE "failed"
      /\ Len(k) = Len(Probes(a)) /\ CountsOf(a, k, v)
  BY DEF Decided
<1>2. Passes(a, k) <=> Holds(a, v[1], Last(v))
  BY <1>1, CountsDecide
<1>3. observation'.status = "passed" <=> Passes(a, k)
  BY <1>1
<1> QED
  BY <1>1, <1>2, <1>3 DEF VerdictIsExact, Last

\* Only a last successful collect gives a verdict, from counts of what was read.
LEMMA ExactStep ==
    ASSUME CatalogOK, PendingOK, CountedOK, VerdictIsExact, [Next]_vars
    PROVE  CountedOK' /\ VerdictIsExact'
<1>1. ASSUME call' = call PROVE CountedOK'
  BY <1>1 DEF CountedOK, CountsOf, Range
<1>2. ASSUME NEW s \in Sessions, NEW n \in Names \cup {""}, NEW kind \in Kinds,
             NEW u \in Uris \cup {""}, Register(s, n, kind, u)
      PROVE CountedOK' /\ VerdictIsExact'
  BY <1>1, <1>2, NoVerdict DEF Register, ReturnsNothing
<1>3. ASSUME NEW s \in Sessions, Activate(s) PROVE CountedOK' /\ VerdictIsExact'
  BY <1>1, <1>3, NoVerdict DEF Activate, ReturnsNothing
<1>4. CASE ClearActive
  BY <1>1, <1>4, NoVerdict DEF ClearActive, ReturnsNothing
<1>5. ASSUME NEW s \in Sessions, NEW n \in Names, Collect(s, n)
      PROVE CountedOK' /\ VerdictIsExact'
  BY <1>1, <1>5, NoVerdict DEF Collect, CollectFrom
<1>6. ASSUME NEW n \in Names, LazyCollect(n) PROVE CountedOK' /\ VerdictIsExact'
  BY <1>1, <1>6, NoVerdict DEF LazyCollect, CollectFrom
<1>7. ASSUME NEW u \in Uris, FileChanges(u) PROVE CountedOK' /\ VerdictIsExact'
  BY <1>1, <1>7, NoVerdict DEF FileChanges, ReturnsNothing
<1>8. ASSUME NEW s \in Sessions, NEW a \in Assertions, NEW f, Observe(s, a, f)
      PROVE CountedOK' /\ VerdictIsExact'
  <2>1. CASE Supported(a, f)
    <3>1. call' = <<Call(s, a, f, <<>>, <<>>)>> /\ observation' = NoObservation
      BY <1>8, <2>1 DEF Observe, Call
    <3>2. /\ Call(s, a, f, <<>>, <<>>).assertion = a
          /\ Call(s, a, f, <<>>, <<>>).counts = <<>>
          /\ Call(s, a, f, <<>>, <<>>).seen = <<>>
      BY DEF Call
    <3>3. CountsOf(a, <<>>, <<>>)
      BY DEF CountsOf
    <3> QED
      BY <3>1, <3>2, <3>3, CountedNext, NoVerdict
  <2>2. CASE ~Supported(a, f)
    <3>1. observation'.status = "unsupported" /\ call' = call
      BY <1>8, <2>2 DEF Observe
    <3> QED
      BY <1>1, <3>1 DEF VerdictIsExact
  <2> QED
    BY <2>1, <2>2
<1>9. CASE ProbeSucceeds
  <2>1. ASSUME NEW a \in Assertions, NEW S, NEW k \in Seq(S), NEW v \in Seq(S),
               Decided(observation', a, k, v)
        PROVE VerdictIsExact'
    BY <2>1, DecidedExact
  <2>2. CASE call' = <<>> /\ \E a \in Assertions : \E k, v, S :
                                k \in Seq(S) /\ v \in Seq(S) /\ Decided(observation', a, k, v)
    BY <2>1, <2>2, CountedNext
  <2>3. CASE /\ \E c : call' = <<c>> /\ CountsOf(c.assertion, c.counts, c.seen)
             /\ observation' = NoObservation
    BY <2>3, CountedNext, NoVerdict
  <2> QED
    BY <1>9, <2>2, <2>3, CountedOutcome
<1>10. CASE ProbeFails
  <2>1. call' = <<>> /\ observation'.status = "errored"
    BY <1>10 DEF ProbeFails
  <2> QED
    BY <2>1, CountedNext DEF VerdictIsExact
<1>11. CASE UNCHANGED vars
  <2>1. call' = call /\ observation' = observation
    BY <1>11 DEF vars
  <2>2. VerdictIsExact'
    BY <2>1, Zenon DEF VerdictIsExact
  <2> QED
    BY <1>1, <2>1, <2>2
<1> QED
  BY <1>2, <1>3, <1>4, <1>5, <1>6, <1>7, <1>8, <1>9, <1>10, <1>11 DEF Next

-----------------------------------------------------------------------------
(* Column names.                                                           *)

\* A collect reports what the registry says when it returns.
ResolvedOK == collected.name \in Names => collected.resolved = schemas[collected.name]

LEMMA NothingResolved ==
    ASSUME collected' = NothingCollected
    PROVE  ResolvedOK'
BY NameAssumption DEF ResolvedOK, NothingCollected

LEMMA ResolvedInit ==
    ASSUME Init
    PROVE  ResolvedOK
<1>1. collected = NothingCollected
  BY DEF Init
<1>2. NothingCollected.name = ""
  BY DEF NothingCollected
<1> QED
  BY <1>1, <1>2, NameAssumption DEF ResolvedOK

LEMMA ResolvedStep == ResolvedOK /\ [Next]_vars => ResolvedOK'
<1> SUFFICES ASSUME ResolvedOK, [Next]_vars PROVE ResolvedOK'
  OBVIOUS
<1>1. ASSUME NEW s \in Sessions, NEW n \in Names \cup {""}, NEW kind \in Kinds,
             NEW u \in Uris \cup {""}, Register(s, n, kind, u)
      PROVE ResolvedOK'
  BY <1>1, NothingResolved DEF Register, ReturnsNothing
<1>2. ASSUME NEW s \in Sessions, Activate(s) PROVE ResolvedOK'
  BY <1>2, NothingResolved DEF Activate, ReturnsNothing
<1>3. CASE ClearActive
  BY <1>3, NothingResolved DEF ClearActive, ReturnsNothing
<1>4. ASSUME NEW s \in Sessions, NEW n \in Names, Collect(s, n) PROVE ResolvedOK'
  BY <1>4 DEF Collect, CollectFrom, ResolvedOK, catalog
<1>5. ASSUME NEW n \in Names, LazyCollect(n) PROVE ResolvedOK'
  BY <1>5 DEF LazyCollect, CollectFrom, ResolvedOK, catalog
<1>6. ASSUME NEW u \in Uris, FileChanges(u) PROVE ResolvedOK'
  BY <1>6, NothingResolved DEF FileChanges, ReturnsNothing
<1>7. ASSUME NEW s \in Sessions, NEW a \in Assertions, NEW f, Observe(s, a, f)
      PROVE ResolvedOK'
  BY <1>7, NothingResolved DEF Observe
<1>8. CASE ProbeSucceeds
  BY <1>8, NothingResolved DEF ProbeSucceeds
<1>9. CASE ProbeFails
  BY <1>9, NothingResolved DEF ProbeFails
<1>10. CASE UNCHANGED vars
  BY <1>10 DEF vars, catalog, ResolvedOK
<1> QED
  BY <1>1, <1>2, <1>3, <1>4, <1>5, <1>6, <1>7, <1>8, <1>9, <1>10 DEF Next

\* The registry describes what the session that bound a name last bound it to.
LEMMA LastBinding ==
    ASSUME CatalogOK, SchemaIsOfLastBinder, NEW s \in Sessions,
           NEW r \in Range(registrations[s]), s \in binder[r.name]
    PROVE  r.name \in Names /\ schemas[r.name] = r.planned
<1>1. PICK i \in DOMAIN registrations[s] : r = registrations[s][i]
  BY DEF Range
<1>2. r.name \in Names
  <2>1. registrations[s] \in Seq(Registration)
    BY DEF CatalogOK
  <2>2. r \in Registration
    BY <1>1, <2>1
  <2> QED
    BY <2>2 DEF Registration
<1>3. PICK x \in Range(registrations[s]) : x.name = r.name /\ x.planned = schemas[r.name]
  BY <1>2 DEF SchemaIsOfLastBinder
<1>4. PICK j \in DOMAIN registrations[s] : x = registrations[s][j]
  BY DEF Range
<1>5. i = j
  BY <1>1, <1>3, <1>4 DEF CatalogOK
<1> QED
  BY <1>1, <1>2, <1>3, <1>4, <1>5

LEMMA ResolvedImplies ==
    ASSUME CatalogOK, SchemaIsOfLastBinder, ResolvedOK
    PROVE  ResolvedColumnsAgree
<1> SUFFICES ASSUME NEW s \in Sessions, NEW r \in Range(registrations[s]),
                    collected.name = r.name, s \in binder[r.name],
                    collected.read = r.planned
             PROVE  collected.resolved = collected.read
  BY DEF ResolvedColumnsAgree
<1>1. r.name \in Names /\ schemas[r.name] = r.planned
  BY LastBinding
<1> QED
  BY <1>1 DEF ResolvedOK

-----------------------------------------------------------------------------
(* The theorems.                                                           *)

\* In every reachable state the catalogue and the activation history are well
\* formed, and no session binds a name twice.
THEOREM CatalogWellFormed == Spec => []CatalogOK
  BY CatalogInit, CatalogStep, PTL DEF Spec

\* Of sessions that share a name, the one that bound it last decides what the
\* process-wide registry says of it; a registration that is turned down leaves no
\* trace there.
THEOREM RegistryFollowsLastBinder == Spec => []SchemaIsOfLastBinder
<1>1. Init => SchemaIsOfLastBinder
  <2> SUFFICES ASSUME Init PROVE SchemaIsOfLastBinder
    OBVIOUS
  <2>1. \A s \in Sessions, n \in Names : ~Binds(s, n)
    BY DEF Init, Binds, NamesOf
  <2> QED
    BY <2>1 DEF Init, SchemaIsOfLastBinder
<1> QED
  BY <1>1, BinderStep, CatalogWellFormed, PTL DEF Spec

\* A lazy frame resolves through the session that was activated last, as it was
\* then, whatever was registered since.
THEOREM ActivationIsASnapshot == Spec => []ActiveIsLastActivation
<1>1. Init => ActiveOK
  BY DEF Init, ActiveOK, ActiveBindings
<1> QED
  BY <1>1, ActiveOKImplies, ActiveStep, CatalogWellFormed, PTL DEF Spec

\* A quality assertion under evaluation keeps its shape.
THEOREM PendingWellFormed == Spec => []PendingOK
<1>1. Init => PendingOK
  BY DEF Init, PendingOK
<1> QED
  BY <1>1, PendingStep, PTL DEF Spec

\* Every variable keeps its type, the two halves of the activation history stay
\* of one length, and an assertion never makes more collects than it needs.
THEOREM SessionTypeCorrect == Spec => []TypeOK
<1>1. CatalogOK /\ PendingOK => TypeOK
  BY PendingTyped DEF CatalogOK, TypeOK
<1> QED
  BY <1>1, CatalogWellFormed, PendingWellFormed, PTL

\* The column names a collect reports are those of its rows, as long as the name
\* was bound to a CSV file that kept its columns and no other session bound it
\* since.
THEOREM ResolvedColumnsAreRead == Spec => []ResolvedColumnsAgree
<1>1. Init => ResolvedOK
  BY ResolvedInit
<1>2. Spec => []ResolvedOK
  BY <1>1, ResolvedStep, PTL DEF Spec
<1> QED
  BY <1>2, ResolvedImplies, RegistryFollowsLastBinder, CatalogWellFormed, PTL

\* Each count kept for a pending assertion is that of the content it was read
\* with, and so is each count a verdict was given on.
THEOREM CountsAreRead == Spec => [](CountedOK /\ VerdictIsExact)
<1>1. Init => CountedOK /\ VerdictIsExact
  BY EmptyRange DEF Init, NoObservation, CountedOK, VerdictIsExact
<1>2. CatalogOK /\ PendingOK /\ CountedOK /\ VerdictIsExact /\ [Next]_vars
        => CountedOK' /\ VerdictIsExact'
  BY ExactStep
<1> QED
  BY <1>1, <1>2, CatalogWellFormed, PendingWellFormed, PTL DEF Spec

\* However files change between the collects of an assertion, the check passed
\* exactly if the assertion holds for the rows that were read for it.
THEOREM VerdictsAreExact == Spec => []VerdictIsExact
<1>1. CountedOK /\ VerdictIsExact => VerdictIsExact
  OBVIOUS
<1> QED
  BY <1>1, CountsAreRead, PTL
=============================================================================
