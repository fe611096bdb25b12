-------------------------- MODULE PrismMeaningProofs --------------------------
(***************************************************************************)
(* Proofs of what rewriting preserves, for any stores, cursors, payloads   *)
(* and tables.  Inspection and lowering agree on the columns: erasing,     *)
(* collapsing, fusing and compacting leave the planned columns as the      *)
(* authored nodes plan them, and a list lowers to a relation of as many    *)
(* columns as it plans (ColumnsAgree).  And whatever the derived view may  *)
(* return, the authored nodes may return too (LoweringAgrees): every node  *)
(* of the draft lowers to a relation that refines what the authored node   *)
(* it stands for lowers to.                                                *)
(***************************************************************************)
EXTENDS PrismRewriteProofs, PrismRewriteMeaning, PrismRelationProofs

-----------------------------------------------------------------------------
(* What is known of the lists of the pass.                                 *)

LEMMA SoundReadsEarlier ==
    ASSUME NEW ns, NodeList(ns), WellFormed(ns), Arity(ns)
    PROVE  ReadsEarlier(ns)
<1>1. Len(ns) \in Nat
  BY ListFacts
<1> SUFFICES ASSUME NEW i \in 1..Len(ns)
             PROVE  /\ ns[i].kind \in Kind
                    /\ ns[i].kind # "ReadNamedTable" => ns[i].inputs[1] \in 1..(i - 1)
                    /\ ns[i].kind = "Join" => ns[i].inputs[2] \in 1..(i - 1)
  BY <1>1 DEF ReadsEarlier
<1>2. ns[i].kind \in Kind /\ ns[i].inputs \in Seq(Nat)
  BY ListFacts
<1>3. HasArity(ns[i].kind, ns[i].inputs)
  BY DEF Arity
<1>4. /\ ns[i].kind \in UnaryKind => 1 \in 1..Len(ns[i].inputs)
      /\ ns[i].kind = "Join" => 1 \in 1..Len(ns[i].inputs) /\ 2 \in 1..Len(ns[i].inputs)
  <2>1. 1 \in 1..1 /\ 1 \in 1..2 /\ 2 \in 1..2
    OBVIOUS
  <2> QED
    BY <1>3, <2>1, Zenon DEF HasArity
<1>5. ns[i].kind \in UnaryKind \/ ns[i].kind = "Join" => ns[i].inputs[1] \in 1..(i - 1)
  BY <1>4, InputsExist
<1>6. ns[i].kind = "Join" => ns[i].inputs[2] \in 1..(i - 1)
  BY <1>4, InputsExist
<1> QED
  BY <1>2, <1>5, <1>6 DEF Kind

-----------------------------------------------------------------------------
(* The payloads of the stores.                                             *)

Meaningful(kind, p) == Plannable(kind, p) /\ Computable(kind, p)

AsPassed(kind, p) == Meaningful(kind, p) /\ Accepted(kind, p)

StorePayloads ==
    \A s \in StoreId : \A i \in 1..Len(nodes[s]) : AsPassed(nodes[s][i].kind, nodes[s][i].payload)

LEMMA AppendNodePayloads ==
    ASSUME TypeOK, StorePayloads, NEW s, NEW kind, NEW inputs, NEW payload,
           Meaningful(kind, payload), AppendNode(s, kind, inputs, payload)
    PROVE  StorePayloads'
<1> DEFINE n == [id |-> nextId[s], kind |-> kind, inputs |-> inputs, payload |-> payload]
           new == Append(nodes[s], n)
<1>1. nodes' = [nodes EXCEPT ![s] = new]
  BY DEF AppendNode
<1>2. AsPassed(n.kind, n.payload)
  BY DEF AppendNode, ValidShape, AsPassed
<1> SUFFICES ASSUME NEW t \in StoreId, NEW i \in 1..Len(nodes'[t])
             PROVE  AsPassed(nodes'[t][i].kind, nodes'[t][i].payload)
  BY DEF StorePayloads
<1>3. nodes[t] \in Seq(Node) /\ nodes \in [StoreId -> Seq(Node)]
  BY DEF TypeOK
<1>4. CASE t = s
  <2>1. IsList(nodes[s])
    BY <1>3, <1>4 DEF IsList
  <2> HIDE DEF n
  <2>2. Appended(nodes[s], n, new)
    BY <2>1, AppendIsAppended
  <2>3. Len(nodes[s]) \in Nat
    BY <1>3, <1>4
  <2>4. nodes'[t] = new
    BY <1>1, <1>3, <1>4
  <2> HIDE DEF new
  <2>5. i = Len(nodes[s]) + 1 \/ i \in 1..Len(nodes[s])
    BY <2>2, <2>3, <2>4 DEF Appended
  <2>6. CASE i = Len(nodes[s]) + 1
    BY <1>2, <2>2, <2>4, <2>6 DEF Appended
  <2>7. CASE i \in 1..Len(nodes[s])
    BY <1>4, <2>2, <2>4, <2>7 DEF Appended, StorePayloads
  <2> QED
    BY <2>5, <2>6, <2>7
<1>5. CASE t # s
  <2>1. nodes'[t] = nodes[t]
    BY <1>1, <1>3, <1>5
  <2> QED
    BY <2>1 DEF StorePayloads
<1> QED
  BY <1>4, <1>5

LEMMA NextPayloads ==
    ASSUME IInv, StorePayloads, [Next]_vars
    PROVE  StorePayloads'
<1>1. ASSUME NEW c, NEW kind, NEW p, Meaningful(kind, p), Derive(c, kind, p)
      PROVE  StorePayloads'
  BY <1>1, AppendNodePayloads DEF Derive, IInv
<1>2. ASSUME UNCHANGED nodes
      PROVE  StorePayloads'
  BY <1>2 DEF StorePayloads
<1>3. \A k \in Kind : \A p \in Payload[k] : Meaningful(k, p)
  BY MeaningAssumption DEF Meaningful
<1>4. CASE \E t \in Payload["ReadNamedTable"] : NamedTable(t) \/ NamedTableRefused(t)
  <2>1. \A t \in Payload["ReadNamedTable"] : Meaningful("ReadNamedTable", t)
    BY <1>3 DEF Kind
  <2> QED
    BY <1>2, <1>4, <2>1, AppendNodePayloads DEF NamedTable, NamedTableRefused, IInv
<1>5. CASE \E c \in cursors : DeriveStep(c)
  <2>1. PICK c \in cursors : DeriveStep(c)
    BY <1>5
  <2>2. \A k \in UnaryKind : \A p \in Payload[k] : Meaningful(k, p)
    BY <1>3 DEF Kind
  <2>3. \A p : Meaningful("SelectProject", p) => Meaningful("Project", p)
    BY DEF Meaningful, Plannable, Computable
  <2>4. \A k \in UnaryKind : (\E p \in Payload[k] : Derive(c, k, p)) => StorePayloads'
    BY <1>1, <2>2
  <2>5. (\E p \in Payload["SelectProject"] : Select(c, p)) => StorePayloads'
    BY <1>1, <2>2, <2>3 DEF Select, UnaryKind
  <2> QED
    BY <2>1, <2>4, <2>5 DEF DeriveStep, Filter, WithColumn, GroupBy, Agg, OrderBy, Limit,
                            Generate, WithWindowColumn, UnaryKind
<1>6. CASE \E l, r \in cursors : JoinStep(l, r)
  <2>1. \A p \in Payload["Join"] : Meaningful("Join", p)
    BY <1>3 DEF Kind
  <2> QED
    BY <1>2, <1>6, <2>1, AppendNodePayloads
    DEF JoinStep, JoinSameStore, BeginAdoption, storeVars, IInv
<1>7. CASE AdoptStep
  <2>1. /\ ~Idle => join \in JoinRequest /\ join.right \in cursors
        /\ cursors \in SUBSET Cursor
    BY DEF IInv, AdoptionInProgress, TypeOK
  <2>2. ASSUME NEW x \in todo, AdoptReuse(x)
        PROVE  StorePayloads'
    BY <1>2, <2>2 DEF AdoptReuse, storeVars
  <2>3. ASSUME NEW x \in todo, AdoptCopy(x)
        PROVE  StorePayloads'
    <3>1. x \in 1..Len(Source) /\ join.right.store \in StoreId
      BY <2>1, <2>3 DEF AdoptCopy, IInv, AdoptionInProgress, Reachable, Cursor
    <3>2. Meaningful(Source[x].kind, Source[x].payload)
      BY <3>1 DEF Source, StorePayloads, AsPassed
    <3> QED
      BY <2>3, <3>2, AppendNodePayloads DEF AdoptCopy, IInv
  <2>4. CASE FinishJoin
    <3>1. Meaningful("Join", join.payload)
      BY <1>3, <2>1, <2>4 DEF FinishJoin, JoinRequest, Kind
    <3> QED
      BY <2>4, <3>1, AppendNodePayloads DEF FinishJoin, IInv
  <2> QED
    BY <1>7, <2>2, <2>3, <2>4 DEF AdoptStep
<1>8. CASE UNCHANGED vars
  BY <1>2, <1>8 DEF vars, storeVars
<1> QED
  BY <1>4, <1>5, <1>6, <1>7, <1>8 DEF Next

LEMMA PlannableListed ==
    ASSUME NEW kind, NEW p, AsPassed(kind, p), IsList(p.windows)
    PROVE  Listed(kind, p) /\ (kind # "GroupBy" => p.groups = <<>>)
<1>1. \A w : IsSequence(w) => IsList(w)
  BY DEF IsSequence, IsList
<1>2. IsList(<<>>)
  BY DEF IsList
<1> QED
  BY <1>1, <1>2 DEF AsPassed, Meaningful, Plannable, Listed

LEMMA RequestTidy ==
    ASSUME IInv, StoreArity, StorePayloads, request \in cursors
    PROVE  ReadsEarlier(AuthoredNodes) /\ AuthoredTidy(AuthoredNodes)
<1> DEFINE A == AuthoredNodes
<1>1. Authored(A, request.tip)
  BY RequestAuthored
<1>2. ReadsEarlier(A)
  BY <1>1, SoundReadsEarlier DEF Authored
<1>3. request.store \in StoreId
  BY DEF IInv, TypeOK, Cursor
<1>4. ASSUME NEW i \in 1..Len(A)
      PROVE  /\ Listed(A[i].kind, A[i].payload)
             /\ A[i].kind # "GroupBy" => A[i].payload.groups = <<>>
  <2>1. AsPassed(A[i].kind, A[i].payload)
    BY <1>3 DEF AuthoredNodes, StorePayloads
  <2>2. IsList(A[i].payload.windows)
    BY <1>1 DEF Authored
  <2> QED
    BY <2>1, <2>2, PlannableListed
<1> QED
  BY <1>2, <1>4 DEF AuthoredTidy, AllListed

-----------------------------------------------------------------------------
(* The pass keeps the columns.                                             *)

\* While GroupingPlain holds of what is derived: the draft follows the authored
\* nodes, then its root plans the authored columns, and so does the view's.
ColumnsInv ==
    /\ StorePayloads
    /\ phase = "rewriting" /\ GroupingPlain =>
          /\ Tidy(draft)
          /\ Follows(AuthoredNodes, AuthoredReachable \ unvisited, newId, draft)
    /\ phase = "compacting" /\ GroupingPlain =>
          /\ Tidy(draft)
          /\ PlannedColumns(draft)[view.root] = PlannedColumns(AuthoredNodes)[request.tip]
    /\ phase = "derived" /\ GroupingPlain =>
          /\ ReadsEarlier(view.nodes) /\ Tidy(view.nodes)
          /\ view.root \in 1..Len(view.nodes)
          /\ PlannedColumns(view.nodes)[view.root] = PlannedColumns(AuthoredNodes)[request.tip]

LEMMA PlainIsPlainOver ==
    GroupingPlain => PlainOver(AuthoredNodes, AuthoredReachable)
BY Zenon DEF GroupingPlain, PlainOver, Ungrouped, Bare

LEMMA PlainUnchanged ==
    ASSUME UNCHANGED <<request, nodes>>
    PROVE  /\ GroupingPlain' <=> GroupingPlain
           /\ AuthoredNodes' = AuthoredNodes
           /\ AuthoredReachable' = AuthoredReachable
<1>1. AuthoredNodes' = AuthoredNodes /\ AuthoredReachable' = AuthoredReachable
  BY DEF AuthoredNodes, AuthoredReachable
<1> QED
  BY <1>1 DEF GroupingPlain, Ungrouped

\* The iteration of the first loop for x, where the promise holds.
ColumnsTurn(x) ==
    /\ PassLedger /\ RewriteInv /\ RewriteInv' /\ ColumnsInv /\ GroupingPlain
    /\ x \in unvisited /\ IsTurnOf(x, "rewriting") /\ UNCHANGED vars

\* What it starts from.
LEMMA TurnColumns ==
    ASSUME NEW x, ColumnsTurn(x)
    PROVE  /\ phase = "rewriting"
           /\ ReadsEarlier(AuthoredNodes) /\ AuthoredTidy(AuthoredNodes)
           /\ ReadsEarlier(draft) /\ Tidy(draft)
           /\ Follows(AuthoredNodes, AuthoredReachable \ unvisited, newId, draft)
           /\ x \in 1..Len(AuthoredNodes) /\ x \in AuthoredReachable
           /\ AuthoredReachable \ unvisited \subseteq 1..Len(AuthoredNodes)
           /\ \A k \in 1..Len(AuthoredNodes[x].inputs) :
                 AuthoredNodes[x].inputs[k] \in AuthoredReachable \ unvisited
           /\ HasArity(AuthoredNodes[x].kind, AuthoredNodes[x].inputs)
           /\ PlainOver(AuthoredNodes, AuthoredReachable)
           /\ AuthoredReachable \ (unvisited \ {x}) = (AuthoredReachable \ unvisited) \cup {x}
<1> DEFINE A == AuthoredNodes
           tip == request.tip
<1>1. /\ phase = "rewriting" /\ x \in unvisited /\ \A y \in unvisited : x <= y
      /\ Authored(A, tip) /\ Rewriting(A, tip, unvisited, newId, draft, origins)
  BY TurnState DEF ColumnsTurn
<1>2. ReadsEarlier(A) /\ AuthoredTidy(A)
  <2>1. request \in cursors /\ IInv /\ StoreArity /\ StorePayloads
    BY <1>1 DEF ColumnsTurn, RewriteInv, PassOK, ColumnsInv
  <2> QED
    BY <2>1, RequestTidy
<1>3. ReadsEarlier(draft)
  <2>1. NodeList(draft) /\ WellFormed(draft) /\ Arity(draft)
    BY <1>1 DEF Rewriting, Emitted
  <2> QED
    BY <2>1, SoundReadsEarlier
<1>4. Tidy(draft) /\ Follows(A, AuthoredReachable \ unvisited, newId, draft)
  BY <1>1 DEF ColumnsTurn, ColumnsInv
<1>5. AuthoredReachable = Reachable(A, tip)
  BY DEF AuthoredReachable
<1> HIDE DEF A, tip
<1>6. Reachable(A, tip) \ unvisited \subseteq 1..Len(A)
  BY <1>1, VisitedFacts
<1>7. /\ x \in 1..Len(A)
      /\ \A k \in 1..Len(A[x].inputs) : A[x].inputs[k] \in Reachable(A, tip) \ unvisited
      /\ Reachable(A, tip) \ (unvisited \ {x}) = (Reachable(A, tip) \ unvisited) \cup {x}
  BY <1>1, TurnLedger, Zenon
<1>8. HasArity(A[x].kind, A[x].inputs)
  BY <1>1, <1>7 DEF Authored, Arity
<1>9. x \in Reachable(A, tip)
  BY <1>1 DEF Rewriting, Ordered
<1>10. PlainOver(AuthoredNodes, AuthoredReachable)
  BY PlainIsPlainOver DEF ColumnsTurn
<1> QED
  BY <1>1, <1>2, <1>3, <1>4, <1>5, <1>6, <1>7, <1>8, <1>9, <1>10 DEF A

LEMMA TurnEmitting ==
    ASSUME NEW x, ColumnsTurn(x), ~Erased(AuthoredNodes, x), Visit(x),
           NEW inputs, NEW payload, Emit(x, AuthoredNodes[x].kind, inputs, payload)
    PROVE  /\ Emitting(AuthoredNodes, AuthoredReachable \ unvisited, newId, draft, x, draft')
           /\ draft'[Len(draft) + 1].kind = AuthoredNodes[x].kind
           /\ draft'[Len(draft) + 1].inputs = inputs
           /\ draft'[Len(draft) + 1].payload = payload
           /\ newId'[x] = Len(draft) + 1
           /\ \A z \in AuthoredReachable \ unvisited : newId'[z] = newId[z]
<1> DEFINE A == AuthoredNodes
           done == AuthoredReachable \ unvisited
           new == draft'
<1>1. /\ ReadsEarlier(A) /\ AuthoredTidy(A) /\ ReadsEarlier(draft) /\ Tidy(draft)
      /\ Follows(A, done, newId, draft)
      /\ x \in 1..Len(A) /\ done \subseteq 1..Len(A)
      /\ \A k \in 1..Len(A[x].inputs) : A[x].inputs[k] \in done
      /\ HasArity(A[x].kind, A[x].inputs)
  BY TurnColumns
<1>2. /\ Len(new) = Len(draft) + 1
      /\ new[Len(draft) + 1].kind = A[x].kind
      /\ new[Len(draft) + 1].inputs = inputs
      /\ new[Len(draft) + 1].payload = payload
      /\ \A i \in 1..Len(draft) : new[i] = draft[i]
      /\ newId'[x] = Len(draft) + 1
      /\ \A z \in done : newId'[z] = newId[z]
  BY EmitAppends DEF ColumnsTurn, AuthoredReachable
<1>3. ReadsEarlier(new)
  <2>1. phase' = "rewriting" /\ RewriteInv'
    BY DEF ColumnsTurn, IsTurnOf, Visit
  <2>2. NodeList(new) /\ WellFormed(new) /\ Arity(new)
    BY <2>1 DEF RewriteInv, PassOK, Rewriting, Emitted
  <2> HIDE DEF new
  <2> QED
    BY <2>2, SoundReadsEarlier
<1>4. A[x].kind \in Kind
  BY <1>1 DEF ReadsEarlier
<1> HIDE DEF A, done, new
<1>5. /\ A[x].kind # "ReadNamedTable" => A[x].inputs[1] \in done
      /\ A[x].kind = "Join" => A[x].inputs[2] \in done
  <2>1. 1 \in 1..1 /\ 1 \in 1..2 /\ 2 \in 1..2
    OBVIOUS
  <2>2. A[x].kind = "Join" => Len(A[x].inputs) = 2
    BY <1>1 DEF HasArity
  <2>3. A[x].kind # "ReadNamedTable" => Len(A[x].inputs) \in {1, 2}
    BY <1>1, <1>4 DEF HasArity, Kind
  <2> QED
    BY <1>1, <2>1, <2>2, <2>3
<1>6. Emitting(A, done, newId, draft, x, new)
  BY <1>1, <1>2, <1>3, <1>5 DEF Emitting, A
<1> QED
  BY <1>2, <1>6 DEF A, done, new

\* An iteration of the first loop keeps the invariant if the new node does.
LEMMA TurnKeeps ==
    ASSUME NEW x, ColumnsTurn(x), Visit(x), Tidy(draft'),
           Follows(AuthoredNodes, (AuthoredReachable \ unvisited) \cup {x}, newId', draft')
    PROVE  ColumnsInv'
<1>1. /\ phase' = "rewriting" /\ unvisited' = unvisited \ {x}
      /\ UNCHANGED <<request, nodes>>
  BY DEF ColumnsTurn, Visit, IsTurnOf, vars, storeVars
<1>2. AuthoredNodes' = AuthoredNodes /\ AuthoredReachable' = AuthoredReachable
  BY <1>1, PlainUnchanged
<1>3. AuthoredReachable \ unvisited' = (AuthoredReachable \ unvisited) \cup {x}
  BY <1>1, TurnColumns
<1>4. StorePayloads'
  BY <1>1 DEF ColumnsTurn, ColumnsInv, StorePayloads
<1>5. Follows(AuthoredNodes', AuthoredReachable' \ unvisited', newId', draft')
  BY <1>2, <1>3
<1> QED
  BY <1>1, <1>4, <1>5 DEF ColumnsInv

LEMMA EmitPlans ==
    ASSUME NEW x, ColumnsTurn(x), ~Erased(AuthoredNodes, x), Visit(x),
           NEW inputs, NEW payload, Emit(x, AuthoredNodes[x].kind, inputs, payload),
           PlannedColumns(draft')[Len(draft) + 1] = PlannedColumns(AuthoredNodes)[x],
           Listed(AuthoredNodes[x].kind, payload),
           NothingToGroup(draft, AuthoredNodes[x].kind, inputs, payload),
           AuthoredNodes[x].kind = "GroupBy" =>
              /\ payload.groups = AuthoredNodes[x].payload.groups
              /\ inputs[1] = newId[AuthoredNodes[x].inputs[1]]
    PROVE  ColumnsInv'
<1> DEFINE A == AuthoredNodes
           done == AuthoredReachable \ unvisited
           new == draft'
           mnew == newId'
           n == new[Len(draft) + 1]
<1>1. /\ Emitting(A, done, newId, draft, x, new)
      /\ n.kind = A[x].kind /\ n.inputs = inputs /\ n.payload = payload
      /\ mnew[x] = Len(draft) + 1 /\ \A z \in done : mnew[z] = newId[z]
  BY TurnEmitting
<1>2. PlannedColumns(new)[Len(draft) + 1] = PlannedColumns(A)[x]
  OBVIOUS
<1>3. Listed(n.kind, n.payload) /\ NothingToGroup(draft, n.kind, n.inputs, n.payload)
  BY <1>1
<1>4. A[x].kind = "GroupBy" =>
          /\ n.payload.groups = A[x].payload.groups
          /\ n.inputs[1] = newId[A[x].inputs[1]]
  BY <1>1
<1> HIDE DEF A, done, new, mnew
<1>5. Tidy(new)
  BY <1>1, <1>3, EmitTidy
<1>6. Follows(A, done \cup {x}, mnew, new)
  BY <1>1, <1>2, <1>4, EmitFollows
<1> QED
  BY <1>5, <1>6, TurnKeeps DEF A, done, new, mnew

\* What an erased filter leaves.
LEMMA EraseTurn ==
    ASSUME NEW x, ColumnsTurn(x), EliminateFilterTrue(x)
    PROVE  /\ Visit(x) /\ Erased(AuthoredNodes, x) /\ draft' = draft
           /\ AuthoredNodes[x].inputs[1] \in AuthoredReachable \ unvisited
           /\ newId'[x] = newId[AuthoredNodes[x].inputs[1]]
           /\ \A z \in AuthoredReachable \ unvisited : newId'[z] = newId[z]
<1> DEFINE A == AuthoredNodes
           done == AuthoredReachable \ unvisited
<1>1. /\ x \in 1..Len(A) /\ done \subseteq 1..Len(A)
      /\ \A k \in 1..Len(A[x].inputs) : A[x].inputs[k] \in done
      /\ HasArity(A[x].kind, A[x].inputs)
  BY TurnColumns
<1>2. Erased(A, x)
  BY DEF EliminateFilterTrue, CanEliminateFilterTrue, Erased
<1>3. Visit(x) /\ draft' = draft /\ newId' = [newId EXCEPT ![x] = RemappedInputs(x)[1]]
  BY DEF EliminateFilterTrue
<1>4. Len(A[x].inputs) = 1
  BY <1>1, <1>2 DEF Erased, HasArity, UnaryKind
<1>5. A[x].inputs[1] \in done
  BY <1>1, <1>4
<1>6. RemappedInputs(x)[1] = newId[A[x].inputs[1]]
  BY <1>4 DEF RemappedInputs, Remap
<1>7. newId \in Seq(Nat) /\ Len(newId) = Len(A) /\ x \notin done
  <2>1. Rewriting(A, request.tip, unvisited, newId, draft, origins)
    BY TurnState DEF ColumnsTurn
  <2>2. x \in unvisited
    BY DEF ColumnsTurn
  <2> QED
    BY <2>1, <2>2 DEF Rewriting, DraftMap
<1> HIDE DEF A, done
<1>8. newId'[x] = newId[A[x].inputs[1]] /\ \A z \in done : newId'[z] = newId[z]
  BY <1>1, <1>3, <1>6, <1>7
<1> QED
  BY <1>2, <1>3, <1>5, <1>8 DEF A, done

LEMMA ErasePlans ==
    ASSUME NEW x, ColumnsTurn(x), EliminateFilterTrue(x)
    PROVE  ColumnsInv'
<1> DEFINE A == AuthoredNodes
           done == AuthoredReachable \ unvisited
           mnew == newId'
<1>1. /\ ReadsEarlier(A) /\ x \in 1..Len(A) /\ Tidy(draft) /\ Follows(A, done, newId, draft)
  BY TurnColumns
<1>2. /\ Visit(x) /\ Erased(A, x) /\ draft' = draft /\ A[x].inputs[1] \in done
      /\ mnew[x] = newId[A[x].inputs[1]] /\ \A z \in done : mnew[z] = newId[z]
  BY EraseTurn
<1> HIDE DEF A, done, mnew
<1>3. Follows(A, done \cup {x}, mnew, draft)
  BY <1>1, <1>2, EraseFollows
<1> QED
  BY <1>1, <1>2, <1>3, TurnKeeps DEF A, done, mnew

\* What a copied node is.
LEMMA CopyTurn ==
    ASSUME NEW x, ColumnsTurn(x), CopyNode(x)
    PROVE  LET A == AuthoredNodes
               n == draft'[Len(draft) + 1]
               inputs == RemappedInputs(x)
           IN  /\ Visit(x) /\ ~Erased(A, x) /\ Emit(x, A[x].kind, inputs, A[x].payload)
               /\ Emitting(A, AuthoredReachable \ unvisited, newId, draft, x, draft')
               /\ n.kind = A[x].kind /\ n.inputs = inputs /\ n.payload = A[x].payload
               /\ A[x].kind # "ReadNamedTable" => n.inputs[1] = newId[A[x].inputs[1]]
               /\ A[x].kind = "Join" => n.inputs[2] = newId[A[x].inputs[2]]
               /\ A[x].kind = "Aggregate" =>
                     draft[newId[A[x].inputs[1]]].kind \notin {"GroupBy", "Aggregate"}
<1> DEFINE A == AuthoredNodes
           done == AuthoredReachable \ unvisited
           new == draft'
           n == new[Len(draft) + 1]
           inputs == RemappedInputs(x)
           y == A[x].inputs[1]
<1>1. /\ ReadsEarlier(A) /\ x \in 1..Len(A) /\ HasArity(A[x].kind, A[x].inputs)
  BY TurnColumns
<1>2. ~Erased(A, x)
  BY DEF CopyNode, CanEliminateFilterTrue, Erased
<1>3. Visit(x) /\ Emit(x, A[x].kind, inputs, A[x].payload)
  BY DEF CopyNode
<1>4. /\ Emitting(A, done, newId, draft, x, new)
      /\ n.kind = A[x].kind /\ n.inputs = inputs /\ n.payload = A[x].payload
  BY <1>2, <1>3, TurnEmitting
<1>5. /\ A[x].kind # "ReadNamedTable" => inputs[1] = newId[y]
      /\ A[x].kind = "Join" => inputs[2] = newId[A[x].inputs[2]]
  <2>1. 1 \in 1..1 /\ 1 \in 1..2 /\ 2 \in 1..2
    OBVIOUS
  <2>2. A[x].kind = "Join" => Len(A[x].inputs) = 2
    BY <1>1 DEF HasArity
  <2>3. A[x].kind # "ReadNamedTable" => Len(A[x].inputs) \in {1, 2}
    BY <1>1 DEF HasArity, Kind, ReadsEarlier
  <2>4. inputs = [k \in 1..Len(A[x].inputs) |-> newId[A[x].inputs[k]]]
    BY DEF RemappedInputs, Remap
  <2> HIDE DEF inputs, A
  <2> QED
    BY <2>1, <2>2, <2>3, <2>4 DEF A
<1>6. A[x].kind = "Aggregate" => draft[newId[y]].kind \notin {"GroupBy", "Aggregate"}
  BY <1>5 DEF CopyNode, Adjacent, Parent
<1> HIDE DEF inputs, A
<1> QED
  BY <1>2, <1>3, <1>4, <1>5, <1>6 DEF inputs, A

LEMMA CopyPlans ==
    ASSUME NEW x, ColumnsTurn(x), CopyNode(x)
    PROVE  ColumnsInv'
<1> DEFINE A == AuthoredNodes
           done == AuthoredReachable \ unvisited
           new == draft'
           n == new[Len(draft) + 1]
           inputs == RemappedInputs(x)
           y == A[x].inputs[1]
<1>1. /\ Visit(x) /\ ~Erased(A, x) /\ Emit(x, A[x].kind, inputs, A[x].payload)
      /\ Emitting(A, done, newId, draft, x, new)
      /\ n.kind = A[x].kind /\ n.inputs = inputs /\ n.payload = A[x].payload
      /\ A[x].kind # "ReadNamedTable" => n.inputs[1] = newId[y]
      /\ A[x].kind = "Join" => n.inputs[2] = newId[A[x].inputs[2]]
      /\ A[x].kind = "Aggregate" => draft[newId[y]].kind \notin {"GroupBy", "Aggregate"}
  BY CopyTurn
<1> HIDE DEF A, done, new, inputs
<1>2. /\ PlannedColumns(new)[Len(draft) + 1] = PlannedColumns(A)[x]
      /\ Listed(n.kind, n.payload)
      /\ NothingToGroup(draft, n.kind, n.inputs, n.payload)
  BY <1>1, CopiedColumns
<1>3. Listed(A[x].kind, A[x].payload) /\ NothingToGroup(draft, A[x].kind, inputs, A[x].payload)
  BY <1>1, <1>2
<1>4. A[x].kind = "GroupBy" => inputs[1] = newId[y]
  BY <1>1
<1> QED
  BY <1>1, <1>2, <1>3, <1>4, EmitPlans DEF A, done, new

\* Where x reads a node of a kind that a rule looks for.
LEMMA CollapseReads ==
    ASSUME NEW x, ColumnsTurn(x), AuthoredNodes[x].kind \in UnaryKind \ {"Filter"},
           NEW rule, NEW payload, Collapse(x, rule, payload)
    PROVE  /\ Visit(x) /\ ~Erased(AuthoredNodes, x)
           /\ Emit(x, AuthoredNodes[x].kind, <<Parent(x).inputs[1]>>, payload)
           /\ Parent(x) = draft[newId[AuthoredNodes[x].inputs[1]]]
           /\ AuthoredNodes[x].inputs[1] \in AuthoredReachable \ unvisited
           /\ newId[AuthoredNodes[x].inputs[1]] \in 1..Len(draft)
           /\ IsList(AuthoredNodes[x].payload.windows)
<1> DEFINE A == AuthoredNodes
           y == A[x].inputs[1]
<1>1. /\ HasArity(A[x].kind, A[x].inputs)
      /\ \A k \in 1..Len(A[x].inputs) : A[x].inputs[k] \in AuthoredReachable \ unvisited
      /\ Follows(A, AuthoredReachable \ unvisited, newId, draft)
  BY TurnColumns
<1>2. Len(A[x].inputs) = 1
  BY <1>1 DEF HasArity
<1>3. y \in AuthoredReachable \ unvisited
  BY <1>1, <1>2
<1>4. newId[y] \in 1..Len(draft)
  BY <1>1, <1>3 DEF Follows, Stands
<1>5. Parent(x) = draft[newId[y]]
  BY <1>2 DEF Parent, RemappedInputs, Remap
<1>6. IsList(A[x].payload.windows)
  BY ParentFacts DEF ColumnsTurn
<1> QED
  BY <1>3, <1>4, <1>5, <1>6 DEF Collapse, Erased

\* What a node that replaces its parent is.
LEMMA CollapseTurn ==
    ASSUME NEW x, ColumnsTurn(x), AuthoredNodes[x].kind \in UnaryKind \ {"Filter"},
           NEW rule, NEW payload, Collapse(x, rule, payload)
    PROVE  LET A == AuthoredNodes
               p == newId[A[x].inputs[1]]
               n == draft'[Len(draft) + 1]
               inputs == <<Parent(x).inputs[1]>>
           IN  /\ Visit(x) /\ ~Erased(A, x) /\ Emit(x, A[x].kind, inputs, payload)
               /\ Emitting(A, AuthoredReachable \ unvisited, newId, draft, x, draft')
               /\ n.kind = A[x].kind /\ n.inputs = inputs /\ n.payload = payload
               /\ Parent(x) = draft[p]
               /\ Replaces(A, newId, draft, x, draft', p, n)
<1> DEFINE A == AuthoredNodes
           done == AuthoredReachable \ unvisited
           new == draft'
           n == new[Len(draft) + 1]
           p == newId[A[x].inputs[1]]
           inputs == <<Parent(x).inputs[1]>>
<1>1. /\ Visit(x) /\ ~Erased(A, x) /\ Emit(x, A[x].kind, inputs, payload)
      /\ Parent(x) = draft[p]
  BY CollapseReads
<1>2. /\ Emitting(A, done, newId, draft, x, new)
      /\ n.kind = A[x].kind /\ n.inputs = inputs /\ n.payload = payload
  BY <1>1, TurnEmitting, Zenon
<1>3. inputs[1] = Parent(x).inputs[1]
  OBVIOUS
<1> HIDE DEF inputs
<1>4. n.inputs[1] = draft[p].inputs[1]
  BY <1>1, <1>2, <1>3, Zenon
<1>5. Replaces(A, newId, draft, x, new, p, n)
  BY <1>4 DEF Replaces
<1> QED
  BY <1>1, <1>2, <1>5 DEF inputs

\* Limits, orderings, projections and windows.
LEMMA MergePlans ==
    ASSUME NEW x, ColumnsTurn(x),
           AuthoredNodes[x].kind \in {"Limit", "OrderBy", "Project", "Window"},
           Parent(x).kind = AuthoredNodes[x].kind,
           NEW rule, NEW payload, Collapse(x, rule, payload),
           Listed(AuthoredNodes[x].kind, payload),
           Merged(AuthoredNodes[x].kind, Parent(x).payload, AuthoredNodes[x].payload, payload)
    PROVE  ColumnsInv'
<1> DEFINE A == AuthoredNodes
           done == AuthoredReachable \ unvisited
           new == draft'
           n == new[Len(draft) + 1]
           p == newId[A[x].inputs[1]]
           inputs == <<Parent(x).inputs[1]>>
<1>1. A[x].kind \in UnaryKind \ {"Filter"}
  BY DEF UnaryKind
<1>2. /\ Visit(x) /\ ~Erased(A, x) /\ Emit(x, A[x].kind, inputs, payload)
      /\ Emitting(A, done, newId, draft, x, new)
      /\ n.payload = payload /\ Parent(x) = draft[p]
      /\ Replaces(A, newId, draft, x, new, p, n)
  BY <1>1, CollapseTurn
<1>3. Collapses(A, draft, x, p, n)
  BY <1>2 DEF Collapses
<1>4. NothingToGroup(draft, A[x].kind, inputs, payload)
  BY DEF NothingToGroup
<1> HIDE DEF A, done, new, inputs
<1>5. PlannedColumns(new)[Len(draft) + 1] = PlannedColumns(A)[x]
  BY <1>2, <1>3, CollapsedColumns
<1>6. A[x].kind # "GroupBy" /\ Listed(A[x].kind, payload)
  BY DEF A
<1> QED
  BY <1>2, <1>4, <1>5, <1>6, EmitPlans, Zenon DEF A, new, inputs

\* The grouping a fused aggregate takes over.
LEMMA FusePlans ==
    ASSUME NEW x, ColumnsTurn(x), AuthoredNodes[x].kind = "Aggregate",
           Parent(x).kind = "GroupBy", NEW rule, NEW payload, Collapse(x, rule, payload),
           payload.groups = Parent(x).payload.groups,
           payload.measures = AuthoredNodes[x].payload.measures
    PROVE  ColumnsInv'
<1> DEFINE A == AuthoredNodes
           live == AuthoredReachable
           done == AuthoredReachable \ unvisited
           new == draft'
           n == new[Len(draft) + 1]
           p == newId[A[x].inputs[1]]
           inputs == <<Parent(x).inputs[1]>>
<1>1. A[x].kind \in UnaryKind \ {"Filter"}
  BY DEF UnaryKind
<1>2. /\ Visit(x) /\ ~Erased(A, x) /\ Emit(x, A[x].kind, inputs, payload)
      /\ Emitting(A, done, newId, draft, x, new)
      /\ n.kind = A[x].kind /\ n.inputs = inputs /\ n.payload = payload
      /\ Parent(x) = draft[p] /\ Replaces(A, newId, draft, x, new, p, n)
  BY <1>1, CollapseTurn
<1>3. x \in live /\ PlainOver(A, live)
  BY TurnColumns
<1>4. Fuses(A, draft, x, p, n)
  BY <1>2 DEF Fuses
<1> HIDE DEF A, live, done, new, inputs
<1>5. /\ PlannedColumns(new)[Len(draft) + 1] = PlannedColumns(A)[x]
      /\ Listed(n.kind, n.payload)
      /\ NothingToGroup(draft, n.kind, n.inputs, n.payload)
  BY <1>2, <1>3, <1>4, FusedColumns
<1>6. /\ Listed(A[x].kind, payload) /\ NothingToGroup(draft, A[x].kind, inputs, payload)
      /\ A[x].kind # "GroupBy"
  BY <1>2, <1>5 DEF A
<1> QED
  BY <1>2, <1>5, <1>6, EmitPlans, Zenon DEF A, new, inputs

\* No aggregate collapses onto another.
LEMMA AggregateStays ==
    ASSUME NEW x, ColumnsTurn(x), CollapseAggregate(x)
    PROVE  FALSE
<1> DEFINE A == AuthoredNodes
           done == AuthoredReachable \ unvisited
           y == A[x].inputs[1]
<1>1. A[x].kind = "Aggregate" /\ Parent(x).kind = "Aggregate"
  BY DEF CollapseAggregate, Adjacent
<1>2. /\ ReadsEarlier(A) /\ Follows(A, done, newId, draft) /\ done \subseteq 1..Len(A)
      /\ x \in AuthoredReachable /\ PlainOver(A, AuthoredReachable)
  BY TurnColumns
<1>3. y \in done /\ Parent(x) = draft[newId[y]]
  <2>1. A[x].kind \in UnaryKind \ {"Filter"}
    BY <1>1 DEF UnaryKind
  <2>2. PICK rule, payload : Collapse(x, rule, payload)
    BY DEF CollapseAggregate
  <2> QED
    BY <2>1, <2>2, CollapseReads
<1> HIDE DEF A, done
<1>4. A[Kept(A)[y]].kind = "Aggregate"
  BY <1>1, <1>2, <1>3 DEF Follows, Stands
<1>5. A[y].kind = "GroupBy"
  BY <1>1, <1>2, <1>4, Zenon DEF PlainOver, Bare, A
<1>6. Kept(A)[y] = y
  <2>1. ~Erased(A, y) /\ y \in 1..Len(A)
    BY <1>2, <1>3, <1>5 DEF Erased
  <2> QED
    BY <1>2, <2>1, KeptOf
<1> QED
  BY <1>4, <1>5, <1>6

\* The payload of a merged node.
LEMMA MadePayload ==
    ASSUME NEW v
    PROVE  /\ [NoPayload EXCEPT !.limit = v].groups = <<>>
           /\ [NoPayload EXCEPT !.limit = v].limit = v
           /\ [NoPayload EXCEPT !.sorts = v].groups = <<>>
           /\ [NoPayload EXCEPT !.sorts = v].sorts = v
           /\ [NoPayload EXCEPT !.assignments = v].groups = <<>>
           /\ [NoPayload EXCEPT !.assignments = v].assignments = v
           /\ [NoPayload EXCEPT !.windows = v].groups = <<>>
           /\ [NoPayload EXCEPT !.windows = v].windows = v
BY MeaningAssumption, RewriteAssumption

LEMMA CollapsesPlan ==
    ASSUME NEW x, ColumnsTurn(x),
           \/ CollapseLimit(x) \/ CollapseProject(x) \/ CollapseOrderBy(x)
           \/ CollapseWindow(x) \/ FuseGroupBy(x)
    PROVE  ColumnsInv'
<1> DEFINE parent == Parent(x).payload
           own == AuthoredNodes[x].payload
<1>1. IsList(<<>>)
  BY DEF IsList
<1>2. ASSUME NEW kind \in {"Limit", "OrderBy"}, NEW rule, NEW payload,
             Adjacent(x, kind, kind), Collapse(x, rule, payload), payload.groups = <<>>
      PROVE  ColumnsInv'
  <2>1. Listed(kind, payload) /\ Merged(kind, parent, own, payload)
    BY <1>1, <1>2 DEF Listed, Merged
  <2> QED
    BY <1>2, <2>1, MergePlans DEF Adjacent
<1>3. ASSUME NEW kind \in {"Project", "Window"}, Adjacent(x, kind, kind),
             NEW rule, NEW payload, Collapse(x, rule, payload)
      PROVE  Listed(kind, own) /\ Listed(kind, parent)
  <2>1. AuthoredNodes[x].kind \in UnaryKind \ {"Filter"} /\ AuthoredNodes[x].kind = kind
    BY <1>3 DEF Adjacent, UnaryKind
  <2>2. /\ Parent(x) = draft[newId[AuthoredNodes[x].inputs[1]]]
        /\ newId[AuthoredNodes[x].inputs[1]] \in 1..Len(draft)
    BY <1>3, <2>1, CollapseReads
  <2>3. AllListed(draft) /\ AllListed(AuthoredNodes) /\ x \in 1..Len(AuthoredNodes)
    BY TurnColumns DEF Tidy, AuthoredTidy
  <2> QED
    BY <1>3, <2>1, <2>2, <2>3 DEF AllListed, Adjacent
<1>4. CASE CollapseLimit(x)
  <2> DEFINE v == IF Parent(x).payload.limit < AuthoredNodes[x].payload.limit
                  THEN Parent(x).payload.limit ELSE AuthoredNodes[x].payload.limit
             p == [NoPayload EXCEPT !.limit = v]
  <2>1. Adjacent(x, "Limit", "Limit") /\ Collapse(x, "collapse_adjacent_limit", p)
    BY <1>4 DEF CollapseLimit
  <2>2. p.groups = <<>>
    BY MadePayload
  <2> HIDE DEF p
  <2> QED
    BY <1>2, <2>1, <2>2
<1>5. CASE CollapseOrderBy(x)
  <2> DEFINE p == [NoPayload EXCEPT !.sorts = AuthoredNodes[x].payload.sorts]
  <2>1. Adjacent(x, "OrderBy", "OrderBy") /\ Collapse(x, "collapse_adjacent_order_by", p)
    BY <1>5 DEF CollapseOrderBy
  <2>2. p.groups = <<>>
    BY MadePayload
  <2> HIDE DEF p
  <2> QED
    BY <1>2, <2>1, <2>2
<1>6. CASE CollapseProject(x)
  <2> DEFINE v == Parent(x).payload.assignments \o AuthoredNodes[x].payload.assignments
             p == [NoPayload EXCEPT !.assignments = v]
  <2>1. Adjacent(x, "Project", "Project") /\ Collapse(x, "collapse_adjacent_project", p)
    BY <1>6, Zenon DEF CollapseProject
  <2>2. p.groups = <<>> /\ p.assignments = v
    BY MadePayload, Zenon
  <2> HIDE DEF p
  <2>3. IsList(parent.assignments) /\ IsList(own.assignments)
    <3>1. Listed("Project", own) /\ Listed("Project", parent)
      BY <1>3, <2>1
    <3> QED
      BY <3>1 DEF Listed
  <2>4. IsList(v)
    BY <2>3, ConcatIsList
  <2>5. Merged("Project", parent, own, p)
    BY <2>2, Zenon DEF Merged
  <2> HIDE DEF v
  <2>6. Listed("Project", p)
    BY <1>1, <2>2, <2>4 DEF Listed
  <2> QED
    BY <2>1, <2>5, <2>6, MergePlans DEF Adjacent
<1>7. CASE CollapseWindow(x)
  <2> DEFINE v == Parent(x).payload.windows \o AuthoredNodes[x].payload.windows
             p == [NoPayload EXCEPT !.windows = v]
  <2>1. Adjacent(x, "Window", "Window") /\ Collapse(x, "collapse_adjacent_window", p)
    BY <1>7, Zenon DEF CollapseWindow, CanCollapseWindow
  <2>2. p.groups = <<>> /\ p.windows = v
    BY MadePayload, Zenon
  <2> HIDE DEF p
  <2>3. IsList(parent.windows) /\ IsList(own.windows)
    <3>1. Listed("Window", own) /\ Listed("Window", parent)
      BY <1>3, <2>1
    <3> QED
      BY <3>1 DEF Listed
  <2>4. IsList(v)
    BY <2>3, ConcatIsList
  <2>5. Merged("Window", parent, own, p)
    BY <2>2, Zenon DEF Merged
  <2> HIDE DEF v
  <2>6. Listed("Window", p)
    BY <1>1, <2>2, <2>4 DEF Listed
  <2> QED
    BY <2>1, <2>5, <2>6, MergePlans DEF Adjacent
<1>8. CASE FuseGroupBy(x)
  <2> DEFINE p == [NoPayload EXCEPT !.groups = Parent(x).payload.groups,
                                    !.measures = AuthoredNodes[x].payload.measures]
  <2>1. Adjacent(x, "Aggregate", "GroupBy") /\ Collapse(x, "fuse_group_by_aggregate", p)
    BY <1>8 DEF FuseGroupBy
  <2>2. p.groups = Parent(x).payload.groups /\ p.measures = AuthoredNodes[x].payload.measures
    BY MeaningAssumption
  <2> HIDE DEF p
  <2> QED
    BY <2>1, <2>2, FusePlans DEF Adjacent
<1> QED
  BY <1>4, <1>5, <1>6, <1>7, <1>8

LEMMA RewriteNodePlans ==
    ASSUME NEW x, ColumnsTurn(x), RewriteNode(x)
    PROVE  ColumnsInv'
BY ErasePlans, CopyPlans, AggregateStays, CollapsesPlan DEF RewriteNode

\* What is compacted is a copy of the nodes that the root reaches.
LEMMA CompactedMirrors ==
    ASSUME NEW ns, NodeList(ns), WellFormed(ns), Arity(ns), NEW root \in 1..Len(ns),
           NEW os, NEW m, NEW vn, NEW vo, KeptNodes(ns, os, Reachable(ns, root), m, vn, vo)
    PROVE  /\ ReadsEarlier(ns) /\ ReadsEarlier(vn) /\ root \in Reachable(ns, root)
           /\ Mirrors(ns, Reachable(ns, root), m, vn)
           /\ \A i \in 1..Len(vn) : \E x \in Reachable(ns, root) : m[x] = i
<1> DEFINE live == Reachable(ns, root)
<1>1. root \in live /\ live \subseteq 1..Len(ns) /\ InputClosed(ns, live)
  BY WalkClosed
<1>2. ReadsEarlier(ns)
  BY SoundReadsEarlier
<1> HIDE DEF live
<1>3. ASSUME NEW x \in live
      PROVE  /\ m[x] \in 1..Len(vn) /\ x \in 1..Len(ns)
             /\ vn[m[x]].kind = ns[x].kind /\ vn[m[x]].payload = ns[x].payload
             /\ vn[m[x]].inputs = Remap(ns[x].inputs, m)
             /\ HasArity(ns[x].kind, ns[x].inputs) /\ ns[x].kind \in Kind
             /\ ns[x].inputs \in Seq(Nat)
  BY <1>1, ListFacts DEF KeptNodes, live, Arity
<1>4. ASSUME NEW x \in live
      PROVE  HasArity(vn[m[x]].kind, vn[m[x]].inputs)
  <2> DEFINE read == vn[m[x]].inputs
             authored == ns[x].inputs
  <2>1. /\ Len(authored) \in Nat /\ read = [k \in 1..Len(authored) |-> m[authored[k]]]
    BY <1>3 DEF Remap
  <2>2. ASSUME NEW k \in 1..Len(authored)
        PROVE  m[authored[k]] \in Nat
    <3>1. authored[k] \in live
      BY <1>1 DEF InputClosed, Inputs
    <3> QED
      BY <1>3, <3>1
  <2> HIDE DEF read, authored
  <2>3. Len(read) = Len(authored)
    BY <2>1, <2>2
  <2>4. Len(vn[m[x]].inputs) = Len(ns[x].inputs)
    BY <2>3 DEF read, authored
  <2> QED
    BY <1>3, <2>4 DEF HasArity
<1>5. \A i \in 1..Len(vn) : \E x \in live : m[x] = i
  BY DEF KeptNodes, live
<1>6. ReadsEarlier(vn)
  <2>1. NodeList(vn) /\ WellFormed(vn)
    BY DEF KeptNodes
  <2>2. Arity(vn)
    BY <1>4, <1>5 DEF Arity
  <2> QED
    BY <2>1, <2>2, SoundReadsEarlier
<1>7. ASSUME NEW x \in live
      PROVE  /\ ns[x].kind # "ReadNamedTable" =>
                   ns[x].inputs[1] \in live /\ vn[m[x]].inputs[1] = m[ns[x].inputs[1]]
             /\ ns[x].kind = "Join" =>
                   ns[x].inputs[2] \in live /\ vn[m[x]].inputs[2] = m[ns[x].inputs[2]]
  <2>1. 1 \in 1..1 /\ 1 \in 1..2 /\ 2 \in 1..2
    OBVIOUS
  <2>2. ns[x].kind = "Join" => Len(ns[x].inputs) = 2
    BY <1>3 DEF HasArity
  <2>3. ns[x].kind # "ReadNamedTable" => Len(ns[x].inputs) \in {1, 2}
    BY <1>3 DEF HasArity, Kind
  <2>4. ASSUME NEW k \in 1..Len(ns[x].inputs)
        PROVE  ns[x].inputs[k] \in live /\ vn[m[x]].inputs[k] = m[ns[x].inputs[k]]
    BY <1>1, <1>3 DEF InputClosed, Inputs, Remap
  <2> QED
    BY <2>1, <2>2, <2>3, <2>4
<1>8. Mirrors(ns, live, m, vn)
  BY <1>1, <1>3, <1>7 DEF Mirrors
<1> QED
  BY <1>1, <1>2, <1>5, <1>6, <1>8 DEF live

\* What was compacted plans what the draft's root planned.
LEMMA CompactedColumns ==
    ASSUME NEW ns, NodeList(ns), WellFormed(ns), Arity(ns), Tidy(ns), NEW root \in 1..Len(ns),
           NEW os, NEW m, NEW vn, NEW vo, KeptNodes(ns, os, Reachable(ns, root), m, vn, vo)
    PROVE  /\ ReadsEarlier(vn) /\ Tidy(vn) /\ m[root] \in 1..Len(vn)
           /\ PlannedColumns(vn)[m[root]] = PlannedColumns(ns)[root]
<1> DEFINE live == Reachable(ns, root)
<1>1. /\ ReadsEarlier(ns) /\ ReadsEarlier(vn) /\ root \in live
      /\ Mirrors(ns, live, m, vn)
      /\ \A i \in 1..Len(vn) : \E x \in live : m[x] = i
  BY CompactedMirrors
<1> HIDE DEF live
<1>2. ASSUME NEW i \in 1..Len(vn)
      PROVE  /\ Listed(vn[i].kind, vn[i].payload)
             /\ NothingToGroup(vn, vn[i].kind, vn[i].inputs, vn[i].payload)
  <2>1. PICK x \in live : m[x] = i
    BY <1>1
  <2>2. /\ x \in 1..Len(ns) /\ vn[i].kind = ns[x].kind /\ vn[i].payload = ns[x].payload
        /\ ns[x].kind # "ReadNamedTable" =>
              ns[x].inputs[1] \in live /\ vn[i].inputs[1] = m[ns[x].inputs[1]]
    BY <1>1, <2>1 DEF Mirrors
  <2>3. Listed(ns[x].kind, ns[x].payload)
    BY <2>2 DEF Tidy, AllListed
  <2>4. NothingToGroup(ns, ns[x].kind, ns[x].inputs, ns[x].payload)
    BY <2>2 DEF Tidy
  <2>5. ns[x].kind = "Aggregate" => vn[vn[i].inputs[1]].kind = ns[ns[x].inputs[1]].kind
    BY <1>1, <2>2 DEF Mirrors
  <2> QED
    BY <2>2, <2>3, <2>4, <2>5 DEF NothingToGroup
<1>3. m[root] \in 1..Len(vn)
  BY <1>1 DEF Mirrors
<1>4. PlannedColumns(vn)[m[root]] = PlannedColumns(ns)[root]
  BY <1>1, MirroredColumns
<1> QED
  BY <1>1, <1>2, <1>3, <1>4 DEF Tidy, AllListed

LEMMA BeginDerivePlans ==
    ASSUME ColumnsInv, RewriteInv, NEW c \in cursors, BeginDerive(c), UNCHANGED vars
    PROVE  ColumnsInv'
<1> DEFINE A == nodes[c.store]
           live == Reachable(A, c.tip)
<1>1. /\ phase' = "rewriting" /\ unvisited' = live /\ draft' = <<>>
  BY DEF BeginDerive, RewriteInv, PassOK
<1>2. AuthoredReachable' = live /\ nodes' = nodes
  BY DEF BeginDerive, AuthoredNodes, AuthoredReachable, vars, storeVars
<1>3. Tidy(<<>>)
  BY DEF Tidy, AllListed
<1>4. StorePayloads'
  BY <1>2 DEF ColumnsInv, StorePayloads
<1>5. AuthoredReachable' \ unvisited' = {}
  BY <1>1, <1>2
<1>6. Follows(AuthoredNodes', AuthoredReachable' \ unvisited', newId', draft')
  BY <1>5 DEF Follows
<1> QED
  BY <1>1, <1>3, <1>4, <1>6 DEF ColumnsInv

LEMMA BeginCompactionPlans ==
    ASSUME ColumnsInv, RewriteInv, BeginCompaction, UNCHANGED vars
    PROVE  ColumnsInv'
<1> DEFINE A == AuthoredNodes
           tip == request.tip
<1>1. /\ phase = "rewriting" /\ unvisited = {} /\ phase' = "compacting"
      /\ UNCHANGED <<request, nodes, draft>>
  BY DEF BeginCompaction, vars, storeVars
<1>2. /\ AuthoredNodes' = A /\ request'.tip = tip /\ StorePayloads'
      /\ GroupingPlain' <=> GroupingPlain
  BY <1>1, PlainUnchanged DEF ColumnsInv, StorePayloads
<1>3. view'.root = newId[tip]
  BY <1>1 DEF BeginCompaction, RewriteInv, PassOK, EmptyView
<1>4. request \in cursors /\ IInv /\ StoreArity
  BY <1>1 DEF RewriteInv, PassOK
<1>5. tip \in AuthoredReachable \ unvisited
  BY <1>1, <1>4, RequestAuthored, WalkClosed DEF Authored, AuthoredReachable
<1>6. GroupingPlain => Tidy(draft) /\ PlannedColumns(draft)[newId[tip]] = PlannedColumns(A)[tip]
  BY <1>1, <1>5 DEF ColumnsInv, Follows, Stands
<1>7. GroupingPlain' => /\ Tidy(draft')
                        /\ PlannedColumns(draft')[view'.root]
                              = PlannedColumns(AuthoredNodes')[request'.tip]
  BY <1>1, <1>2, <1>3, <1>6
<1> QED
  BY <1>1, <1>2, <1>7 DEF ColumnsInv

LEMMA CompactNodePlans ==
    ASSUME ColumnsInv, RewriteInv, NEW x \in unvisited, CompactNode(x), UNCHANGED vars
    PROVE  ColumnsInv'
<1>1. /\ phase = "compacting" /\ phase' = "compacting"
      /\ UNCHANGED <<request, nodes, draft>>
  BY DEF CompactNode, IsTurnOf, Visit, vars, storeVars
<1>2. /\ AuthoredNodes' = AuthoredNodes /\ request'.tip = request.tip /\ StorePayloads'
      /\ GroupingPlain' <=> GroupingPlain
  BY <1>1, PlainUnchanged DEF ColumnsInv, StorePayloads
<1>3. view'.root = view.root
  BY DEF CompactNode, RewriteInv, PassOK
<1>4. GroupingPlain' => /\ Tidy(draft')
                        /\ PlannedColumns(draft')[view'.root]
                              = PlannedColumns(AuthoredNodes')[request'.tip]
  BY <1>1, <1>2, <1>3 DEF ColumnsInv
<1> QED
  BY <1>1, <1>2, <1>4 DEF ColumnsInv

LEMMA FinishCompactionPlans ==
    ASSUME ColumnsInv, RewriteInv, FinishCompaction, UNCHANGED vars
    PROVE  ColumnsInv'
<1> DEFINE A == AuthoredNodes
           tip == request.tip
           vn == view.nodes
           root == view.root
           live == Reachable(draft, root)
<1>1. /\ phase = "compacting" /\ unvisited = {} /\ phase' = "derived"
      /\ UNCHANGED <<request, nodes, draft>>
  BY DEF FinishCompaction, vars, storeVars
<1>2. /\ AuthoredNodes' = A /\ request'.tip = tip /\ StorePayloads'
      /\ GroupingPlain' <=> GroupingPlain
  BY <1>1, PlainUnchanged DEF ColumnsInv, StorePayloads
<1>3. view'.root = newId[root] /\ view'.nodes = vn
  BY DEF FinishCompaction, RewriteInv, PassOK
<1>4. Compacting(A, tip, {}, newId, draft, origins, view)
  BY <1>1 DEF RewriteInv, PassOK
<1>5. live \ {} = live
  OBVIOUS
<1>6. /\ NodeList(draft) /\ WellFormed(draft) /\ Arity(draft) /\ root \in 1..Len(draft)
      /\ KeptNodes(draft, origins, live, newId, vn, view.origins)
  BY <1>4, <1>5 DEF Compacting, Emitted
<1>7. ASSUME GroupingPlain
      PROVE  /\ ReadsEarlier(vn) /\ Tidy(vn) /\ newId[root] \in 1..Len(vn)
             /\ PlannedColumns(vn)[newId[root]] = PlannedColumns(A)[tip]
  <2>1. Tidy(draft) /\ PlannedColumns(draft)[root] = PlannedColumns(A)[tip]
    BY <1>1, <1>7 DEF ColumnsInv
  <2> HIDE DEF A, tip, vn, root
  <2>2. /\ ReadsEarlier(vn) /\ Tidy(vn) /\ newId[root] \in 1..Len(vn)
        /\ PlannedColumns(vn)[newId[root]] = PlannedColumns(draft)[root]
    BY <1>6, <2>1, CompactedColumns
  <2> QED
    BY <2>1, <2>2
<1>8. GroupingPlain' =>
          /\ ReadsEarlier(view'.nodes) /\ Tidy(view'.nodes)
          /\ view'.root \in 1..Len(view'.nodes)
          /\ PlannedColumns(view'.nodes)[view'.root] = PlannedColumns(AuthoredNodes')[request'.tip]
  BY <1>2, <1>3, <1>7
<1> QED
  BY <1>1, <1>2, <1>8 DEF ColumnsInv

LEMMA PassStepPlans ==
    ASSUME PassLedger, RewriteInv, RewriteInv', ColumnsInv, PassStep, UNCHANGED vars
    PROVE  ColumnsInv'
<1>1. ASSUME NEW x \in unvisited, RewriteNode(x)
      PROVE  ColumnsInv'
  <2>1. IsTurnOf(x, "rewriting") /\ Visit(x)
    BY <1>1 DEF RewriteNode, EliminateFilterTrue, CollapseLimit, CollapseProject,
       CollapseAggregate, FuseGroupBy, CollapseOrderBy, CollapseWindow, CopyNode, Collapse
  <2>2. CASE GroupingPlain
    BY <1>1, <2>1, <2>2, RewriteNodePlans DEF ColumnsTurn
  <2>3. CASE ~GroupingPlain
    <3>1. phase' = "rewriting" /\ UNCHANGED <<request, nodes>>
      BY <2>1 DEF IsTurnOf, Visit, vars, storeVars
    <3>2. ~GroupingPlain' /\ StorePayloads'
      BY <2>3, <3>1, PlainUnchanged DEF ColumnsInv, StorePayloads
    <3> QED
      BY <3>1, <3>2 DEF ColumnsInv
  <2> QED
    BY <2>2, <2>3
<1>2. CASE ReturnView
  BY <1>2 DEF ReturnView, ColumnsInv, StorePayloads, vars, storeVars
<1> QED
  BY <1>1, <1>2, BeginCompactionPlans, CompactNodePlans, FinishCompactionPlans DEF PassStep

LEMMA ColumnsInductive ==
    ColumnsInv /\ PassLedger /\ RewriteInv /\ RewriteInv' /\ [RewriteNext]_allVars => ColumnsInv'
<1> SUFFICES ASSUME ColumnsInv, PassLedger, RewriteInv, RewriteInv', [RewriteNext]_allVars
             PROVE  ColumnsInv'
  OBVIOUS
<1>1. CASE phase = "resting" /\ Next /\ UNCHANGED rewriteVars
  <2>1. phase' = "resting"
    BY <1>1 DEF rewriteVars
  <2>2. StorePayloads'
    BY <1>1, NextPayloads DEF ColumnsInv, RewriteInv
  <2> QED
    BY <2>1, <2>2 DEF ColumnsInv
<1>2. CASE (\E c \in cursors : BeginDerive(c)) /\ UNCHANGED vars
  BY <1>2, BeginDerivePlans
<1>3. CASE PassStep /\ UNCHANGED vars
  BY <1>3, PassStepPlans
<1>4. CASE UNCHANGED allVars
  <2>1. UNCHANGED <<nodes, phase, request, unvisited, newId, draft, view>>
    BY <1>4 DEF allVars, rewriteVars, vars, storeVars
  <2>2. /\ AuthoredNodes' = AuthoredNodes /\ AuthoredReachable' = AuthoredReachable
        /\ GroupingPlain' <=> GroupingPlain
    BY <2>1, PlainUnchanged
  <2> QED
    BY <2>1, <2>2 DEF ColumnsInv, StorePayloads
<1> QED
  BY <1>1, <1>2, <1>3, <1>4 DEF RewriteNext

\* Inspection and lowering agree on the columns: those planned from the authored
\* nodes are those planned from the view, and the relation the view lowers to has
\* as many, where aggregates are grouped as GroupingPlain says
\* (output_columns.incn, lower.incn, rewrite.incn).
THEOREM ColumnsAgreeAlways == RewriteSpec => []ColumnsAgree
<1>1. RewriteInit => PassLedger /\ ColumnsInv
  BY DEF RewriteInit, Init, PassLedger, ColumnsInv, StorePayloads
<1>2. ColumnsInv => ColumnsAgree
  <2> SUFFICES ASSUME ColumnsInv, phase = "derived", GroupingPlain
               PROVE  /\ PlannedColumns(view.nodes)[view.root]
                            = PlannedColumns(AuthoredNodes)[request.tip]
                      /\ Meaning(view.nodes, view.root).ok =>
                            Meaning(view.nodes, view.root).width
                               = Len(PlannedColumns(view.nodes)[view.root])
    BY DEF ColumnsAgree
  <2>1. /\ ReadsEarlier(view.nodes) /\ Tidy(view.nodes)
        /\ view.root \in 1..Len(view.nodes)
        /\ PlannedColumns(view.nodes)[view.root] = PlannedColumns(AuthoredNodes)[request.tip]
    BY DEF ColumnsInv
  <2>2. Wide(Lowered(view.nodes)[view.root], Len(PlannedColumns(view.nodes)[view.root]))
    BY <2>1, LoweredIsWide
  <2> QED
    BY <2>1, <2>2 DEF Wide, Meaning
<1> QED
  BY <1>1, <1>2, LedgerInductive, RewriteInductive, ColumnsInductive, PTL DEF RewriteSpec

-----------------------------------------------------------------------------
(* What collapsing, fusing and copying a node makes the draft mean.        *)

\* No window function reads the column of a window it directly follows.
IndependentOver(A, live) ==
    \A i \in live :
        A[i].kind = "Window" =>
            \A k \in 1..Len(A[i].payload.windows) :
                A[i].payload.windows[k].arg.name
                    \notin WindowNames(A)[Kept(A)[A[i].inputs[1]]]

\* The relations and columns on both sides of a collapse.
Chain(A, ns, x, new, p, q, y) ==
    /\ IsRelation(Lowered(ns)[q]) /\ IsList(PlannedColumns(ns)[q])
    /\ HasFields(Lowered(ns)[p]) /\ HasFields(Lowered(A)[y])
    /\ Refines(Lowered(ns)[p], Lowered(A)[y])
    /\ PlannedColumns(ns)[p] = PlannedColumns(A)[y]
    /\ PlannedAs(ns, p, PlannedColumns(ns)[q])
    /\ LoweredAs(new, Len(ns) + 1, Lowered(ns)[q], PlannedColumns(ns)[q])
    /\ LoweredAs(ns, p, Lowered(ns)[q], PlannedColumns(ns)[q])
    /\ LoweredAs(A, x, Lowered(A)[y], PlannedColumns(A)[y])
    /\ ns[p].kind = A[x].kind /\ new[Len(ns) + 1].kind = A[x].kind
    /\ Lowerable(A[x].kind, ns[p].payload) /\ Lowerable(A[x].kind, A[x].payload)
    /\ MergedRows(A[x].kind, ns[p].payload, A[x].payload, new[Len(ns) + 1].payload)

\* A node that replaces its parent reads what the parent read.
LEMMA CollapseChains ==
    ASSUME NEW A, NEW done, NEW m, NEW ns, NEW x, NEW new,
           EmittingMeaning(A, done, m, ns, x, new),
           NEW p, NEW n, Replaces(A, m, ns, x, new, p, n), Collapses(A, ns, x, p, n),
           MergedRows(A[x].kind, ns[p].payload, A[x].payload, n.payload),
           NEW q, q = ns[p].inputs[1], NEW y, y = A[x].inputs[1]
    PROVE  /\ Chain(A, ns, x, new, p, q, y)
           /\ y \in done /\ p = m[y]
<1>1. /\ Emitting(A, done, m, ns, x, new) /\ Tidy(new)
      /\ AllLowerable(A) /\ AllLowerable(ns) /\ Means(A, done, m, ns)
      /\ ReadsEarlier(A) /\ ReadsEarlier(ns) /\ AllListed(A) /\ AllListed(ns) /\ Tidy(ns)
      /\ x \in 1..Len(A) /\ done \subseteq 1..Len(A) /\ n.kind = A[x].kind
  BY DEF EmittingMeaning, Emitting, AuthoredTidy, Tidy, Replaces
<1>2. A[x].kind \in {"Limit", "OrderBy", "Project", "Window"} /\ ns[p].kind = A[x].kind
  BY DEF Collapses
<1>3. y \in done /\ p = m[y] /\ n = new[Len(ns) + 1] /\ n.inputs[1] = q
  BY <1>1, <1>2 DEF Emitting, Replaces
<1>4. p \in 1..Len(ns) /\ PlannedColumns(ns)[p] = PlannedColumns(A)[y]
  BY <1>1, <1>3, Zenon DEF Emitting, Follows, Stands
<1>5. q \in 1..(p - 1) /\ q \in 1..Len(ns)
  <2>1. Len(ns) \in Nat /\ ns[p].inputs[1] \in 1..(p - 1)
    BY <1>1, <1>2, <1>4 DEF ReadsEarlier
  <2> QED
    BY <1>4, <2>1, EarlierInList, Zenon
<1>6. y \in 1..Len(A)
  BY <1>1, <1>3
<1>7. /\ IsRelation(Lowered(ns)[q]) /\ IsList(PlannedColumns(ns)[q])
      /\ IsRelation(Lowered(ns)[p]) /\ IsRelation(Lowered(A)[y])
  BY <1>1, <1>4, <1>5, <1>6, LoweredTyped, ColumnsAreLists, Zenon
<1>8. HasFields(Lowered(ns)[p]) /\ HasFields(Lowered(A)[y])
  BY <1>7 DEF IsRelation
<1>9. Refines(Lowered(ns)[p], Lowered(A)[y])
  BY <1>1, <1>3, Zenon DEF Means
<1>10. PlannedAs(ns, p, PlannedColumns(ns)[q])
  BY <1>1, <1>4, ColumnsOf, Zenon
<1>11. LoweredAs(new, Len(ns) + 1, Lowered(ns)[q], PlannedColumns(ns)[q])
  BY <1>1, <1>3, <1>5, EmittedLowering, Zenon
<1>12. LoweredAs(ns, p, Lowered(ns)[q], PlannedColumns(ns)[q])
  BY <1>1, <1>4, RelationOf, Zenon
<1>13. LoweredAs(A, x, Lowered(A)[y], PlannedColumns(A)[y])
  <2>1. ~TakesGroups(A, x)
    BY <1>2 DEF TakesGroups
  <2> QED
    BY <1>1, <2>1, OwnRelation, Zenon
<1>14. Lowerable(A[x].kind, ns[p].payload) /\ Lowerable(A[x].kind, A[x].payload)
  BY <1>1, <1>2, <1>4, Zenon DEF AllLowerable
<1> QED
  BY <1>1, <1>2, <1>3, <1>4, <1>7, <1>8, <1>9, <1>10, <1>11, <1>12, <1>13, <1>14, Zenon DEF Chain

\* The smaller of two limits.
LEMMA LimitCollapsed ==
    ASSUME NEW A, NEW ns, NEW x, NEW new, NEW p, NEW q, NEW y, Chain(A, ns, x, new, p, q, y),
           A[x].kind = "Limit"
    PROVE  Refines(Lowered(new)[Len(ns) + 1], Lowered(A)[x])
<1> DEFINE a == ns[p].payload.limit
           b == A[x].payload.limit
           r == Lowered(ns)[q]
<1>1. a \in Nat /\ b \in Nat
  BY Zenon DEF Chain, Lowerable
<1>2. Lowered(new)[Len(ns) + 1] = FetchRel(r, IF a < b THEN a ELSE b)
  BY Zenon DEF Chain, LoweredAs, MergedRows
<1>3. Lowered(ns)[p] = FetchRel(r, a) /\ Lowered(A)[x] = FetchRel(Lowered(A)[y], b)
  BY Zenon DEF Chain, LoweredAs
<1>4. /\ IsRelation(r) /\ HasFields(Lowered(ns)[p]) /\ HasFields(Lowered(A)[y])
      /\ Refines(Lowered(ns)[p], Lowered(A)[y])
  BY Zenon DEF Chain
<1> HIDE DEF a, b, r
<1>5. Refines(FetchRel(r, IF a < b THEN a ELSE b), FetchRel(FetchRel(r, a), b))
  BY <1>1, <1>4, FetchMerged, Zenon
<1>6. Refines(FetchRel(Lowered(ns)[p], b), FetchRel(Lowered(A)[y], b))
  BY <1>4, FetchRefines, Zenon
<1>7. Refines(FetchRel(FetchRel(r, a), b), Lowered(A)[x])
  BY <1>3, <1>6
<1> QED
  BY <1>2, <1>5, <1>7, RefinesTransitively

\* The later of two orderings.
LEMMA SortCollapsed ==
    ASSUME NEW A, NEW ns, NEW x, NEW new, NEW p, NEW q, NEW y, Chain(A, ns, x, new, p, q, y),
           A[x].kind = "OrderBy"
    PROVE  Refines(Lowered(new)[Len(ns) + 1], Lowered(A)[x])
<1> DEFINE a == ns[p].payload.sorts
           b == A[x].payload.sorts
           r == Lowered(ns)[q]
           cols == PlannedColumns(ns)[q]
           wide == PlannedColumns(A)[y]
<1>1. AllNumeric(a)
  BY Zenon DEF Chain, Lowerable
<1>2. Lowered(new)[Len(ns) + 1] = SortRel(r, cols, b)
  BY Zenon DEF Chain, LoweredAs, MergedRows
<1>3. Lowered(ns)[p] = SortRel(r, cols, a) /\ Lowered(A)[x] = SortRel(Lowered(A)[y], wide, b)
  BY Zenon DEF Chain, LoweredAs
<1>4. wide = cols
  BY Zenon DEF Chain, PlannedAs
<1>5. /\ IsRelation(r) /\ IsList(cols) /\ HasFields(Lowered(ns)[p]) /\ HasFields(Lowered(A)[y])
      /\ Refines(Lowered(ns)[p], Lowered(A)[y])
  BY Zenon DEF Chain
<1> HIDE DEF a, b, r, cols, wide
<1>6. Refines(SortRel(r, cols, b), SortRel(SortRel(r, cols, a), cols, b))
  BY <1>1, <1>5, SortMerged, Zenon
<1>7. Refines(SortRel(Lowered(ns)[p], cols, b), SortRel(Lowered(A)[y], cols, b))
  BY <1>5, SortRefines, Zenon
<1>8. Refines(SortRel(SortRel(r, cols, a), cols, b), Lowered(A)[x])
  BY <1>3, <1>4, <1>7
<1> QED
  BY <1>2, <1>6, <1>8, RefinesTransitively

\* The assignments of both projections.
LEMMA ProjectCollapsed ==
    ASSUME NEW A, NEW ns, NEW x, NEW new, NEW p, NEW q, NEW y, Chain(A, ns, x, new, p, q, y),
           A[x].kind = "Project"
    PROVE  Refines(Lowered(new)[Len(ns) + 1], Lowered(A)[x])
<1> DEFINE a == ns[p].payload.assignments
           b == A[x].payload.assignments
           r == Lowered(ns)[q]
           cols == PlannedColumns(ns)[q]
           wide == PlannedColumns(A)[y]
<1>1. IsList(a) /\ AssignmentsNumeric(a) /\ IsList(b)
  BY Zenon DEF Chain, Lowerable
<1>2. Lowered(new)[Len(ns) + 1] = ProjectRel(r, cols, a \o b)
  BY Zenon DEF Chain, LoweredAs, MergedRows, Merged
<1>3. /\ Lowered(ns)[p] = ProjectRel(r, cols, a)
      /\ Lowered(A)[x] = ProjectRel(Lowered(A)[y], wide, b)
  BY Zenon DEF Chain, LoweredAs
<1>4. wide = ProjectColumns(cols, a)
  BY Zenon DEF Chain, PlannedAs
<1>5. IsRelation(r) /\ IsList(cols) /\ Refines(Lowered(ns)[p], Lowered(A)[y])
  BY Zenon DEF Chain
<1> HIDE DEF a, b, r, cols, wide
<1>6. Refines(ProjectRel(r, cols, a \o b),
              ProjectRel(ProjectRel(r, cols, a), ProjectColumns(cols, a), b))
  BY <1>1, <1>5, ProjectMerged, Zenon
<1>7. Refines(ProjectRel(Lowered(ns)[p], wide, b), ProjectRel(Lowered(A)[y], wide, b))
  BY <1>5, ProjectRefines, Zenon
<1>8. Refines(ProjectRel(ProjectRel(r, cols, a), ProjectColumns(cols, a), b), Lowered(A)[x])
  BY <1>3, <1>4, <1>7
<1> QED
  BY <1>2, <1>6, <1>8, RefinesTransitively

\* The columns of both windows, where none reads one of those before it.
LEMMA WindowCollapsed ==
    ASSUME NEW A, NEW ns, NEW x, NEW new, NEW p, NEW q, NEW y, Chain(A, ns, x, new, p, q, y),
           A[x].kind = "Window", ReadsNone(A[x].payload.windows, ns[p].payload.windows)
    PROVE  Refines(Lowered(new)[Len(ns) + 1], Lowered(A)[x])
<1> DEFINE a == ns[p].payload.windows
           b == A[x].payload.windows
           r == Lowered(ns)[q]
           cols == PlannedColumns(ns)[q]
           wide == PlannedColumns(A)[y]
<1>1. /\ MeasuresNumeric(a) /\ MeasuresNumeric(b) /\ OneBoundary(a, b) /\ ReadsNone(b, a)
      /\ \A k \in 1..Len(a) : AllNumeric(a[k].spec)
  BY Zenon DEF Chain, Lowerable, MergedRows
<1>2. Lowered(new)[Len(ns) + 1] = WindowRel(r, cols, a \o b)
  BY Zenon DEF Chain, LoweredAs, MergedRows, Merged
<1>3. /\ Lowered(ns)[p] = WindowRel(r, cols, a)
      /\ Lowered(A)[x] = WindowRel(Lowered(A)[y], wide, b)
  BY Zenon DEF Chain, LoweredAs
<1>4. wide = cols \o NamesOf(a)
  BY Zenon DEF Chain, PlannedAs
<1>5. IsRelation(r) /\ IsList(cols) /\ Refines(Lowered(ns)[p], Lowered(A)[y])
  BY Zenon DEF Chain
<1> HIDE DEF a, b, r, cols, wide
<1>6. AllNumeric(a[1].spec)
  <2>1. 1 \in 1..Len(a)
    BY <1>1 DEF OneBoundary, MeasuresNumeric, IsSequence
  <2> QED
    BY <1>1, <2>1
<1>7. Refines(WindowRel(r, cols, a \o b), WindowRel(WindowRel(r, cols, a), cols \o NamesOf(a), b))
  BY <1>1, <1>5, <1>6, WindowMerged, Zenon
<1>8. Refines(WindowRel(Lowered(ns)[p], wide, b), WindowRel(Lowered(A)[y], wide, b))
  BY <1>5, WindowRefines, Zenon
<1>9. Refines(WindowRel(WindowRel(r, cols, a), cols \o NamesOf(a), b), Lowered(A)[x])
  BY <1>3, <1>4, <1>8
<1> QED
  BY <1>2, <1>7, <1>9, RefinesTransitively

\* The windows merged have the columns of both, which x follows or is.
NamesMeet(A, ns, x, new, p) ==
    /\ ReadsNone(A[x].payload.windows, ns[p].payload.windows)
    /\ OwnNames(new[Len(ns) + 1]) \subseteq WindowNames(A)[x]

\* The columns of merged windows are those of the windows x follows or is.
LEMMA NamesCollapsed ==
    ASSUME NEW A, NEW done, NEW m, NEW ns, NEW x, NEW new,
           EmittingMeaning(A, done, m, ns, x, new),
           NEW live, x \in live, IndependentOver(A, live), A[x].kind = "Window",
           NEW p, NEW q, NEW y, Chain(A, ns, x, new, p, q, y), y \in done, p = m[y],
           y = A[x].inputs[1]
    PROVE  NamesMeet(A, ns, x, new, p)
<1> DEFINE a == ns[p].payload.windows
           b == A[x].payload.windows
           w == new[Len(ns) + 1].payload.windows
           below == WindowNames(A)[Kept(A)[y]]
<1>1. x \in 1..Len(A) /\ ReadsEarlier(A)
  BY DEF EmittingMeaning, Emitting
<1>2. OwnNames(ns[p]) \subseteq below
  <2>1. ns[p].kind = "Window" /\ Means(A, done, m, ns)
    BY DEF Chain, EmittingMeaning
  <2> QED
    BY <2>1 DEF Means
<1>3. WindowNames(A)[x] = OwnNames(A[x]) \cup below
  BY <1>1, WindowNamesOf
<1>4. \A k \in 1..Len(b) : b[k].arg.name \notin below
  BY DEF IndependentOver
<1>5. IsList(a) /\ IsList(b) /\ w = a \o b
  BY DEF Chain, Lowerable, MeasuresNumeric, IsSequence, IsList, MergedRows, Merged
<1>6. /\ OwnNames(ns[p]) = {a[k].name : k \in 1..Len(a)}
      /\ OwnNames(A[x]) = {b[k].name : k \in 1..Len(b)}
      /\ OwnNames(new[Len(ns) + 1]) = {w[k].name : k \in 1..Len(w)}
  BY Zenon DEF OwnNames
<1> HIDE DEF a, b, w, below
<1>7. ReadsNone(b, a)
  BY <1>2, <1>4, <1>6 DEF ReadsNone
<1>8. ItemsOfBoth(w, a, b)
  BY <1>5, JoinedItems
<1>9. OwnNames(new[Len(ns) + 1]) \subseteq OwnNames(ns[p]) \cup OwnNames(A[x])
  BY <1>6, <1>8 DEF ItemsOfBoth
<1> QED
  BY <1>2, <1>3, <1>7, <1>9 DEF a, b, NamesMeet

\* What a collapsing rule emits refines the node it is emitted for.
LEMMA CollapsedMeaning ==
    ASSUME NEW A, NEW done, NEW m, NEW ns, NEW x, NEW new,
           EmittingMeaning(A, done, m, ns, x, new),
           NEW live, x \in live, IndependentOver(A, live),
           NEW p, NEW n, Replaces(A, m, ns, x, new, p, n), Collapses(A, ns, x, p, n),
           MergedRows(A[x].kind, ns[p].payload, A[x].payload, n.payload),
           AllNumeric(n.payload.groups)
    PROVE  /\ Refines(Lowered(new)[Len(ns) + 1], Lowered(A)[x])
           /\ A[x].kind = "Window" => OwnNames(new[Len(ns) + 1]) \subseteq WindowNames(A)[x]
           /\ Lowerable(A[x].kind, n.payload)
<1> DEFINE q == ns[p].inputs[1]
           y == A[x].inputs[1]
<1>1. Chain(A, ns, x, new, p, q, y) /\ y \in done /\ p = m[y]
  BY CollapseChains
<1>2. A[x].kind \in {"Limit", "OrderBy", "Project", "Window"}
  BY DEF Collapses
<1>0. y = A[x].inputs[1]
  OBVIOUS
<1> HIDE DEF q, y
<1>3. A[x].kind = "Window" => NamesMeet(A, ns, x, new, p)
  BY <1>0, <1>1, NamesCollapsed
<1>4. Refines(Lowered(new)[Len(ns) + 1], Lowered(A)[x])
  BY <1>1, <1>2, <1>3, LimitCollapsed, SortCollapsed, ProjectCollapsed, WindowCollapsed
     DEF NamesMeet
<1>5. Lowerable(A[x].kind, ns[p].payload) /\ Lowerable(A[x].kind, A[x].payload)
  BY <1>1 DEF Chain
<1>6. Lowerable(A[x].kind, n.payload)
  BY <1>2, <1>5, MergedLowerable
<1> QED
  BY <1>3, <1>4, <1>6 DEF NamesMeet

\* An aggregate fused with its grouping refines the aggregate over the grouping.
LEMMA FusedMeaning ==
    ASSUME NEW A, NEW done, NEW m, NEW ns, NEW x, NEW new,
           EmittingMeaning(A, done, m, ns, x, new),
           NEW live, x \in live, PlainOver(A, live),
           NEW p, NEW n, Replaces(A, m, ns, x, new, p, n), Fuses(A, ns, x, p, n)
    PROVE  /\ Refines(Lowered(new)[Len(ns) + 1], Lowered(A)[x])
           /\ AllNumeric(n.payload.groups) /\ MeasuresNumeric(n.payload.measures)
<1> DEFINE N == Len(ns)
           y == A[x].inputs[1]
           z == A[y].inputs[1]
           q == ns[p].inputs[1]
           groups == n.payload.groups
           ms == n.payload.measures
<1>1. /\ Emitting(A, done, m, ns, x, new) /\ Tidy(new)
      /\ AllLowerable(A) /\ Means(A, done, m, ns)
      /\ ReadsEarlier(A) /\ ReadsEarlier(ns) /\ AuthoredTidy(A) /\ Follows(A, done, m, ns)
      /\ x \in 1..Len(A) /\ done \subseteq 1..Len(A)
  BY DEF EmittingMeaning, Emitting
<1>2. /\ A[x].kind = "Aggregate" /\ n.kind = "Aggregate" /\ y \in done
      /\ n = new[Len(ns) + 1]
  BY DEF EmittingMeaning, Emitting, Replaces, Fuses
<1>3. Stands(A, done, m, ns, y) /\ p = m[y]
  BY <1>1, <1>2 DEF Follows, Replaces
<1>4. p \in 1..N /\ ~Bare(A, y)
  BY <1>3 DEF Stands, Bare, Fuses
<1>5. y \in 1..Len(A) /\ A[y].kind = "GroupBy"
  BY <1>1, <1>2, <1>4 DEF PlainOver
<1>6. groups = A[y].payload.groups /\ z \in done /\ q = m[z] /\ ms = A[x].payload.measures
  BY <1>3, <1>5 DEF Stands, Fuses
<1>7. q \in 1..N /\ PlannedColumns(ns)[q] = PlannedColumns(A)[z]
  BY <1>1, <1>6, Zenon DEF Follows, Stands
<1>8. Refines(Lowered(ns)[q], Lowered(A)[z])
  BY <1>1, <1>6, Zenon DEF Means
<1>9. Lowered(A)[x] = AggregateRel(Lowered(A)[z], PlannedColumns(A)[z], groups, ms)
  <2>1. A[x].payload.groups = <<>>
    BY <1>1, <1>2 DEF AuthoredTidy
  <2>2. TakesGroups(A, x)
    BY <1>2, <1>5, <2>1 DEF TakesGroups
  <2> QED
    BY <1>1, <1>6, <2>2, TakenRelation
<1>10. Lowered(new)[N + 1] = AggregateRel(Lowered(ns)[q], PlannedColumns(ns)[q], groups, ms)
  <2>1. new[N + 1].inputs[1] = q
    BY DEF Replaces
  <2>2. LoweredAs(new, N + 1, Lowered(ns)[q], PlannedColumns(ns)[q])
    BY <1>1, <1>7, <2>1, EmittedLowering, Zenon
  <2> QED
    BY <1>2, <2>2, Zenon DEF LoweredAs
<1>11. AllNumeric(groups) /\ MeasuresNumeric(ms)
  <2>1. Lowerable(A[y].kind, A[y].payload) /\ Lowerable(A[x].kind, A[x].payload)
    BY <1>1, <1>5 DEF AllLowerable
  <2> QED
    BY <1>2, <1>6, <2>1, Zenon DEF Lowerable
<1> HIDE DEF q, z, groups, ms
<1>12. Refines(Lowered(new)[N + 1], Lowered(A)[x])
  BY <1>7, <1>8, <1>9, <1>10, AggregateRefines
<1> QED
  BY <1>11, <1>12 DEF groups, ms

\* The relations and columns a copied node and its origin read.
LEMMA CopiedMeaning ==
    ASSUME NEW A, NEW done, NEW m, NEW ns, NEW x, NEW new,
           EmittingMeaning(A, done, m, ns, x, new),
           NEW n, n = new[Len(ns) + 1], n.payload = A[x].payload,
           A[x].kind # "ReadNamedTable" => n.inputs[1] = m[A[x].inputs[1]],
           A[x].kind = "Join" => n.inputs[2] = m[A[x].inputs[2]],
           A[x].kind = "Aggregate" =>
              ns[m[A[x].inputs[1]]].kind \notin {"GroupBy", "Aggregate"}
    PROVE  /\ Refines(Lowered(new)[Len(ns) + 1], Lowered(A)[x])
           /\ A[x].kind = "Window" => OwnNames(new[Len(ns) + 1]) \subseteq WindowNames(A)[x]
<1> DEFINE N == Len(ns)
           y == A[x].inputs[1]
           z == A[x].inputs[2]
           kind == A[x].kind
           p == A[x].payload
           out == Lowered(new)[N + 1]
           authored == Lowered(A)[x]
           r == Lowered(ns)[m[y]]
           s == Lowered(A)[y]
           cols == PlannedColumns(A)[y]
<1>1. /\ Emitting(A, done, m, ns, x, new) /\ Tidy(new)
      /\ AllLowerable(A) /\ AllLowerable(ns) /\ Means(A, done, m, ns)
      /\ ReadsEarlier(A) /\ ReadsEarlier(ns) /\ ReadsEarlier(new)
      /\ AuthoredTidy(A) /\ AllListed(A) /\ AllListed(ns)
      /\ Follows(A, done, m, ns) /\ x \in 1..Len(A) /\ done \subseteq 1..Len(A)
      /\ n.kind = kind /\ n = new[N + 1] /\ kind \in Kind
      /\ kind # "ReadNamedTable" => y \in done
      /\ kind = "Join" => z \in done
  BY DEF EmittingMeaning, Emitting, AuthoredTidy, Tidy, ReadsEarlier
<1>2. ASSUME NEW v \in done
      PROVE  /\ m[v] \in 1..N /\ Stands(A, done, m, ns, v)
             /\ PlannedColumns(ns)[m[v]] = PlannedColumns(A)[v]
             /\ Refines(Lowered(ns)[m[v]], Lowered(A)[v])
             /\ HasFields(Lowered(ns)[m[v]]) /\ HasFields(Lowered(A)[v])
  <2>1. Stands(A, done, m, ns, v) /\ v \in 1..Len(A)
    BY <1>1 DEF Follows
  <2>2. m[v] \in 1..N /\ PlannedColumns(ns)[m[v]] = PlannedColumns(A)[v]
    BY <2>1 DEF Stands
  <2>3. Refines(Lowered(ns)[m[v]], Lowered(A)[v])
    BY <1>1, Zenon DEF Means
  <2>4. IsRelation(Lowered(ns)[m[v]]) /\ IsRelation(Lowered(A)[v])
    BY <1>1, <2>1, <2>2, LoweredTyped, Zenon
  <2> QED
    BY <2>1, <2>2, <2>3, <2>4 DEF IsRelation
<1>3. kind = "Window" => OwnNames(new[N + 1]) \subseteq WindowNames(A)[x]
  <2> SUFFICES ASSUME kind = "Window"
               PROVE  OwnNames(new[N + 1]) \subseteq WindowNames(A)[x]
    OBVIOUS
  <2>1. WindowNames(A)[x] = OwnNames(A[x]) \cup WindowNames(A)[Kept(A)[y]]
    BY <1>1, WindowNamesOf
  <2>2. OwnNames(new[N + 1]) = OwnNames(A[x])
    BY <1>1, Zenon DEF OwnNames
  <2> QED
    BY <2>1, <2>2
<1>4. CASE kind = "ReadNamedTable"
  <2>1. LoweredAs(new, N + 1, Lowered(new)[n.inputs[1]], PlannedColumns(new)[n.inputs[1]])
    <3>1. N + 1 \in 1..Len(new)
      BY <1>1 DEF Emitting, ReadsEarlier
    <3> QED
      BY <1>1, <3>1, RelationOf
  <2>2. LoweredAs(A, x, s, cols)
    <3>1. ~TakesGroups(A, x)
      BY <1>4 DEF TakesGroups
    <3> QED
      BY <1>1, <3>1, OwnRelation
  <2>3. out = authored
    BY <1>1, <1>4, <2>1, <2>2, Zenon DEF LoweredAs
  <2> QED
    BY <1>3, <1>4, <2>3, RefinesItself
<1>5. CASE kind # "ReadNamedTable"
  <2>1. /\ y \in done /\ m[y] \in 1..N /\ n.inputs[1] = m[y]
        /\ PlannedColumns(ns)[m[y]] = cols
        /\ Refines(r, s) /\ HasFields(r) /\ HasFields(s)
    BY <1>1, <1>2, <1>5
  <2>2. LoweredAs(new, N + 1, r, cols)
    <3>1. LoweredAs(new, N + 1, Lowered(ns)[m[y]], PlannedColumns(ns)[m[y]])
      BY <1>1, <2>1, EmittedLowering, Zenon
    <3> QED
      BY <2>1, <3>1
  <2>3. LoweredAs(A, x, s, cols)
    <3>1. ~TakesGroups(A, x)
      <4> SUFFICES ASSUME kind = "Aggregate", A[y].kind = "GroupBy"
                   PROVE  FALSE
        BY DEF TakesGroups
      <4>1. y \in 1..Len(A) /\ ~Erased(A, y) /\ Stands(A, done, m, ns, y)
        BY <1>1, <1>2, <2>1 DEF Erased
      <4>2. Kept(A)[y] = y
        BY <1>1, <4>1, KeptOf
      <4> QED
        BY <4>1, <4>2 DEF Stands
    <3> QED
      BY <1>1, <3>1, OwnRelation
  <2>4. kind = "Join" =>
            /\ z \in done /\ n.inputs[2] = m[z] /\ m[z] \in 1..N
            /\ PlannedColumns(new)[m[z]] = PlannedColumns(A)[z]
            /\ Lowered(new)[m[z]] = Lowered(ns)[m[z]]
            /\ Refines(Lowered(ns)[m[z]], Lowered(A)[z])
    <3> SUFFICES ASSUME kind = "Join"
                 PROVE  /\ z \in done /\ n.inputs[2] = m[z] /\ m[z] \in 1..N
                        /\ PlannedColumns(new)[m[z]] = PlannedColumns(A)[z]
                        /\ Lowered(new)[m[z]] = Lowered(ns)[m[z]]
                        /\ Refines(Lowered(ns)[m[z]], Lowered(A)[z])
      OBVIOUS
    <3>1. /\ z \in done /\ n.inputs[2] = m[z] /\ m[z] \in 1..N
          /\ PlannedColumns(ns)[m[z]] = PlannedColumns(A)[z]
          /\ Refines(Lowered(ns)[m[z]], Lowered(A)[z])
      BY <1>1, <1>2
    <3>2. ASSUME NEW i \in 1..N
          PROVE  /\ PlannedColumns(new)[i] = PlannedColumns(ns)[i]
                 /\ Lowered(new)[i] = Lowered(ns)[i]
      BY <1>1, AppendedColumns, AppendedLowering DEF Emitting
    <3> HIDE DEF z
    <3> QED
      BY <3>1, <3>2
  <2>5. n.payload = p
    OBVIOUS
  <2> DEFINE rz == Lowered(ns)[m[z]]
             sz == Lowered(A)[z]
             right == Qualified(p.relation, PlannedColumns(A)[z])
  <2>6. kind = "Join" =>
            /\ out = JoinRel(r, cols, rz, right, p.predicate, p.join)
            /\ authored = JoinRel(s, cols, sz, right, p.predicate, p.join)
    BY <1>1, <2>2, <2>3, <2>4, <2>5, Zenon DEF LoweredAs
  <2>7. kind = "Join" => Refines(rz, sz)
    BY <2>4
  <2>8. /\ kind = "Filter" => out = FilterRel(r, cols, p.predicate)
        /\ kind = "Project" => out = ProjectRel(r, cols, p.assignments)
        /\ kind = "SelectProject" => out = SelectProjectRel(r, cols, p.assignments)
        /\ kind = "GroupBy" => out = AggregateRel(r, cols, p.groups, <<>>)
        /\ kind = "Aggregate" => out = AggregateRel(r, cols, p.groups, p.measures)
        /\ kind = "Generate" => out = GeneratorRel(r, cols, p.generators[1])
        /\ kind = "Window" => out = WindowRel(r, cols, p.windows)
        /\ kind = "OrderBy" => out = SortRel(r, cols, p.sorts)
        /\ kind = "Limit" => out = FetchRel(r, p.limit)
    BY <1>1, <2>2, <2>5, Zenon DEF LoweredAs
  <2>9. /\ kind = "Filter" => authored = FilterRel(s, cols, p.predicate)
        /\ kind = "Project" => authored = ProjectRel(s, cols, p.assignments)
        /\ kind = "SelectProject" => authored = SelectProjectRel(s, cols, p.assignments)
        /\ kind = "GroupBy" => authored = AggregateRel(s, cols, p.groups, <<>>)
        /\ kind = "Aggregate" => authored = AggregateRel(s, cols, p.groups, p.measures)
        /\ kind = "Generate" => authored = GeneratorRel(s, cols, p.generators[1])
        /\ kind = "Window" => authored = WindowRel(s, cols, p.windows)
        /\ kind = "OrderBy" => authored = SortRel(s, cols, p.sorts)
        /\ kind = "Limit" => authored = FetchRel(s, p.limit)
    BY <2>3, Zenon DEF LoweredAs
  <2> HIDE DEF out, authored, r, s, cols, p, kind, rz, sz, right
  <2>10. /\ Refines(FilterRel(r, cols, p.predicate), FilterRel(s, cols, p.predicate))
         /\ Refines(ProjectRel(r, cols, p.assignments), ProjectRel(s, cols, p.assignments))
         /\ Refines(SelectProjectRel(r, cols, p.assignments),
                    SelectProjectRel(s, cols, p.assignments))
    BY <2>1, FilterRefines, ProjectRefines, SelectProjectRefines
  <2>11. \A ms : Refines(AggregateRel(r, cols, p.groups, ms), AggregateRel(s, cols, p.groups, ms))
    BY <2>1, AggregateRefines
  <2>12. /\ Refines(GeneratorRel(r, cols, p.generators[1]), GeneratorRel(s, cols, p.generators[1]))
         /\ Refines(WindowRel(r, cols, p.windows), WindowRel(s, cols, p.windows))
         /\ Refines(SortRel(r, cols, p.sorts), SortRel(s, cols, p.sorts))
         /\ Refines(FetchRel(r, p.limit), FetchRel(s, p.limit))
    BY <2>1, GeneratorRefines, WindowRefines, SortRefines, FetchRefines
  <2>13. kind = "Join" => Refines(out, authored)
    BY <2>1, <2>6, <2>7, JoinRefines
  <2>14. Refines(out, authored)
    BY <1>1, <1>5, <2>8, <2>9, <2>10, <2>11, <2>12, <2>13 DEF Kind, UnaryKind
  <2> QED
    BY <1>3, <2>14 DEF out, authored, kind
<1> QED
  BY <1>4, <1>5

-----------------------------------------------------------------------------
(* What the stores hold lowers.                                            *)

\* append_node accepts only what lowering can read.
LEMMA PassedLowerable ==
    ASSUME NEW kind, NEW p, AsPassed(kind, p), IsList(p.windows)
    PROVE  Lowerable(kind, p)
<1>1. Meaningful(kind, p) /\ Accepted(kind, p) /\ Plannable(kind, p) /\ Computable(kind, p)
  BY DEF AsPassed, Meaningful
<1>2. \A w : IsSequence(w) => IsList(w)
  BY DEF IsSequence, IsList
<1>3. \A w : IsList(w) => DOMAIN w = 1..Len(w)
  BY DEF IsList
<1>4. AllNumeric(p.groups)
  BY <1>1 DEF Computable
<1>5. kind = "ReadNamedTable" =>
          /\ IsList(TableColumns[p.table])
          /\ TableRows[p.table] \in RowLists(Len(TableColumns[p.table]))
  BY <1>1, <1>2 DEF Plannable, Computable, RowLists
<1>6. kind \in {"Project", "SelectProject"} =>
          IsList(p.assignments) /\ AssignmentsNumeric(p.assignments)
  BY <1>1, <1>2, <1>3 DEF Plannable, Computable, AssignmentsNumeric
<1>7. kind = "Aggregate" => MeasuresNumeric(p.measures)
  BY <1>1 DEF Computable
<1>8. kind = "Generate" =>
          /\ AllNumeric(p.generators[1].elements)
          /\ IsList(p.generators[1].columns) /\ Len(p.generators[1].columns) = 1
  BY <1>1, <1>2 DEF Plannable, Computable
<1>9. kind = "Window" =>
          /\ MeasuresNumeric(p.windows)
          /\ \A k \in 1..Len(p.windows) : AllNumeric(p.windows[k].spec)
  BY <1>1, <1>3 DEF Computable
<1>10. /\ kind = "OrderBy" => AllNumeric(p.sorts)
       /\ kind = "Limit" => p.limit \in Nat
  BY <1>1 DEF Computable
<1> QED
  BY <1>4, <1>5, <1>6, <1>7, <1>8, <1>9, <1>10, Zenon DEF Lowerable

LEMMA RequestLowerable ==
    ASSUME IInv, StoreArity, StorePayloads, request \in cursors
    PROVE  AllLowerable(AuthoredNodes)
<1>1. Authored(AuthoredNodes, request.tip) /\ request.store \in StoreId
  BY RequestAuthored DEF IInv, TypeOK, Cursor
<1> SUFFICES ASSUME NEW i \in 1..Len(AuthoredNodes)
             PROVE  Lowerable(AuthoredNodes[i].kind, AuthoredNodes[i].payload)
  BY DEF AllLowerable
<1>2. AsPassed(AuthoredNodes[i].kind, AuthoredNodes[i].payload)
  BY <1>1 DEF AuthoredNodes, StorePayloads
<1>3. IsList(AuthoredNodes[i].payload.windows)
  BY <1>1 DEF Authored
<1> QED
  BY <1>2, <1>3, PassedLowerable

LEMMA EmittedLowerable ==
    ASSUME NEW A, NEW done, NEW m, NEW ns, NEW x, NEW new,
           EmittingMeaning(A, done, m, ns, x, new),
           NEW p, p = new[Len(ns) + 1].payload, Lowerable(A[x].kind, p)
    PROVE  AllLowerable(new)
<1>1. /\ Len(ns) \in Nat /\ Len(new) = Len(ns) + 1 /\ AllLowerable(ns)
      /\ \A i \in 1..Len(ns) : new[i] = ns[i]
      /\ new[Len(ns) + 1].kind = A[x].kind
  BY DEF EmittingMeaning, Emitting, ReadsEarlier
<1>2. \A i \in 1..Len(new) : i = Len(ns) + 1 \/ i \in 1..Len(ns)
  BY <1>1
<1> QED
  BY <1>1, <1>2 DEF AllLowerable

-----------------------------------------------------------------------------
(* The pass keeps the meaning.                                             *)

RulesApply == GroupingPlain /\ WindowsIndependent

\* While RulesApply of what is derived: every node that stands for an authored
\* one refines it, then the draft's root does, and so does the view's.
LoweringInv ==
    /\ phase = "rewriting" /\ RulesApply =>
          /\ AllLowerable(draft)
          /\ Means(AuthoredNodes, AuthoredReachable \ unvisited, newId, draft)
    /\ phase = "compacting" /\ RulesApply =>
          Refines(Lowered(draft)[view.root], Lowered(AuthoredNodes)[request.tip])
    /\ phase = "derived" /\ RulesApply =>
          Refines(Lowered(view.nodes)[view.root], Lowered(AuthoredNodes)[request.tip])

LEMMA RulesUnchanged ==
    ASSUME UNCHANGED <<request, nodes>>
    PROVE  /\ RulesApply' <=> RulesApply
           /\ AuthoredNodes' = AuthoredNodes
           /\ AuthoredReachable' = AuthoredReachable
<1>1. AuthoredNodes' = AuthoredNodes /\ AuthoredReachable' = AuthoredReachable
  BY PlainUnchanged
<1>2. GroupingPlain' <=> GroupingPlain
  BY PlainUnchanged
<1>3. WindowsIndependent' <=> WindowsIndependent
  BY <1>1 DEF WindowsIndependent
<1> QED
  BY <1>1, <1>2, <1>3 DEF RulesApply

\* The iteration of the first loop for x, where the rules apply.
LoweringTurn(x) ==
    ColumnsTurn(x) /\ ColumnsInv' /\ LoweringInv /\ WindowsIndependent

\* What an iteration starts from.
LEMMA TurnLowering ==
    ASSUME NEW x, LoweringTurn(x)
    PROVE  /\ AllLowerable(AuthoredNodes) /\ AllLowerable(draft)
           /\ Means(AuthoredNodes, AuthoredReachable \ unvisited, newId, draft)
           /\ IndependentOver(AuthoredNodes, AuthoredReachable)
<1>1. AllLowerable(AuthoredNodes)
  <2>1. phase = "rewriting" /\ StorePayloads
    BY TurnColumns DEF LoweringTurn, ColumnsTurn, ColumnsInv
  <2>2. request \in cursors /\ IInv /\ StoreArity
    BY <2>1 DEF LoweringTurn, ColumnsTurn, RewriteInv, PassOK
  <2> QED
    BY <2>1, <2>2, RequestLowerable
<1>2. phase = "rewriting" /\ RulesApply
  BY TurnColumns DEF LoweringTurn, ColumnsTurn, RulesApply
<1>3. /\ AllLowerable(draft)
      /\ Means(AuthoredNodes, AuthoredReachable \ unvisited, newId, draft)
  BY <1>2 DEF LoweringTurn, LoweringInv
<1>4. IndependentOver(AuthoredNodes, AuthoredReachable)
  BY Zenon DEF LoweringTurn, WindowsIndependent, IndependentOver
<1> QED
  BY <1>1, <1>3, <1>4

\* An iteration keeps the invariant if it keeps what the draft means.
LEMMA LoweringTurnKeeps ==
    ASSUME NEW x, LoweringTurn(x), Visit(x), AllLowerable(draft'),
           Means(AuthoredNodes, (AuthoredReachable \ unvisited) \cup {x}, newId', draft')
    PROVE  LoweringInv'
<1>0. ColumnsTurn(x)
  BY DEF LoweringTurn
<1>1. /\ phase' = "rewriting" /\ unvisited' = unvisited \ {x}
      /\ UNCHANGED <<request, nodes>>
  BY <1>0 DEF ColumnsTurn, Visit, IsTurnOf, vars, storeVars
<1>2. AuthoredNodes' = AuthoredNodes /\ AuthoredReachable' = AuthoredReachable
  BY <1>1, RulesUnchanged
<1>3. AuthoredReachable \ unvisited' = (AuthoredReachable \ unvisited) \cup {x}
  BY <1>0, <1>1, TurnColumns
<1>4. Means(AuthoredNodes', AuthoredReachable' \ unvisited', newId', draft')
  BY <1>2, <1>3
<1> QED
  BY <1>1, <1>4 DEF LoweringInv

LEMMA TurnMeaning ==
    ASSUME NEW x, LoweringTurn(x), ~Erased(AuthoredNodes, x), Visit(x),
           NEW inputs, NEW payload, Emit(x, AuthoredNodes[x].kind, inputs, payload)
    PROVE  EmittingMeaning(AuthoredNodes, AuthoredReachable \ unvisited, newId, draft, x, draft')
<1>1. ColumnsTurn(x) /\ ColumnsInv'
  BY DEF LoweringTurn
<1>2. Tidy(draft')
  <2>1. phase' = "rewriting" /\ UNCHANGED <<request, nodes>> /\ GroupingPlain
    BY <1>1 DEF ColumnsTurn, Visit, IsTurnOf, vars, storeVars
  <2>2. GroupingPlain'
    BY <2>1, PlainUnchanged
  <2> QED
    BY <1>1, <2>1, <2>2 DEF ColumnsInv
<1>3. Emitting(AuthoredNodes, AuthoredReachable \ unvisited, newId, draft, x, draft')
  BY <1>1, TurnEmitting
<1>4. /\ AllLowerable(AuthoredNodes) /\ AllLowerable(draft)
      /\ Means(AuthoredNodes, AuthoredReachable \ unvisited, newId, draft)
  BY TurnLowering
<1> QED
  BY <1>2, <1>3, <1>4 DEF EmittingMeaning

\* An iteration keeps the invariant if the new node refines its origin.
LEMMA EmitKeepsLowering ==
    ASSUME NEW x, LoweringTurn(x), ~Erased(AuthoredNodes, x), Visit(x),
           NEW inputs, NEW payload, Emit(x, AuthoredNodes[x].kind, inputs, payload),
           Lowerable(AuthoredNodes[x].kind, payload),
           Refines(Lowered(draft')[Len(draft) + 1], Lowered(AuthoredNodes)[x]),
           AuthoredNodes[x].kind = "Window" =>
              OwnNames(draft'[Len(draft) + 1]) \subseteq WindowNames(AuthoredNodes)[x]
    PROVE  LoweringInv'
<1> DEFINE A == AuthoredNodes
           done == AuthoredReachable \ unvisited
           new == draft'
           mnew == newId'
<1>1. EmittingMeaning(A, done, newId, draft, x, new)
  BY TurnMeaning
<1>2. /\ new[Len(draft) + 1].payload = payload
      /\ mnew[x] = Len(draft) + 1 /\ \A z \in done : mnew[z] = newId[z]
  BY TurnEmitting DEF LoweringTurn
<1>3. /\ Refines(Lowered(new)[Len(draft) + 1], Lowered(A)[x])
      /\ A[x].kind = "Window" => OwnNames(new[Len(draft) + 1]) \subseteq WindowNames(A)[x]
      /\ Lowerable(A[x].kind, payload)
  OBVIOUS
<1> HIDE DEF A, done, new, mnew
<1>4. AllLowerable(new)
  BY <1>1, <1>2, <1>3, EmittedLowerable
<1>5. Emitting(A, done, newId, draft, x, new) /\ Means(A, done, newId, draft)
  BY <1>1 DEF EmittingMeaning
<1>6. Means(A, done \cup {x}, mnew, new)
  BY <1>2, <1>3, <1>5, EmitMeans
<1> QED
  BY <1>4, <1>6, LoweringTurnKeeps DEF A, done, new, mnew

LEMMA EraseLowers ==
    ASSUME NEW x, LoweringTurn(x), EliminateFilterTrue(x)
    PROVE  LoweringInv'
<1> DEFINE A == AuthoredNodes
           done == AuthoredReachable \ unvisited
           mnew == newId'
<1>1. /\ ReadsEarlier(A) /\ AuthoredTidy(A) /\ x \in 1..Len(A)
      /\ AllLowerable(A) /\ AllLowerable(draft) /\ Means(A, done, newId, draft)
  BY TurnColumns, TurnLowering DEF LoweringTurn
<1>2. /\ Visit(x) /\ Erased(A, x) /\ draft' = draft /\ A[x].inputs[1] \in done
      /\ mnew[x] = newId[A[x].inputs[1]] /\ \A z \in done : mnew[z] = newId[z]
  BY EraseTurn DEF LoweringTurn
<1> HIDE DEF A, done, mnew
<1>3. Means(A, done \cup {x}, mnew, draft)
  BY <1>1, <1>2, EraseMeans
<1> QED
  BY <1>1, <1>2, <1>3, LoweringTurnKeeps DEF A, done, mnew

LEMMA CopyLowers ==
    ASSUME NEW x, LoweringTurn(x), CopyNode(x)
    PROVE  LoweringInv'
<1> DEFINE A == AuthoredNodes
           done == AuthoredReachable \ unvisited
           new == draft'
           n == new[Len(draft) + 1]
           inputs == RemappedInputs(x)
<1>1. /\ Visit(x) /\ ~Erased(A, x) /\ Emit(x, A[x].kind, inputs, A[x].payload)
      /\ n.payload = A[x].payload
      /\ A[x].kind # "ReadNamedTable" => n.inputs[1] = newId[A[x].inputs[1]]
      /\ A[x].kind = "Join" => n.inputs[2] = newId[A[x].inputs[2]]
      /\ A[x].kind = "Aggregate" =>
            draft[newId[A[x].inputs[1]]].kind \notin {"GroupBy", "Aggregate"}
  BY CopyTurn DEF LoweringTurn
<1>2. EmittingMeaning(A, done, newId, draft, x, new)
  BY <1>1, TurnMeaning
<1>3. Lowerable(A[x].kind, A[x].payload)
  <2>1. x \in 1..Len(A) /\ AllLowerable(A)
    BY TurnColumns, TurnLowering DEF LoweringTurn
  <2> QED
    BY <2>1 DEF AllLowerable
<1> HIDE DEF A, done, new, inputs
<1>4. /\ Refines(Lowered(new)[Len(draft) + 1], Lowered(A)[x])
      /\ A[x].kind = "Window" => OwnNames(new[Len(draft) + 1]) \subseteq WindowNames(A)[x]
  BY <1>1, <1>2, CopiedMeaning
<1> QED
  BY <1>1, <1>3, <1>4, EmitKeepsLowering DEF A, new, inputs

LEMMA MergeLowers ==
    ASSUME NEW x, LoweringTurn(x),
           AuthoredNodes[x].kind \in {"Limit", "OrderBy", "Project", "Window"},
           Parent(x).kind = AuthoredNodes[x].kind,
           NEW rule, NEW payload, Collapse(x, rule, payload), payload.groups = <<>>,
           MergedRows(AuthoredNodes[x].kind, Parent(x).payload, AuthoredNodes[x].payload, payload)
    PROVE  LoweringInv'
<1> DEFINE A == AuthoredNodes
           live == AuthoredReachable
           done == AuthoredReachable \ unvisited
           new == draft'
           n == new[Len(draft) + 1]
           p == newId[A[x].inputs[1]]
           inputs == <<Parent(x).inputs[1]>>
<1>1. ColumnsTurn(x) /\ A[x].kind \in UnaryKind \ {"Filter"}
  BY DEF UnaryKind, LoweringTurn
<1>2. /\ Visit(x) /\ ~Erased(A, x) /\ Emit(x, A[x].kind, inputs, payload)
      /\ n.payload = payload /\ Parent(x) = draft[p]
      /\ Replaces(A, newId, draft, x, new, p, n)
  BY <1>1, CollapseTurn
<1>3. EmittingMeaning(A, done, newId, draft, x, new)
  BY <1>2, TurnMeaning
<1>4. x \in live /\ IndependentOver(A, live)
  BY TurnColumns, TurnLowering DEF LoweringTurn
<1>5. AllNumeric(n.payload.groups)
  BY <1>2, NothingNumeric
<1>6. /\ A[x].kind \in {"Limit", "OrderBy", "Project", "Window"} /\ draft[p].kind = A[x].kind
      /\ MergedRows(A[x].kind, draft[p].payload, A[x].payload, n.payload)
  BY <1>2
<1>7. Collapses(A, draft, x, p, n)
  BY <1>6 DEF Collapses, MergedRows
<1> HIDE DEF A, live, done, new, p, inputs
<1>8. /\ Refines(Lowered(new)[Len(draft) + 1], Lowered(A)[x])
      /\ A[x].kind = "Window" => OwnNames(new[Len(draft) + 1]) \subseteq WindowNames(A)[x]
      /\ Lowerable(A[x].kind, payload)
  BY <1>2, <1>3, <1>4, <1>5, <1>6, <1>7, CollapsedMeaning
<1> QED
  BY <1>2, <1>8, EmitKeepsLowering DEF A, new, inputs

LEMMA FuseLowers ==
    ASSUME NEW x, LoweringTurn(x), AuthoredNodes[x].kind = "Aggregate",
           Parent(x).kind = "GroupBy", NEW rule, NEW payload, Collapse(x, rule, payload),
           payload.groups = Parent(x).payload.groups,
           payload.measures = AuthoredNodes[x].payload.measures
    PROVE  LoweringInv'
<1> DEFINE A == AuthoredNodes
           live == AuthoredReachable
           done == AuthoredReachable \ unvisited
           new == draft'
           n == new[Len(draft) + 1]
           p == newId[A[x].inputs[1]]
           inputs == <<Parent(x).inputs[1]>>
<1>1. ColumnsTurn(x) /\ A[x].kind \in UnaryKind \ {"Filter"}
  BY DEF UnaryKind, LoweringTurn
<1>2. /\ Visit(x) /\ ~Erased(A, x) /\ Emit(x, A[x].kind, inputs, payload)
      /\ n.payload = payload /\ Parent(x) = draft[p]
      /\ Replaces(A, newId, draft, x, new, p, n)
  BY <1>1, CollapseTurn
<1>3. EmittingMeaning(A, done, newId, draft, x, new)
  BY <1>2, TurnMeaning
<1>4. x \in live /\ PlainOver(A, live)
  BY TurnColumns DEF LoweringTurn
<1>5. Fuses(A, draft, x, p, n)
  BY <1>2 DEF Fuses
<1> HIDE DEF A, live, done, new, p, inputs
<1>6. /\ Refines(Lowered(new)[Len(draft) + 1], Lowered(A)[x])
      /\ AllNumeric(payload.groups) /\ MeasuresNumeric(payload.measures)
  BY <1>2, <1>3, <1>4, <1>5, FusedMeaning
<1>7. Lowerable(A[x].kind, payload) /\ A[x].kind # "Window"
  BY <1>6 DEF Lowerable, A
<1> QED
  BY <1>2, <1>6, <1>7, EmitKeepsLowering DEF A, new, inputs

\* Each rule that replaces a node by one over its parent's input.
LEMMA CollapsesLower ==
    ASSUME NEW x, LoweringTurn(x),
           \/ CollapseLimit(x) \/ CollapseProject(x) \/ CollapseOrderBy(x)
           \/ CollapseWindow(x) \/ FuseGroupBy(x)
    PROVE  LoweringInv'
<1> DEFINE parent == Parent(x).payload
           own == AuthoredNodes[x].payload
<1>1. CASE CollapseLimit(x)
  <2> DEFINE v == IF parent.limit < own.limit THEN parent.limit ELSE own.limit
             p == [NoPayload EXCEPT !.limit = v]
  <2>1. Adjacent(x, "Limit", "Limit") /\ Collapse(x, "collapse_adjacent_limit", p)
    BY <1>1 DEF CollapseLimit
  <2>2. p.groups = <<>> /\ p.limit = v
    BY MadePayload, Zenon
  <2> HIDE DEF p
  <2>3. MergedRows("Limit", parent, own, p)
    BY <2>2 DEF MergedRows, Merged
  <2> QED
    BY <2>1, <2>2, <2>3, MergeLowers DEF Adjacent
<1>2. CASE CollapseOrderBy(x)
  <2> DEFINE v == own.sorts
             p == [NoPayload EXCEPT !.sorts = v]
  <2>1. Adjacent(x, "OrderBy", "OrderBy") /\ Collapse(x, "collapse_adjacent_order_by", p)
    BY <1>2 DEF CollapseOrderBy
  <2>2. p.groups = <<>> /\ p.sorts = v
    BY MadePayload, Zenon
  <2> HIDE DEF p
  <2>3. MergedRows("OrderBy", parent, own, p)
    BY <2>2 DEF MergedRows, Merged
  <2> QED
    BY <2>1, <2>2, <2>3, MergeLowers DEF Adjacent
<1>3. CASE CollapseProject(x)
  <2> DEFINE v == parent.assignments \o own.assignments
             p == [NoPayload EXCEPT !.assignments = v]
  <2>1. Adjacent(x, "Project", "Project") /\ Collapse(x, "collapse_adjacent_project", p)
    BY <1>3, Zenon DEF CollapseProject
  <2>2. p.groups = <<>> /\ p.assignments = v
    BY MadePayload, Zenon
  <2> HIDE DEF p
  <2>3. MergedRows("Project", parent, own, p)
    BY <2>2, Zenon DEF MergedRows, Merged
  <2> HIDE DEF v
  <2> QED
    BY <2>1, <2>2, <2>3, MergeLowers DEF Adjacent
<1>4. CASE CollapseWindow(x)
  <2> DEFINE v == parent.windows \o own.windows
             p == [NoPayload EXCEPT !.windows = v]
  <2>1. Adjacent(x, "Window", "Window") /\ Collapse(x, "collapse_adjacent_window", p)
    BY <1>4, Zenon DEF CollapseWindow, CanCollapseWindow
  <2>2. p.groups = <<>> /\ p.windows = v
    BY MadePayload, Zenon
  <2>3. OneBoundary(parent.windows, own.windows)
    BY <1>4, Zenon DEF CollapseWindow, CanCollapseWindow, ShareBoundary, OneBoundary
  <2> HIDE DEF p
  <2>4. MergedRows("Window", parent, own, p)
    BY <2>2, <2>3, Zenon DEF MergedRows, Merged
  <2> HIDE DEF v
  <2> QED
    BY <2>1, <2>2, <2>4, MergeLowers DEF Adjacent
<1>5. CASE FuseGroupBy(x)
  <2> DEFINE p == [NoPayload EXCEPT !.groups = Parent(x).payload.groups,
                                    !.measures = AuthoredNodes[x].payload.measures]
  <2>1. Adjacent(x, "Aggregate", "GroupBy") /\ Collapse(x, "fuse_group_by_aggregate", p)
    BY <1>5 DEF FuseGroupBy
  <2>2. p.groups = Parent(x).payload.groups /\ p.measures = AuthoredNodes[x].payload.measures
    BY MeaningAssumption
  <2> HIDE DEF p
  <2> QED
    BY <2>1, <2>2, FuseLowers DEF Adjacent
<1> QED
  BY <1>1, <1>2, <1>3, <1>4, <1>5

LEMMA RewriteNodeLowers ==
    ASSUME NEW x, LoweringTurn(x), RewriteNode(x)
    PROVE  LoweringInv'
<1>1. ~CollapseAggregate(x)
  BY AggregateStays DEF LoweringTurn
<1> QED
  BY <1>1, EraseLowers, CopyLowers, CollapsesLower DEF RewriteNode

LEMMA BeginDeriveLowers ==
    ASSUME RewriteInv, NEW c \in cursors, BeginDerive(c), UNCHANGED vars
    PROVE  LoweringInv'
<1>1. phase' = "rewriting" /\ unvisited' = Reachable(nodes[c.store], c.tip) /\ draft' = <<>>
  BY DEF BeginDerive, RewriteInv, PassOK
<1>2. AuthoredReachable' = Reachable(nodes[c.store], c.tip)
  BY DEF BeginDerive, AuthoredNodes, AuthoredReachable, vars, storeVars
<1>3. AllLowerable(draft')
  BY <1>1 DEF AllLowerable
<1>4. AuthoredReachable' \ unvisited' = {}
  BY <1>1, <1>2
<1>5. Means(AuthoredNodes', AuthoredReachable' \ unvisited', newId', draft')
  BY <1>4 DEF Means
<1> QED
  BY <1>1, <1>3, <1>5 DEF LoweringInv

LEMMA BeginCompactionLowers ==
    ASSUME LoweringInv, RewriteInv, BeginCompaction, UNCHANGED vars
    PROVE  LoweringInv'
<1> DEFINE A == AuthoredNodes
           tip == request.tip
<1>1. /\ phase = "rewriting" /\ unvisited = {} /\ phase' = "compacting"
      /\ UNCHANGED <<request, nodes, draft>>
  BY DEF BeginCompaction, vars, storeVars
<1>2. AuthoredNodes' = A /\ request'.tip = tip /\ (RulesApply' <=> RulesApply)
  BY <1>1, RulesUnchanged
<1>3. view'.root = newId[tip]
  BY <1>1 DEF BeginCompaction, RewriteInv, PassOK, EmptyView
<1>4. request \in cursors /\ IInv /\ StoreArity
  BY <1>1 DEF RewriteInv, PassOK
<1>5. tip \in AuthoredReachable \ unvisited
  BY <1>1, <1>4, RequestAuthored, WalkClosed DEF Authored, AuthoredReachable
<1>6. RulesApply => Refines(Lowered(draft)[newId[tip]], Lowered(A)[tip])
  BY <1>1, <1>5 DEF LoweringInv, Means
<1>7. RulesApply' =>
          Refines(Lowered(draft')[view'.root], Lowered(AuthoredNodes')[request'.tip])
  BY <1>1, <1>2, <1>3, <1>6
<1> QED
  BY <1>1, <1>7 DEF LoweringInv

LEMMA CompactNodeLowers ==
    ASSUME LoweringInv, RewriteInv, NEW x \in unvisited, CompactNode(x), UNCHANGED vars
    PROVE  LoweringInv'
<1>1. /\ phase = "compacting" /\ phase' = "compacting"
      /\ UNCHANGED <<request, nodes, draft>>
  BY DEF CompactNode, IsTurnOf, Visit, vars, storeVars
<1>2. /\ AuthoredNodes' = AuthoredNodes /\ request'.tip = request.tip
      /\ RulesApply' <=> RulesApply
  BY <1>1, RulesUnchanged
<1>3. view'.root = view.root
  BY DEF CompactNode, RewriteInv, PassOK
<1>4. RulesApply' =>
          Refines(Lowered(draft')[view'.root], Lowered(AuthoredNodes')[request'.tip])
  BY <1>1, <1>2, <1>3 DEF LoweringInv
<1> QED
  BY <1>1, <1>4 DEF LoweringInv

LEMMA FinishCompactionLowers ==
    ASSUME LoweringInv, RewriteInv, FinishCompaction, UNCHANGED vars
    PROVE  LoweringInv'
<1> DEFINE A == AuthoredNodes
           tip == request.tip
           vn == view.nodes
           root == view.root
           live == Reachable(draft, root)
<1>1. /\ phase = "compacting" /\ unvisited = {} /\ phase' = "derived"
      /\ UNCHANGED <<request, nodes, draft>>
  BY DEF FinishCompaction, vars, storeVars
<1>2. AuthoredNodes' = A /\ request'.tip = tip /\ (RulesApply' <=> RulesApply)
  BY <1>1, RulesUnchanged
<1>3. view'.root = newId[root] /\ view'.nodes = vn
  BY DEF FinishCompaction, RewriteInv, PassOK
<1>4. Compacting(A, tip, {}, newId, draft, origins, view)
  BY <1>1 DEF RewriteInv, PassOK
<1>5. live \ {} = live
  OBVIOUS
<1>6. /\ NodeList(draft) /\ WellFormed(draft) /\ Arity(draft) /\ root \in 1..Len(draft)
      /\ KeptNodes(draft, origins, live, newId, vn, view.origins)
  BY <1>4, <1>5 DEF Compacting, Emitted
<1>7. RulesApply => Refines(Lowered(draft)[root], Lowered(A)[tip])
  BY <1>1 DEF LoweringInv
<1> HIDE DEF A, tip, vn, root
<1>8. /\ ReadsEarlier(draft) /\ ReadsEarlier(vn) /\ root \in live
      /\ Mirrors(draft, live, newId, vn)
  BY <1>6, CompactedMirrors
<1> HIDE DEF live
<1>9. Lowered(vn)[newId[root]] = Lowered(draft)[root]
  BY <1>8, MirroredLowering
<1>10. RulesApply => Refines(Lowered(vn)[newId[root]], Lowered(A)[tip])
  BY <1>7, <1>9
<1>11. RulesApply' =>
          Refines(Lowered(view'.nodes)[view'.root], Lowered(AuthoredNodes')[request'.tip])
  BY <1>2, <1>3, <1>10 DEF vn
<1> QED
  BY <1>1, <1>11 DEF LoweringInv

LEMMA PassStepLowers ==
    ASSUME PassLedger, RewriteInv, RewriteInv', ColumnsInv, ColumnsInv', LoweringInv,
           PassStep, UNCHANGED vars
    PROVE  LoweringInv'
<1>1. ASSUME NEW x \in unvisited, RewriteNode(x)
      PROVE  LoweringInv'
  <2>1. IsTurnOf(x, "rewriting") /\ Visit(x)
    BY <1>1 DEF RewriteNode, EliminateFilterTrue, CollapseLimit, CollapseProject,
       CollapseAggregate, FuseGroupBy, CollapseOrderBy, CollapseWindow, CopyNode, Collapse
  <2>2. CASE RulesApply
    BY <1>1, <2>1, <2>2, RewriteNodeLowers DEF LoweringTurn, ColumnsTurn, RulesApply
  <2>3. CASE ~RulesApply
    <3>1. phase' = "rewriting" /\ UNCHANGED <<request, nodes>>
      BY <2>1 DEF IsTurnOf, Visit, vars, storeVars
    <3>2. ~RulesApply'
      BY <2>3, <3>1, RulesUnchanged
    <3> QED
      BY <3>1, <3>2 DEF LoweringInv
  <2> QED
    BY <2>2, <2>3
<1>2. CASE ReturnView
  BY <1>2 DEF ReturnView, LoweringInv
<1> QED
  BY <1>1, <1>2, BeginCompactionLowers, CompactNodeLowers, FinishCompactionLowers DEF PassStep

LEMMA LoweringInductive ==
    /\ LoweringInv /\ PassLedger /\ RewriteInv /\ RewriteInv' /\ ColumnsInv /\ ColumnsInv'
    /\ [RewriteNext]_allVars
    => LoweringInv'
<1> SUFFICES ASSUME LoweringInv, PassLedger, RewriteInv, RewriteInv', ColumnsInv, ColumnsInv',
                    [RewriteNext]_allVars
             PROVE  LoweringInv'
  OBVIOUS
<1>1. CASE phase = "resting" /\ Next /\ UNCHANGED rewriteVars
  <2>1. phase' = "resting"
    BY <1>1 DEF rewriteVars
  <2> QED
    BY <2>1 DEF LoweringInv
<1>2. CASE (\E c \in cursors : BeginDerive(c)) /\ UNCHANGED vars
  BY <1>2, BeginDeriveLowers
<1>3. CASE PassStep /\ UNCHANGED vars
  BY <1>3, PassStepLowers
<1>4. CASE UNCHANGED allVars
  <2>1. UNCHANGED <<nodes, phase, request, unvisited, newId, draft, view>>
    BY <1>4 DEF allVars, rewriteVars, vars, storeVars
  <2>2. /\ AuthoredNodes' = AuthoredNodes /\ AuthoredReachable' = AuthoredReachable
        /\ RulesApply' <=> RulesApply
    BY <2>1, RulesUnchanged
  <2> QED
    BY <2>1, <2>2 DEF LoweringInv
<1> QED
  BY <1>1, <1>2, <1>3, <1>4 DEF RewriteNext

\* Rewriting keeps what a cursor means: whatever the derived view lowers to and
\* may return, the authored nodes, lowered as they stand, may return too, where
\* aggregates are grouped as GroupingPlain says and no window function reads the
\* column of a window it follows (rewrite.incn, lower.incn).
THEOREM LoweringAgreesAlways == RewriteSpec => []LoweringAgrees
<1>1. RewriteInit => PassLedger /\ ColumnsInv /\ LoweringInv
  BY DEF RewriteInit, Init, PassLedger, ColumnsInv, StorePayloads, LoweringInv
<1>2. LoweringInv => LoweringAgrees
  BY DEF LoweringInv, RulesApply, LoweringAgrees, Preserved, Meaning, Refines
<1> QED
  BY <1>1, <1>2, LedgerInductive, RewriteInductive, ColumnsInductive, LoweringInductive, PTL
  DEF RewriteSpec
=============================================================================
