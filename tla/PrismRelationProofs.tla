------------------------ MODULE PrismRelationProofs ------------------------
(***************************************************************************)
(* Facts about lists of nodes and about what they plan and lower to, for   *)
(* any nodes, columns and rows; no state of the pass is mentioned here.    *)
(*                                                                         *)
(* Of the operators of PrismMeaning: how wide what lowering makes of a     *)
(* relation is, that it is made of rows of numbers, that it returns fewer  *)
(* rows when its inputs do, and what two operations of one kind in a row   *)
(* come to.  Of one list of nodes made from another: that it plans the     *)
(* same columns after a node has been erased, copied, collapsed or fused,  *)
(* and that a copy of some of its nodes lowers to the same relations.      *)
(*                                                                         *)
(* What a recursion over a node list computes is proved at each use: the   *)
(* instance of Recursion gives the value at a node from the values at its  *)
(* inputs, and the least node where a claim fails has inputs where it      *)
(* holds.                                                                  *)
(***************************************************************************)
EXTENDS PrismRewriteMeaning, FiniteSetTheorems, TLAPS

-----------------------------------------------------------------------------
(* Lists.                                                                  *)

LEMMA IndexedIsList ==
    ASSUME NEW n \in Nat, NEW w, DOMAIN w = 1..n, w = [k \in 1..n |-> w[k]]
    PROVE  IsList(w) /\ Len(w) = n
<1> DEFINE S == {w[k] : k \in 1..n}
<1>1. w \in Seq(S)
  <2>1. \A k \in 1..n : w[k] \in S
    OBVIOUS
  <2> HIDE DEF S
  <2> QED
    BY <2>1
<1>2. Len(w) = n
  BY <1>1
<1> HIDE DEF S
<1> QED
  BY <1>1, <1>2 DEF IsList

LEMMA NamesAreList ==
    ASSUME NEW w, IsList(w)
    PROVE  IsList(NamesOf(w)) /\ Len(NamesOf(w)) = Len(w) /\ Len(w) \in Nat
<1>1. Len(w) \in Nat
  BY DEF IsList
<1> QED
  BY <1>1, IndexedIsList DEF NamesOf

LEMMA GroupColumnsAreList ==
    ASSUME NEW w, IsList(w)
    PROVE  IsList(GroupColumns(w)) /\ Len(GroupColumns(w)) = Len(w)
<1>1. Len(w) \in Nat
  BY DEF IsList
<1> QED
  BY <1>1, IndexedIsList DEF GroupColumns

LEMMA QualifiedIsList ==
    ASSUME NEW r, NEW w, IsList(w)
    PROVE  IsList(Qualified(r, w))
<1>1. Len(w) \in Nat
  BY DEF IsList
<1>2. IsList([k \in 1..Len(w) |-> <<r>> \o w[k]])
  BY <1>1, IndexedIsList
<1> QED
  BY <1>2, Zenon DEF Qualified

\* Joining lists is associative, and names are taken one by one.
Associates(u, v, w) == (u \o v) \o w = u \o (v \o w)

LEMMA ListsAssociate ==
    ASSUME NEW u, IsList(u), NEW v, IsList(v), NEW w, IsList(w)
    PROVE  Associates(u, v, w)
<1>1. PICK R : u \in Seq(R)
  BY DEF IsList
<1>2. PICK S : v \in Seq(S)
  BY DEF IsList
<1>3. PICK T : w \in Seq(T)
  BY DEF IsList
<1>4. Len(u) \in Nat /\ Len(v) \in Nat /\ Len(w) \in Nat
  BY <1>1, <1>2, <1>3
<1> QED
  BY <1>1, <1>2, <1>3, <1>4 DEF Associates

LEMMA NamesOfConcat ==
    ASSUME NEW v, IsList(v), NEW w, IsList(w)
    PROVE  NamesOf(v \o w) = NamesOf(v) \o NamesOf(w)
<1>1. PICK S : v \in Seq(S)
  BY DEF IsList
<1>2. PICK T : w \in Seq(T)
  BY DEF IsList
<1>3. Len(v) \in Nat /\ Len(w) \in Nat
  BY <1>1, <1>2
<1> QED
  BY <1>1, <1>2, <1>3 DEF NamesOf

LEMMA AddedIsList ==
    ASSUME NEW s, IsList(s), NEW k, NEW v
    PROVE  IsList(AddOrReplace(s, k, v))
<1>1. PICK S : s \in Seq(S)
  BY DEF IsList
<1> DEFINE T == S \cup {v}
<1>2. v \in T /\ s \in Seq(T)
  <2>1. s = [i \in 1..Len(s) |-> s[i]] /\ Len(s) \in Nat /\ \A i \in 1..Len(s) : s[i] \in T
    BY <1>1
  <2> QED
    BY <2>1
<1> HIDE DEF T
<1>3. Append(s, v) \in Seq(T)
  BY <1>2
<1>4. [s EXCEPT ![k] = v] \in Seq(T)
  <2> DEFINE w == [s EXCEPT ![k] = v]
  <2>1. Len(s) \in Nat /\ DOMAIN s = 1..Len(s) /\ \A i \in 1..Len(s) : s[i] \in T
    BY <1>2
  <2>2. w \in [1..Len(s) -> T]
    BY <1>2, <2>1
  <2> HIDE DEF w
  <2> QED
    BY <2>1, <2>2 DEF w
<1> QED
  BY <1>3, <1>4 DEF AddOrReplace, IsList

\* Two lists are lists over one set.
LEMMA ListsShareASet ==
    ASSUME NEW u, IsList(u), NEW v, IsList(v)
    PROVE  \E S : u \in Seq(S) /\ v \in Seq(S)
<1>1. PICK R : u \in Seq(R)
  BY DEF IsList
<1>2. PICK T : v \in Seq(T)
  BY DEF IsList
<1> DEFINE S == R \cup T
<1>3. u \in Seq(S)
  <2>1. u = [i \in 1..Len(u) |-> u[i]] /\ Len(u) \in Nat /\ \A i \in 1..Len(u) : u[i] \in S
    BY <1>1
  <2> HIDE DEF S
  <2> QED
    BY <2>1
<1>4. v \in Seq(S)
  <2>1. v = [i \in 1..Len(v) |-> v[i]] /\ Len(v) \in Nat /\ \A i \in 1..Len(v) : v[i] \in S
    BY <1>2
  <2> HIDE DEF S
  <2> QED
    BY <2>1
<1> HIDE DEF S
<1> QED
  BY <1>3, <1>4

LEMMA ListsJoin ==
    ASSUME NEW v, IsList(v), NEW w, IsList(w)
    PROVE  /\ IsList(v \o w) /\ Len(v) \in Nat /\ Len(w) \in Nat
           /\ Len(v \o w) = Len(v) + Len(w)
           /\ \A k \in 1..Len(v) : (v \o w)[k] = v[k]
<1>1. PICK S : v \in Seq(S) /\ w \in Seq(S)
  BY ListsShareASet
<1>2. v \o w \in Seq(S)
  BY <1>1
<1>3. /\ Len(v) \in Nat /\ Len(w) \in Nat /\ Len(v \o w) = Len(v) + Len(w)
      /\ \A k \in 1..Len(v) : (v \o w)[k] = v[k]
  BY <1>1
<1> QED
  BY <1>2, <1>3 DEF IsList

LEMMA ListsAdd ==
    ASSUME NEW u, IsList(u), NEW v, IsList(v)
    PROVE  Len(u \o v) = Len(u) + Len(v) /\ Len(u) \in Nat /\ Len(v) \in Nat
<1>1. PICK S : u \in Seq(S)
  BY DEF IsList
<1>2. PICK T : v \in Seq(T)
  BY DEF IsList
<1> QED
  BY <1>1, <1>2

-----------------------------------------------------------------------------
(* Recursions over the positions of a list: what is computed of a position, *)
(* from what is computed of earlier ones.                                   *)

FlattenStep(lists, flat, i) == IF i = 1 THEN lists[i] ELSE flat[i - 1] \o lists[i]

KeptStep(ns, kept, i) == IF Erased(ns, i) THEN kept[ns[i].inputs[1]] ELSE i

PrefixStep(ns, prefix, i) ==
    LET groups == ns[i].payload.groups IN
    IF groups # <<>> THEN GroupColumns(groups)
    ELSE IF ns[i].kind = "Aggregate" THEN prefix[ns[i].inputs[1]]
    ELSE <<>>

NamesStep(ns, names, i) ==
    IF ns[i].kind # "Window" THEN {}
    ELSE {ns[i].payload.windows[k].name : k \in 1..Len(ns[i].payload.windows)}
         \cup names[Kept(ns)[ns[i].inputs[1]]]

ColumnsStep(ns, cols, i) == PlannedNode(ns, PrefixColumns(ns), cols, i)
LoweringStep(ns, rel, i) == LoweredNode(ns, PlannedColumns(ns), rel, i)

\* One instance of Recursion serves them all.
PositionStep(w, what, f, i) ==
    CASE what = "flat"    -> FlattenStep(w, f, i)
      [] what = "kept"    -> KeptStep(w, f, i)
      [] what = "prefix"  -> PrefixStep(w, f, i)
      [] what = "columns" -> ColumnsStep(w, f, i)
      [] what = "rel"     -> LoweringStep(w, f, i)
      [] what = "names"   -> NamesStep(w, f, i)

ByPosition == INSTANCE Recursion WITH Step <- PositionStep

LEMMA PositionSteps ==
    ASSUME NEW w, NEW f, NEW i
    PROVE  /\ PositionStep(w, "flat", f, i) = FlattenStep(w, f, i)
           /\ PositionStep(w, "kept", f, i) = KeptStep(w, f, i)
           /\ PositionStep(w, "prefix", f, i) = PrefixStep(w, f, i)
           /\ PositionStep(w, "columns", f, i) = ColumnsStep(w, f, i)
           /\ PositionStep(w, "rel", f, i) = LoweringStep(w, f, i)
           /\ PositionStep(w, "names", f, i) = NamesStep(w, f, i)
BY DEF PositionStep

\* A step that reads earlier positions only can be solved for.
ReadsBefore(w, what) ==
    \A i \in 1..Len(w) : \A g, h :
        (\A j \in 1..(i - 1) : g[j] = h[j])
            => PositionStep(w, what, g, i) = PositionStep(w, what, h, i)

LEMMA PositionSolution ==
    ASSUME NEW w, Len(w) \in Nat, NEW what, ReadsBefore(w, what)
    PROVE  \E f : f = [i \in 1..Len(w) |-> PositionStep(w, what, f, i)]
<1>1. \E f : ByPosition!Solves(w, what, 1..Len(w), f)
  BY ByPosition!SolutionByPosition DEF ReadsBefore
<1> QED
  BY <1>1, Zenon DEF ByPosition!Solves

-----------------------------------------------------------------------------
(* A projection adds or replaces one column after another.                 *)

ProjectStep(c, d, names, a) == AddOrReplace(names, Position(names, a.name), a.name)

Projecting == INSTANCE Recursion WITH Step <- ProjectStep

\* f[n] are the columns after the first n assignments.
ProjectsTo(cols, s, f) ==
    /\ DOMAIN f = 0..Len(s)
    /\ f[0] = cols
    /\ \A n \in 1..Len(s) : f[n] = ProjectStep(0, 0, f[n - 1], s[n])
    /\ f[Len(s)] = ProjectColumns(cols, s)

LEMMA ProjectFolds ==
    ASSUME NEW cols, NEW s
    PROVE  Projecting!Fold(0, 0, cols, s) = ProjectColumns(cols, s)
BY Zenon DEF Projecting!Fold, Projecting!MapThenFoldSet,
             Projecting!Max, ProjectColumns, FoldLeft, MapThenFoldSet, Max, ProjectStep

LEMMA ProjectSteps ==
    ASSUME NEW cols, NEW s, IsList(s)
    PROVE  \E f : ProjectsTo(cols, s, f)
<1>1. PICK S : s \in Seq(S)
  BY DEF IsList
<1>2. \E f : Projecting!FoldsAlong(0, 0, cols, s, f)
  BY <1>1, Projecting!FoldGoesAlong
<1> QED
  BY <1>2, ProjectFolds DEF ProjectsTo, Projecting!FoldsAlong

\* The columns after longer and longer beginnings of the assignments.
LEMMA ProjectPrefixes ==
    ASSUME NEW cols, NEW s, IsList(s)
    PROVE  /\ ProjectColumns(cols, <<>>) = cols
           /\ \A n \in 1..Len(s) :
                 ProjectColumns(cols, SubSeq(s, 1, n))
                     = ProjectStep(0, 0, ProjectColumns(cols, SubSeq(s, 1, n - 1)), s[n])
<1>1. PICK S : s \in Seq(S)
  BY DEF IsList
<1>2. Projecting!FoldsPrefixes(0, 0, cols, s)
  BY <1>1, Projecting!FoldPrefixes
<1> QED
  BY <1>2, ProjectFolds DEF Projecting!FoldsPrefixes

LEMMA ProjectedIsList ==
    ASSUME NEW cols, IsList(cols), NEW s, IsList(s)
    PROVE  IsList(ProjectColumns(cols, s))
<1>1. PICK f : ProjectsTo(cols, s, f)
  BY ProjectSteps
<1>2. Len(s) \in Nat
  BY DEF IsList
<1> DEFINE Bad == {n \in 0..Len(s) : ~IsList(f[n])}
<1> SUFFICES ASSUME Bad # {} PROVE FALSE
  BY <1>1, <1>2 DEF ProjectsTo
<1>3. Bad \in SUBSET Nat
  BY <1>2
<1> HIDE DEF Bad
<1>4. PICK n \in Bad : \A k \in Bad : n <= k
  BY <1>3, Projecting!LeastNumber
<1>5. n \in 0..Len(s) /\ ~IsList(f[n])
  BY <1>4 DEF Bad
<1>6. n # 0
  BY <1>1, <1>5 DEF ProjectsTo
<1>7. n \in 1..Len(s) /\ n - 1 \in 0..Len(s) /\ ~(n <= n - 1)
  BY <1>2, <1>5, <1>6
<1>8. IsList(f[n - 1])
  BY <1>4, <1>7 DEF Bad
<1>9. IsList(f[n])
  BY <1>1, <1>7, <1>8, AddedIsList DEF ProjectsTo, ProjectStep
<1> QED
  BY <1>5, <1>9

\* Projecting twice is projecting once with both lists of assignments.
LEMMA ProjectTwice ==
    ASSUME NEW cols, NEW a, IsList(a), NEW b, IsList(b)
    PROVE  ProjectColumns(ProjectColumns(cols, a), b) = ProjectColumns(cols, a \o b)
<1>1. PICK S : a \in Seq(S) /\ b \in Seq(S)
  BY ListsShareASet
<1>2. \A base, s : Projecting!Fold(0, 0, base, s) = ProjectColumns(base, s)
  BY ProjectFolds
<1>3. Projecting!Fold(0, 0, Projecting!Fold(0, 0, cols, a), b)
          = Projecting!Fold(0, 0, cols, a \o b)
  BY <1>1, Projecting!FoldTwice
<1> QED
  BY <1>2, <1>3

-----------------------------------------------------------------------------
(* How wide relations are.                                                 *)

\* Whether a relation lowered has n columns.
Wide(rel, n) ==
    /\ {"ok", "width"} \subseteq DOMAIN rel
    /\ rel.ok => rel.width = n

\* A relation made anew, of n columns, or Failed.
MadeWide(rel, n) ==
    \E rows : rel \in {Failed, [ok |-> TRUE, width |-> n, rows |-> rows]}

\* A relation whose rows alone are changed.
KeptWide(old, rel) == \E rows : rel = [old EXCEPT !.rows = rows]

LEMMA MadeIsWide ==
    ASSUME NEW rel, NEW n, MadeWide(rel, n)
    PROVE  Wide(rel, n)
BY DEF MadeWide, Wide, Failed

LEMMA KeptIsWide ==
    ASSUME NEW old, NEW rel, NEW n, Wide(old, n), KeptWide(old, rel)
    PROVE  Wide(rel, n)
BY DEF KeptWide, Wide

LEMMA RelationsMade ==
    ASSUME NEW rel, NEW cols, NEW s, NEW t
    PROVE  /\ KeptWide(rel, FilterRel(rel, cols, s)) \/ FilterRel(rel, cols, s) = Failed
           /\ MadeWide(ProjectRel(rel, cols, s), Len(ProjectColumns(cols, s)))
           /\ MadeWide(SelectProjectRel(rel, cols, s), Len(s))
           /\ MadeWide(AggregateRel(rel, cols, s, t), Len(s) + Len(t))
           /\ MadeWide(WindowRel(rel, cols, s), rel.width + Len(s))
           /\ KeptWide(rel, SortRel(rel, cols, s)) \/ SortRel(rel, cols, s) = Failed
           /\ KeptWide(rel, FetchRel(rel, s))
           /\ MadeWide(GeneratorRel(rel, cols, s), Len(cols \o s.columns))
<1>1. KeptWide(rel, FilterRel(rel, cols, s)) \/ FilterRel(rel, cols, s) = Failed
  BY Zenon DEF KeptWide, FilterRel
<1>2. MadeWide(ProjectRel(rel, cols, s), Len(ProjectColumns(cols, s)))
  BY Zenon DEF MadeWide, ProjectRel, EachRow
<1>3. MadeWide(SelectProjectRel(rel, cols, s), Len(s))
  BY Zenon DEF MadeWide, SelectProjectRel, EachRow
<1>4. MadeWide(AggregateRel(rel, cols, s, t), Len(s) + Len(t))
  BY Zenon DEF MadeWide, AggregateRel
<1>5. MadeWide(WindowRel(rel, cols, s), rel.width + Len(s))
  BY Zenon DEF MadeWide, WindowRel
<1>6. KeptWide(rel, SortRel(rel, cols, s)) \/ SortRel(rel, cols, s) = Failed
  BY Zenon DEF KeptWide, SortRel
<1>7. KeptWide(rel, FetchRel(rel, s))
  BY Zenon DEF KeptWide, FetchRel
<1>8. MadeWide(GeneratorRel(rel, cols, s), Len(cols \o s.columns))
  BY Zenon DEF MadeWide, GeneratorRel
<1> QED
  BY <1>1, <1>2, <1>3, <1>4, <1>5, <1>6, <1>7, <1>8, Zenon

LEMMA RefusedUnlessUsable ==
    ASSUME NEW rel, NEW cols, NEW s, ~Usable(rel, cols)
    PROVE  /\ FilterRel(rel, cols, s) = Failed
           /\ WindowRel(rel, cols, s) = Failed
           /\ SortRel(rel, cols, s) = Failed
BY Zenon DEF FilterRel, WindowRel, SortRel

LEMMA JoinMade ==
    ASSUME NEW l, NEW lc, NEW r, NEW rc, NEW p, NEW k
    PROVE  MadeWide(JoinRel(l, lc, r, rc, p, k), Len(lc \o rc))
BY Zenon DEF MadeWide, JoinRel

\* A relation that keeps its rows' columns is as wide as the one it reads.
LEMMA SameWidth ==
    ASSUME NEW rel, NEW n, Wide(rel, n), NEW new, KeptWide(rel, new) \/ new = Failed
    PROVE  Wide(new, n)
<1>1. CASE KeptWide(rel, new)
  BY <1>1, KeptIsWide
<1>2. CASE new = Failed
  <2>1. MadeWide(new, n)
    BY <1>2 DEF MadeWide
  <2> QED
    BY <2>1, MadeIsWide
<1> QED
  BY <1>1, <1>2

LEMMA WindowWidth ==
    ASSUME NEW rel, NEW cols, Wide(rel, Len(cols)), NEW s, Len(s) \in Nat
    PROVE  Wide(WindowRel(rel, cols, s), Len(cols) + Len(s))
<1>1. CASE Usable(rel, cols)
  <2>1. MadeWide(WindowRel(rel, cols, s), Len(cols) + Len(s))
    BY <1>1, RelationsMade DEF Usable
  <2> QED
    BY <2>1, MadeIsWide
<1>2. CASE ~Usable(rel, cols)
  <2>1. WindowRel(rel, cols, s) = Failed
    BY <1>2, RefusedUnlessUsable
  <2>2. MadeWide(WindowRel(rel, cols, s), Len(cols) + Len(s))
    BY <2>1 DEF MadeWide
  <2> QED
    BY <2>2, MadeIsWide
<1> QED
  BY <1>1, <1>2

-----------------------------------------------------------------------------
(* Fewer rows from fewer rows.                                             *)

\* A record with the fields of a relation.
HasFields(r) == {"ok", "width", "rows"} \subseteq DOMAIN r

\* r fails only where s does, and returns no rows that s may not return.
Refines(r, s) == s.ok => r.ok /\ r.width = s.width /\ r.rows \subseteq s.rows

LEMMA RefinesItself ==
    ASSUME NEW r
    PROVE  Refines(r, r)
BY DEF Refines

LEMMA RefinesTransitively ==
    ASSUME NEW r, NEW s, NEW t, Refines(r, s), Refines(s, t)
    PROVE  Refines(r, t)
BY DEF Refines

LEMMA FailedIsRefined ==
    ASSUME NEW r
    PROVE  Refines(r, Failed)
BY DEF Refines, Failed

LEMMA UsableRefined ==
    ASSUME NEW r, NEW s, NEW cols, Refines(r, s), Usable(s, cols)
    PROVE  /\ Usable(r, cols) /\ r.ok /\ s.ok
           /\ r.rows \subseteq s.rows /\ r.width = s.width
BY DEF Refines, Usable

LEMMA FilterRefines ==
    ASSUME NEW r, NEW s, HasFields(r), HasFields(s), Refines(r, s), NEW cols, NEW p
    PROVE  Refines(FilterRel(r, cols, p), FilterRel(s, cols, p))
<1>1. CASE Usable(s, cols) /\ Resolves(p, cols)
  <2>1. Usable(r, cols) /\ r.ok /\ s.ok /\ r.rows \subseteq s.rows /\ r.width = s.width
    BY <1>1, UsableRefined
  <2> DEFINE new(u) == [u EXCEPT !.rows = {Satisfying(p, cols, t) : t \in u.rows}]
  <2>2. FilterRel(r, cols, p) = new(r) /\ FilterRel(s, cols, p) = new(s)
    BY <1>1, <2>1, Zenon DEF FilterRel
  <2>3. Refines(new(r), new(s))
    BY <2>1 DEF Refines, HasFields
  <2> QED
    BY <2>2, <2>3, Zenon
<1>2. CASE ~(Usable(s, cols) /\ Resolves(p, cols))
  <2>1. FilterRel(s, cols, p) = Failed
    BY <1>2, Zenon DEF FilterRel
  <2> QED
    BY <2>1, FailedIsRefined
<1> QED
  BY <1>1, <1>2

LEMMA ProjectRefines ==
    ASSUME NEW r, NEW s, Refines(r, s), NEW cols, NEW a
    PROVE  Refines(ProjectRel(r, cols, a), ProjectRel(s, cols, a))
<1> DEFINE Fits == AssignmentsResolve(cols, a)
<1>1. CASE Usable(s, cols) /\ Fits
  <2>1. Usable(r, cols) /\ r.ok /\ s.ok /\ r.rows \subseteq s.rows /\ r.width = s.width
    BY <1>1, UsableRefined
  <2> DEFINE new(u) == 
    EachRow(u, Len(ProjectColumns(cols, a)), LAMBDA row : Bound(cols, row, a).row)
  <2>2. ProjectRel(r, cols, a) = new(r) /\ ProjectRel(s, cols, a) = new(s)
    BY <1>1, <2>1, Zenon DEF ProjectRel
  <2>3. Refines(new(r), new(s))
    BY <2>1 DEF Refines, EachRow
  <2> QED
    BY <2>2, <2>3, Zenon
<1>2. CASE ~(Usable(s, cols) /\ Fits)
  <2>1. ProjectRel(s, cols, a) = Failed
    BY <1>2, Zenon DEF ProjectRel
  <2> QED
    BY <2>1, FailedIsRefined
<1> QED
  BY <1>1, <1>2

LEMMA SelectProjectRefines ==
    ASSUME NEW r, NEW s, Refines(r, s), NEW cols, NEW a
    PROVE  Refines(SelectProjectRel(r, cols, a), SelectProjectRel(s, cols, a))
<1> DEFINE Fits == AssignmentsResolve(cols, a)
<1>1. CASE Usable(s, cols) /\ Fits
  <2>1. Usable(r, cols) /\ r.ok /\ s.ok /\ r.rows \subseteq s.rows /\ r.width = s.width
    BY <1>1, UsableRefined
  <2> DEFINE new(u) == 
    EachRow(u, Len(a), LAMBDA row : Bound(cols, row, a).out)
  <2>2. SelectProjectRel(r, cols, a) = new(r) /\ SelectProjectRel(s, cols, a) = new(s)
    BY <1>1, <2>1, Zenon DEF SelectProjectRel
  <2>3. Refines(new(r), new(s))
    BY <2>1 DEF Refines, EachRow
  <2> QED
    BY <2>2, <2>3, Zenon
<1>2. CASE ~(Usable(s, cols) /\ Fits)
  <2>1. SelectProjectRel(s, cols, a) = Failed
    BY <1>2, Zenon DEF SelectProjectRel
  <2> QED
    BY <2>1, FailedIsRefined
<1> QED
  BY <1>1, <1>2

\* What AggregateRel makes of one list of rows.
GroupedRows(cols, groups, ms, s) ==
    LET Keys == IF groups = <<>> THEN {<<>>}
                ELSE {Values(groups, cols, s[k]) : k \in 1..Len(s)}
        Out(key) ==
            key \o [m \in 1..Len(ms) |->
                        Measured(ms[m], cols, s, SameValues(groups, cols, s, key))]
    IN  {[k \in 1..Len(keys) |-> Out(keys[k])] : keys \in SetToSeqs(Keys)}

LEMMA AggregateRefines ==
    ASSUME NEW r, NEW s, Refines(r, s), NEW cols, NEW groups, NEW ms
    PROVE  Refines(AggregateRel(r, cols, groups, ms), AggregateRel(s, cols, groups, ms))
<1> DEFINE Fits == AllResolve(groups, cols) /\ MeasuresResolve(ms, cols)
<1>1. CASE Usable(s, cols) /\ Fits
  <2>1. Usable(r, cols) /\ r.ok /\ s.ok /\ r.rows \subseteq s.rows /\ r.width = s.width
    BY <1>1, UsableRefined
  <2> DEFINE new(u) == 
    [ok |-> TRUE, width |-> Len(groups) + Len(ms),
     rows |-> UNION {GroupedRows(cols, groups, ms, t) : t \in u.rows}]
  <2>2. AggregateRel(r, cols, groups, ms) = new(r) /\ AggregateRel(s, cols, groups, ms) = new(s)
    BY <1>1, <2>1, Zenon DEF AggregateRel, GroupedRows
  <2>3. Refines(new(r), new(s))
    BY <2>1 DEF Refines
  <2> QED
    BY <2>2, <2>3, Zenon
<1>2. CASE ~(Usable(s, cols) /\ Fits)
  <2>1. AggregateRel(s, cols, groups, ms) = Failed
    BY <1>2, Zenon DEF AggregateRel, GroupedRows
  <2> QED
    BY <2>1, FailedIsRefined
<1> QED
  BY <1>1, <1>2

\* What WindowRel makes of one list of rows.
WindowedRows(cols, ws, s) ==
    [k \in 1..Len(s) |->
        s[k] \o [w \in 1..Len(ws) |->
                    Measured(ws[w], cols, s,
                             SameValues(ws[1].spec, cols, s, Values(ws[1].spec, cols, s[k])))]]

LEMMA WindowRefines ==
    ASSUME NEW r, NEW s, Refines(r, s), NEW cols, NEW ws
    PROVE  Refines(WindowRel(r, cols, ws), WindowRel(s, cols, ws))
<1> DEFINE Fits == /\ \A k \in 1..Len(ws) : ws[k].spec = ws[1].spec
                  /\ AllResolve(ws[1].spec, cols) /\ MeasuresResolve(ws, cols)
<1>1. CASE Usable(s, cols) /\ Fits
  <2>1. Usable(r, cols) /\ r.ok /\ s.ok /\ r.rows \subseteq s.rows /\ r.width = s.width
    BY <1>1, UsableRefined
  <2> DEFINE new(u) == 
    [ok |-> TRUE, width |-> u.width + Len(ws),
     rows |-> {WindowedRows(cols, ws, t) : t \in u.rows}]
  <2>2. WindowRel(r, cols, ws) = new(r) /\ WindowRel(s, cols, ws) = new(s)
    BY <1>1, <2>1, Zenon DEF WindowRel, WindowedRows
  <2>3. Refines(new(r), new(s))
    BY <2>1 DEF Refines
  <2> QED
    BY <2>2, <2>3, Zenon
<1>2. CASE ~(Usable(s, cols) /\ Fits)
  <2>1. WindowRel(s, cols, ws) = Failed
    BY <1>2, Zenon DEF WindowRel, WindowedRows
  <2> QED
    BY <2>1, FailedIsRefined
<1> QED
  BY <1>1, <1>2

LEMMA SortRefines ==
    ASSUME NEW r, NEW s, HasFields(r), HasFields(s), Refines(r, s), NEW cols, NEW sorts
    PROVE  Refines(SortRel(r, cols, sorts), SortRel(s, cols, sorts))
<1> DEFINE Fits == sorts # <<>> /\ AllResolve(sorts, cols)
<1>1. CASE Usable(s, cols) /\ Fits
  <2>1. Usable(r, cols) /\ r.ok /\ s.ok /\ r.rows \subseteq s.rows /\ r.width = s.width
    BY <1>1, UsableRefined
  <2> DEFINE new(u) == 
    [u EXCEPT !.rows = {t \in UNION {Rearranged(w) : w \in u.rows} : InOrder(sorts, cols, t)}]
  <2>2. SortRel(r, cols, sorts) = new(r) /\ SortRel(s, cols, sorts) = new(s)
    BY <1>1, <2>1, Zenon DEF SortRel
  <2>3. Refines(new(r), new(s))
    BY <2>1 DEF Refines, HasFields
  <2> QED
    BY <2>2, <2>3, Zenon
<1>2. CASE ~(Usable(s, cols) /\ Fits)
  <2>1. SortRel(s, cols, sorts) = Failed
    BY <1>2, Zenon DEF SortRel
  <2> QED
    BY <2>1, FailedIsRefined
<1> QED
  BY <1>1, <1>2

LEMMA FetchRefines ==
    ASSUME NEW r, NEW s, HasFields(r), HasFields(s), Refines(r, s), NEW n
    PROVE  Refines(FetchRel(r, n), FetchRel(s, n))
BY DEF Refines, HasFields, FetchRel

\* What GeneratorRel makes of one list of rows.
ExplodedRows(cols, g, s) ==
    FlattenSeq([k \in 1..Len(s) |->
                   [e \in 1..Len(g.elements) |-> Append(s[k], Value(g.elements[e], cols, s[k]))]])

LEMMA GeneratorRefines ==
    ASSUME NEW r, NEW s, Refines(r, s), NEW cols, NEW g
    PROVE  Refines(GeneratorRel(r, cols, g), GeneratorRel(s, cols, g))
<1> DEFINE Fits == /\ \A j \in (Len(cols) + 1)..Len(cols \o g.columns) :
                        \A k \in 1..(j - 1) : (cols \o g.columns)[k] # (cols \o g.columns)[j]
                  /\ AllResolve(g.elements, cols)
<1>1. CASE Usable(s, cols) /\ Fits
  <2>1. Usable(r, cols) /\ r.ok /\ s.ok /\ r.rows \subseteq s.rows /\ r.width = s.width
    BY <1>1, UsableRefined
  <2> DEFINE new(u) == 
    [ok |-> TRUE, width |-> Len(cols \o g.columns),
     rows |-> {ExplodedRows(cols, g, t) : t \in u.rows}]
  <2>2. GeneratorRel(r, cols, g) = new(r) /\ GeneratorRel(s, cols, g) = new(s)
    BY <1>1, <2>1, Zenon DEF GeneratorRel, ExplodedRows
  <2>3. Refines(new(r), new(s))
    BY <2>1 DEF Refines
  <2> QED
    BY <2>2, <2>3, Zenon
<1>2. CASE ~(Usable(s, cols) /\ Fits)
  <2>1. GeneratorRel(s, cols, g) = Failed
    BY <1>2, Zenon DEF GeneratorRel, ExplodedRows
  <2> QED
    BY <2>1, FailedIsRefined
<1> QED
  BY <1>1, <1>2

\* What JoinRel makes of a left row and of two lists of rows.
MatchedRows(cols, pad, predicate, joinKind, l, t) ==
    LET pairs == Satisfying(predicate, cols, [k \in 1..Len(t) |-> l \o t[k]]) IN
    IF joinKind = "left" /\ pairs = <<>> THEN <<l \o [k \in 1..pad |-> Null]>> ELSE pairs

JoinedRows(cols, pad, predicate, joinKind, s, t) ==
    FlattenSeq([k \in 1..Len(s) |-> MatchedRows(cols, pad, predicate, joinKind, s[k], t)])

LEMMA JoinRefines ==
    ASSUME NEW l, NEW m, Refines(l, m), NEW lc, NEW r, NEW s, Refines(r, s), NEW rc, NEW p, NEW k
    PROVE  Refines(JoinRel(l, lc, r, rc, p, k), JoinRel(m, lc, s, rc, p, k))
<1> DEFINE Fits == Resolves(p, lc \o rc)
<1>1. CASE Usable(m, lc) /\ Usable(s, rc) /\ Fits
  <2>1. /\ Usable(l, lc) /\ Usable(r, rc)
        /\ l.rows \subseteq m.rows /\ r.rows \subseteq s.rows
    BY <1>1, UsableRefined
  <2> DEFINE new(u, v) ==
        [ok |-> TRUE, width |-> Len(lc \o rc),
         rows |-> UNION {{JoinedRows(lc \o rc, Len(rc), p, k, w, t) : w \in u.rows} : t \in v.rows}]
  <2>2. JoinRel(l, lc, r, rc, p, k) = new(l, r) /\ JoinRel(m, lc, s, rc, p, k) = new(m, s)
    BY <1>1, <2>1, Zenon DEF JoinRel, JoinedRows, MatchedRows
  <2>3. Refines(new(l, r), new(m, s))
    BY <2>1 DEF Refines
  <2> QED
    BY <2>2, <2>3, Zenon
<1>2. CASE ~(Usable(m, lc) /\ Usable(s, rc) /\ Fits)
  <2>1. JoinRel(m, lc, s, rc, p, k) = Failed
    BY <1>2, Zenon DEF JoinRel
  <2> QED
    BY <2>1, FailedIsRefined
<1> QED
  BY <1>1, <1>2

-----------------------------------------------------------------------------
(* Expressions.                                                            *)

\* k is the first place of a name.
FirstAt(cols, name, k) ==
    k \in 1..Len(cols) /\ cols[k] = name /\ \A j \in 1..(k - 1) : cols[j] # name

LEMMA PositionIs ==
    ASSUME NEW cols, Len(cols) \in Nat, NEW name
    PROVE  /\ Position(cols, name) \in 0..Len(cols)
           /\ Position(cols, name) # 0 => FirstAt(cols, name, Position(cols, name))
           /\ Position(cols, name) = 0 => \A j \in 1..Len(cols) : cols[j] # name
<1> DEFINE I == {i \in 1..Len(cols) : cols[i] = name}
<1>1. Position(cols, name) = IF I # {} THEN Min(I) ELSE 0
  BY Zenon DEF Position, SelectInSeq
<1>2. I \in SUBSET Nat
  OBVIOUS
<1>3. CASE I = {}
  BY <1>1, <1>3
<1>4. CASE I # {}
  <2> HIDE DEF I
  <2>1. PICK m \in I : \A x \in I : m <= x
    BY <1>2, <1>4, Projecting!LeastNumber
  <2>2. \A y \in I : (\A x \in I : y <= x) => y = m
    BY <1>2, <2>1
  <2>3. Min(I) = m
    BY <2>1, <2>2 DEF Min
  <2>4. FirstAt(cols, name, m)
    BY <1>2, <2>1 DEF I, FirstAt
  <2> QED
    BY <1>1, <1>4, <2>3, <2>4 DEF FirstAt
<1> QED
  BY <1>3, <1>4

LEMMA PositionAt ==
    ASSUME NEW cols, Len(cols) \in Nat, NEW name, NEW k, FirstAt(cols, name, k)
    PROVE  Position(cols, name) = k
<1> DEFINE p == Position(cols, name)
<1>1. /\ p \in 0..Len(cols)
      /\ p # 0 => FirstAt(cols, name, p)
      /\ p = 0 => \A j \in 1..Len(cols) : cols[j] # name
  BY PositionIs
<1> HIDE DEF p
<1>2. p = k
  BY <1>1 DEF FirstAt
<1> QED
  BY <1>2 DEF p

LEMMA PositionAppended ==
    ASSUME NEW u, IsList(u), NEW v, IsList(v), NEW name,
           Position(u, name) # 0 \/ \A j \in 1..Len(v) : v[j] # name
    PROVE  Position(u \o v, name) = Position(u, name)
<1> DEFINE p == Position(u, name)
           q == Position(u \o v, name)
<1>1. /\ Len(u) \in Nat /\ Len(v) \in Nat /\ Len(u \o v) = Len(u) + Len(v)
      /\ Len(u \o v) \in Nat
      /\ \A j \in 1..Len(u) : (u \o v)[j] = u[j]
      /\ \A j \in (Len(u) + 1)..(Len(u) + Len(v)) : (u \o v)[j] = v[j - Len(u)]
  BY DEF IsList
<1>2. /\ p \in 0..Len(u)
      /\ p # 0 => FirstAt(u, name, p)
      /\ p = 0 => \A j \in 1..Len(u) : u[j] # name
  BY <1>1, PositionIs
<1>3. p # 0 => FirstAt(u \o v, name, p)
  BY <1>1, <1>2 DEF FirstAt
<1>4. CASE p # 0
  <2> HIDE DEF p
  <2>1. Position(u \o v, name) = p
    BY <1>1, <1>3, <1>4, PositionAt
  <2> QED
    BY <2>1 DEF p
<1>5. CASE p = 0
  <2>1. /\ q \in 0..Len(u \o v)
        /\ q # 0 => FirstAt(u \o v, name, q)
    BY <1>1, PositionIs
  <2> HIDE DEF p, q
  <2>2. \A j \in 1..Len(v) : v[j] # name
    BY <1>5 DEF p
  <2>3. q = 0
    BY <1>1, <1>2, <1>5, <2>1, <2>2 DEF FirstAt
  <2> QED
    BY <1>5, <2>3 DEF p, q
<1> QED
  BY <1>4, <1>5

LEMMA ValueIsNumber ==
    ASSUME NEW e, Numeric(e), NEW cols, Resolves(e, cols), Len(cols) \in Nat,
           NEW row \in [1..Len(cols) -> Int]
    PROVE  Value(e, cols, row) \in Int
<1> DEFINE p == Position(cols, e.name)
<1>1. p \in 0..Len(cols) /\ (e.op \in {"true", "literal"} \/ p # 0)
  BY PositionIs DEF Resolves
<1>2. CASE e.op \in {"true", "literal"}
  BY <1>2 DEF Value, Numeric
<1>3. CASE e.op \notin {"true", "literal"}
  <2>1. p \in 1..Len(cols) /\ row[p] \in Int
    BY <1>1, <1>3
  <2> QED
    BY <1>3, <2>1 DEF Value, Numeric
<1> QED
  BY <1>2, <1>3

\* An expression that the columns of a row resolve has the same value in a wider row.
LEMMA ValueAppended ==
    ASSUME NEW e, Numeric(e), NEW cols, IsList(cols), NEW more, IsList(more),
           NEW row, IsList(row), NEW extra, IsList(extra), Len(row) = Len(cols),
           Resolves(e, cols)
    PROVE  Value(e, cols \o more, row \o extra) = Value(e, cols, row)
<1> DEFINE p == Position(cols, e.name)
<1>1. CASE e.op \in {"true", "literal"}
  BY <1>1 DEF Value
<1>2. CASE e.op \notin {"true", "literal"}
  <2>1. p # 0
    BY <1>2 DEF Resolves
  <2>2. Position(cols \o more, e.name) = p
    BY <2>1, PositionAppended
  <2>3. p \in 1..Len(cols)
    BY <2>1, PositionIs DEF IsList
  <2> HIDE DEF p
  <2>4. (row \o extra)[p] = row[p]
    BY <2>3 DEF IsList
  <2> QED
    BY <1>2, <2>2, <2>4 DEF Value, Numeric, p
<1> QED
  BY <1>1, <1>2

\* Columns that an expression does not read do not help to resolve it.
LEMMA ResolvesAppended ==
    ASSUME NEW e, NEW cols, IsList(cols), NEW more, IsList(more),
           \/ Resolves(e, cols)
           \/ Resolves(e, cols \o more) /\ \A j \in 1..Len(more) : more[j] # e.name
    PROVE  Resolves(e, cols) /\ Resolves(e, cols \o more)
BY PositionAppended DEF Resolves

-----------------------------------------------------------------------------
(* Filters.                                                                *)

SatisfyStep(predicate, cols, kept, row) ==
    IF Value(predicate, cols, row) # 0 THEN Append(kept, row) ELSE kept

Sifting == INSTANCE Recursion WITH Step <- SatisfyStep

LEMMA SatisfyingFolds ==
    ASSUME NEW p, NEW cols, NEW s
    PROVE  Sifting!Fold(p, cols, <<>>, s) = Satisfying(p, cols, s)
BY Zenon DEF Sifting!Fold, Sifting!MapThenFoldSet,
             Sifting!Max, Satisfying, FoldLeft, MapThenFoldSet, Max, SatisfyStep

\* The rows satisfied among longer and longer beginnings of a list.
Sifts(p, cols, s) ==
    /\ Satisfying(p, cols, SubSeq(s, 1, 0)) = <<>>
    /\ SubSeq(s, 1, 0) = <<>> /\ SubSeq(s, 1, Len(s)) = s
    /\ \A n \in 1..Len(s) :
          Satisfying(p, cols, SubSeq(s, 1, n))
              = SatisfyStep(p, cols, Satisfying(p, cols, SubSeq(s, 1, n - 1)), s[n])

LEMMA SatisfyingPrefixes ==
    ASSUME NEW p, NEW cols, NEW S, NEW s \in Seq(S)
    PROVE  Sifts(p, cols, s)
<1>1. s \in Seq(S)
  OBVIOUS
<1>2. Sifting!FoldsPrefixes(p, cols, <<>>, s)
  BY <1>1, Sifting!FoldPrefixes
<1>3. \A t : Sifting!Fold(p, cols, <<>>, t) = Satisfying(p, cols, t)
  BY SatisfyingFolds
<1>4. /\ Satisfying(p, cols, <<>>) = <<>>
      /\ \A n \in 1..Len(s) :
            Satisfying(p, cols, SubSeq(s, 1, n))
                = SatisfyStep(p, cols, Satisfying(p, cols, SubSeq(s, 1, n - 1)), s[n])
      /\ SubSeq(s, 1, 0) = <<>> /\ SubSeq(s, 1, Len(s)) = s
  BY <1>2, <1>3 DEF Sifting!FoldsPrefixes
<1> QED
  BY <1>4 DEF Sifts

\* A filter returns rows of its input.
LEMMA SatisfyingKeeps ==
    ASSUME NEW p, NEW cols, NEW S, NEW s \in Seq(S)
    PROVE  Satisfying(p, cols, s) \in Seq(S)
<1> DEFINE G == {n \in 0..Len(s) : Satisfying(p, cols, SubSeq(s, 1, n)) \in Seq(S)}
<1>0. Sifts(p, cols, s) /\ Len(s) \in Nat /\ 0 \in 0..Len(s) /\ Len(s) \in 0..Len(s)
  BY SatisfyingPrefixes
<1>1. 0 \in G
  <2>1. <<>> \in Seq(S)
    OBVIOUS
  <2> QED
    BY <1>0, <2>1 DEF Sifts
<1>2. ASSUME NEW n \in 1..Len(s), n - 1 \in G
      PROVE  n \in G
  <2> DEFINE kept == Satisfying(p, cols, SubSeq(s, 1, n - 1))
  <2>1. Satisfying(p, cols, SubSeq(s, 1, n)) = SatisfyStep(p, cols, kept, s[n])
    BY <1>0 DEF Sifts
  <2>2. kept \in Seq(S) /\ s[n] \in S
    BY <1>2
  <2> HIDE DEF kept
  <2>3. SatisfyStep(p, cols, kept, s[n]) \in Seq(S)
    BY <2>2 DEF SatisfyStep
  <2> QED
    BY <2>1, <2>3
<1> HIDE DEF G
<1>3. Len(s) \in G
  BY <1>0, <1>1, <1>2, Sifting!CountingUp
<1> QED
  BY <1>0, <1>3 DEF G, Sifts

\* A filter on true returns them all.
LEMMA TrueSatisfiesAll ==
    ASSUME NEW p, p.op = "true", NEW cols, NEW S, NEW s \in Seq(S)
    PROVE  Satisfying(p, cols, s) = s
<1> DEFINE G == {n \in 0..Len(s) : Satisfying(p, cols, SubSeq(s, 1, n)) = SubSeq(s, 1, n)}
<1>0. Sifts(p, cols, s) /\ Len(s) \in Nat /\ 0 \in 0..Len(s) /\ Len(s) \in 0..Len(s)
  BY SatisfyingPrefixes
<1>1. 0 \in G
  BY <1>0 DEF Sifts
<1>2. ASSUME NEW n \in 1..Len(s), n - 1 \in G
      PROVE  n \in G
  <2> DEFINE kept == Satisfying(p, cols, SubSeq(s, 1, n - 1))
  <2>1. Satisfying(p, cols, SubSeq(s, 1, n)) = SatisfyStep(p, cols, kept, s[n])
    BY <1>0 DEF Sifts
  <2>2. kept = SubSeq(s, 1, n - 1)
    BY <1>2
  <2>3. Value(p, cols, s[n]) = 1
    BY DEF Value
  <2>4. SatisfyStep(p, cols, kept, s[n]) = Append(kept, s[n])
    BY <2>3 DEF SatisfyStep
  <2>5. Append(SubSeq(s, 1, n - 1), s[n]) = SubSeq(s, 1, n)
    OBVIOUS
  <2> QED
    BY <2>1, <2>2, <2>4, <2>5
<1> HIDE DEF G
<1>3. Len(s) \in G
  BY <1>0, <1>1, <1>2, Sifting!CountingUp
<1> QED
  BY <1>0, <1>3 DEF G, Sifts

-----------------------------------------------------------------------------
(* Relations of numbers.                                                   *)

\* Lists of rows of n numbers.
RowLists(n) == Seq([1..n -> Int])

IsRelation(r) ==
    /\ HasFields(r)
    /\ r.ok => r.width \in Nat /\ r.rows \subseteq RowLists(r.width)

LEMMA FailedIsRelation == IsRelation(Failed)
BY DEF IsRelation, HasFields, Failed

LEMMA FilterTyped ==
    ASSUME NEW r, IsRelation(r), NEW cols, NEW p
    PROVE  IsRelation(FilterRel(r, cols, p))
<1>1. CASE Usable(r, cols) /\ Resolves(p, cols)
  <2> DEFINE new == [r EXCEPT !.rows = {Satisfying(p, cols, s) : s \in r.rows}]
  <2>1. FilterRel(r, cols, p) = new
    BY <1>1, Zenon DEF FilterRel
  <2>2. r.ok
    BY <1>1 DEF Usable
  <2>3. \A s \in r.rows : Satisfying(p, cols, s) \in RowLists(r.width)
    BY <2>2, SatisfyingKeeps DEF IsRelation, RowLists
  <2>4. IsRelation(new)
    BY <2>2, <2>3 DEF IsRelation, HasFields
  <2> QED
    BY <2>1, <2>4
<1>2. CASE ~(Usable(r, cols) /\ Resolves(p, cols))
  <2>1. FilterRel(r, cols, p) = Failed
    BY <1>2, Zenon DEF FilterRel
  <2> QED
    BY <2>1, FailedIsRelation
<1> QED
  BY <1>1, <1>2

\* Without a filter on true there are no other rows than with it.
LEMMA FilterTrueRefined ==
    ASSUME NEW r, IsRelation(r), NEW cols, NEW p, p.op = "true"
    PROVE  Refines(r, FilterRel(r, cols, p))
<1>1. CASE Usable(r, cols) /\ Resolves(p, cols)
  <2> DEFINE new == [r EXCEPT !.rows = {Satisfying(p, cols, s) : s \in r.rows}]
  <2>1. FilterRel(r, cols, p) = new
    BY <1>1, Zenon DEF FilterRel
  <2>2. r.ok
    BY <1>1 DEF Usable
  <2>3. \A s \in r.rows : Satisfying(p, cols, s) = s
    BY <2>2, TrueSatisfiesAll DEF IsRelation, RowLists
  <2>4. Refines(r, new)
    BY <2>2, <2>3 DEF IsRelation, HasFields, Refines
  <2> QED
    BY <2>1, <2>4
<1>2. CASE ~(Usable(r, cols) /\ Resolves(p, cols))
  <2>1. FilterRel(r, cols, p) = Failed
    BY <1>2, Zenon DEF FilterRel
  <2> QED
    BY <2>1, FailedIsRefined
<1> QED
  BY <1>1, <1>2

-----------------------------------------------------------------------------
(* Projections.                                                            *)

BindStep(c, d, b, a) == Bind(b, a)

Binding == INSTANCE Recursion WITH Step <- BindStep

LEMMA BoundFolds ==
    ASSUME NEW cols, NEW row, NEW s
    PROVE  Binding!Fold(0, 0, [cols |-> cols, row |-> row, out |-> <<>>], s) = Bound(cols, row, s)
BY Zenon DEF Binding!Fold, Binding!MapThenFoldSet,
             Binding!Max, Bound, FoldLeft, MapThenFoldSet, Max, BindStep

\* What longer and longer beginnings of the assignments bind.
Binds(cols, row, s) ==
    /\ Bound(cols, row, SubSeq(s, 1, 0)) = [cols |-> cols, row |-> row, out |-> <<>>]
    /\ SubSeq(s, 1, 0) = <<>> /\ SubSeq(s, 1, Len(s)) = s
    /\ \A n \in 1..Len(s) :
          Bound(cols, row, SubSeq(s, 1, n)) = Bind(Bound(cols, row, SubSeq(s, 1, n - 1)), s[n])

LEMMA BoundPrefixes ==
    ASSUME NEW cols, NEW row, NEW s, IsList(s)
    PROVE  Binds(cols, row, s)
<1> DEFINE base == [cols |-> cols, row |-> row, out |-> <<>>]
<1>1. PICK S : s \in Seq(S)
  BY DEF IsList
<1>2. \A t : Binding!Fold(0, 0, base, t) = Bound(cols, row, t)
  BY BoundFolds
<1> HIDE DEF base
<1>3. Binding!FoldsPrefixes(0, 0, base, s)
  BY <1>1, Binding!FoldPrefixes
<1>4. /\ Bound(cols, row, <<>>) = base
      /\ \A n \in 1..Len(s) :
            Bound(cols, row, SubSeq(s, 1, n)) = Bind(Bound(cols, row, SubSeq(s, 1, n - 1)), s[n])
      /\ SubSeq(s, 1, 0) = <<>> /\ SubSeq(s, 1, Len(s)) = s
  BY <1>2, <1>3 DEF Binding!FoldsPrefixes, BindStep
<1> QED
  BY <1>4 DEF Binds, base

\* A binding of rows of numbers.
IsBinding(b, n) ==
    /\ IsList(b.cols)
    /\ b.row \in [1..Len(b.cols) -> Int]
    /\ b.out \in [1..n -> Int]

LEMMA ListIsFunction ==
    ASSUME NEW S, NEW w \in Seq(S), NEW n, Len(w) = n
    PROVE  w \in [1..n -> S]
OBVIOUS

LEMMA AddOrReplaceLength ==
    ASSUME NEW w, IsList(w), NEW k \in 0..Len(w), NEW v
    PROVE  Len(AddOrReplace(w, k, v)) = IF k = 0 THEN Len(w) + 1 ELSE Len(w)
<1>1. PICK S : w \in Seq(S)
  BY DEF IsList
<1>2. CASE k = 0
  BY <1>1, <1>2 DEF AddOrReplace
<1>3. CASE k # 0
  BY <1>1, <1>3 DEF AddOrReplace
<1> QED
  BY <1>2, <1>3

LEMMA AddOrReplaceNumber ==
    ASSUME NEW n \in Nat, NEW row \in [1..n -> Int], NEW k \in 0..n, NEW v \in Int
    PROVE  AddOrReplace(row, k, v) \in [1..(IF k = 0 THEN n + 1 ELSE n) -> Int]
<1>1. row \in Seq(Int) /\ Len(row) = n
  OBVIOUS
<1>2. CASE k = 0
  <2>1. Append(row, v) \in Seq(Int) /\ Len(Append(row, v)) = n + 1
    BY <1>1
  <2>2. Append(row, v) \in [1..(n + 1) -> Int]
    BY <2>1, ListIsFunction
  <2> QED
    BY <1>2, <2>2 DEF AddOrReplace
<1>3. CASE k # 0
  BY <1>3 DEF AddOrReplace
<1> QED
  BY <1>2, <1>3

LEMMA BindTyped ==
    ASSUME NEW n \in Nat, NEW b, IsBinding(b, n), NEW a, Numeric(a.expr),
           Resolves(a.expr, b.cols)
    PROVE  /\ IsBinding(Bind(b, a), n + 1)
           /\ Bind(b, a).cols = ProjectStep(0, 0, b.cols, a)
<1> DEFINE k == Position(b.cols, a.name)
           v == Value(a.expr, b.cols, b.row)
<1>1. Len(b.cols) \in Nat
  BY DEF IsBinding, IsList
<1>2. k \in 0..Len(b.cols)
  BY <1>1, PositionIs
<1>3. v \in Int
  BY <1>1, ValueIsNumber DEF IsBinding
<1>4. Bind(b, a) = [cols |-> AddOrReplace(b.cols, k, a.name),
                    row |-> AddOrReplace(b.row, k, v), out |-> Append(b.out, v)]
  BY Zenon DEF Bind
<1>5. AddOrReplace(b.cols, k, a.name) = ProjectStep(0, 0, b.cols, a)
  BY Zenon DEF ProjectStep
<1> HIDE DEF k, v
<1>6. IsList(AddOrReplace(b.cols, k, a.name))
  BY AddedIsList DEF IsBinding
<1>7. Len(AddOrReplace(b.cols, k, a.name)) = IF k = 0 THEN Len(b.cols) + 1 ELSE Len(b.cols)
  BY <1>2, AddOrReplaceLength DEF IsBinding
<1>8. AddOrReplace(b.row, k, v) \in [1..Len(AddOrReplace(b.cols, k, a.name)) -> Int]
  BY <1>1, <1>2, <1>3, <1>7, AddOrReplaceNumber DEF IsBinding
<1>9. Append(b.out, v) \in [1..(n + 1) -> Int]
  <2>1. b.out \in Seq(Int) /\ Len(b.out) = n
    BY DEF IsBinding
  <2>2. Append(b.out, v) \in Seq(Int) /\ Len(Append(b.out, v)) = n + 1
    BY <1>3, <2>1
  <2> QED
    BY <2>2, ListIsFunction
<1> QED
  BY <1>4, <1>5, <1>6, <1>8, <1>9 DEF IsBinding

AssignmentsNumeric(s) == \A k \in 1..Len(s) : Numeric(s[k].expr)

LEMMA BoundTyped ==
    ASSUME NEW cols, IsList(cols), NEW row \in [1..Len(cols) -> Int],
           NEW s, IsList(s), AssignmentsNumeric(s), AssignmentsResolve(cols, s)
    PROVE  /\ IsBinding(Bound(cols, row, s), Len(s))
           /\ Bound(cols, row, s).cols = ProjectColumns(cols, s)
<1> DEFINE B(n) == Bound(cols, row, SubSeq(s, 1, n))
           P(n) == ProjectColumns(cols, SubSeq(s, 1, n))
           G == {n \in 0..Len(s) : IsBinding(B(n), n) /\ B(n).cols = P(n)}
<1>0. Binds(cols, row, s) /\ Len(s) \in Nat /\ 0 \in 0..Len(s) /\ Len(s) \in 0..Len(s)
  BY BoundPrefixes DEF IsList
<1>1. /\ SubSeq(s, 1, 0) = <<>> /\ SubSeq(s, 1, Len(s)) = s
      /\ B(0) = [cols |-> cols, row |-> row, out |-> <<>>]
      /\ \A n \in 1..Len(s) : B(n) = Bind(B(n - 1), s[n])
  BY <1>0 DEF Binds
<1>2. P(0) = cols /\ \A n \in 1..Len(s) : P(n) = ProjectStep(0, 0, P(n - 1), s[n])
  BY <1>1, ProjectPrefixes
<1>3. \A n \in 1..Len(s) : Numeric(s[n].expr) /\ Resolves(s[n].expr, P(n - 1))
  BY DEF AssignmentsNumeric, AssignmentsResolve
<1>4. B(Len(s)) = Bound(cols, row, s) /\ P(Len(s)) = ProjectColumns(cols, s)
  BY <1>1
<1> HIDE DEF B, P
<1>5. 0 \in G
  <2>1. <<>> \in [1..0 -> Int]
    OBVIOUS
  <2>2. B(0).cols = cols /\ B(0).row = row /\ B(0).out = <<>>
    BY <1>1
  <2>3. IsBinding(B(0), 0)
    BY <2>1, <2>2 DEF IsBinding
  <2> QED
    BY <1>0, <1>2, <2>2, <2>3
<1>6. ASSUME NEW n \in 1..Len(s), n - 1 \in G
      PROVE  n \in G
  <2>1. IsBinding(B(n - 1), n - 1) /\ B(n - 1).cols = P(n - 1)
    BY <1>6
  <2>2. Numeric(s[n].expr) /\ Resolves(s[n].expr, B(n - 1).cols)
    BY <1>3, <2>1
  <2>3. n - 1 \in Nat /\ (n - 1) + 1 = n /\ n \in 0..Len(s)
    BY <1>0
  <2>4. /\ IsBinding(Bind(B(n - 1), s[n]), (n - 1) + 1)
        /\ Bind(B(n - 1), s[n]).cols = ProjectStep(0, 0, B(n - 1).cols, s[n])
    BY <2>1, <2>2, <2>3, BindTyped
  <2>5. IsBinding(B(n), n) /\ B(n).cols = P(n)
    BY <1>1, <1>2, <2>1, <2>3, <2>4
  <2> QED
    BY <2>3, <2>5
<1> HIDE DEF G
<1>7. Len(s) \in G
  BY <1>0, <1>5, <1>6, Binding!CountingUp
<1> QED
  BY <1>4, <1>7 DEF G

\* What EachRow makes of a list of rows.
BoundRows(cols, a, s) == [k \in 1..Len(s) |-> Bound(cols, s[k], a).row]

ProjectedRel(r, cols, a) ==
    [ok |-> TRUE, width |-> Len(ProjectColumns(cols, a)),
     rows |-> {BoundRows(cols, a, s) : s \in r.rows}]

LEMMA ProjectMakes ==
    ASSUME NEW r, NEW cols, NEW a
    PROVE  ProjectRel(r, cols, a) =
               IF Usable(r, cols) /\ AssignmentsResolve(cols, a)
               THEN ProjectedRel(r, cols, a) ELSE Failed
BY Zenon DEF ProjectRel, EachRow, ProjectedRel, BoundRows

LEMMA BoundRowsTyped ==
    ASSUME NEW cols, IsList(cols), NEW a, IsList(a), AssignmentsNumeric(a),
           AssignmentsResolve(cols, a), NEW s \in RowLists(Len(cols))
    PROVE  /\ BoundRows(cols, a, s) \in RowLists(Len(ProjectColumns(cols, a)))
           /\ Len(BoundRows(cols, a, s)) = Len(s)
<1>1. Len(s) \in Nat /\ \A k \in 1..Len(s) : s[k] \in [1..Len(cols) -> Int]
  BY DEF RowLists
<1>2. \A k \in 1..Len(s) :
          Bound(cols, s[k], a).row \in [1..Len(ProjectColumns(cols, a)) -> Int]
  BY <1>1, BoundTyped DEF IsBinding
<1> QED
  BY <1>1, <1>2 DEF BoundRows, RowLists

LEMMA ProjectTyped ==
    ASSUME NEW r, IsRelation(r), NEW cols, IsList(cols), NEW a, IsList(a),
           AssignmentsNumeric(a)
    PROVE  IsRelation(ProjectRel(r, cols, a))
<1>1. CASE Usable(r, cols) /\ AssignmentsResolve(cols, a)
  <2>1. ProjectRel(r, cols, a) = ProjectedRel(r, cols, a)
    BY <1>1, ProjectMakes
  <2>2. r.rows \subseteq RowLists(Len(cols))
    BY <1>1 DEF Usable, IsRelation
  <2>3. \A s \in r.rows : BoundRows(cols, a, s) \in RowLists(Len(ProjectColumns(cols, a)))
    BY <1>1, <2>2, BoundRowsTyped
  <2>4. Len(ProjectColumns(cols, a)) \in Nat
    BY ProjectedIsList DEF IsList
  <2>5. IsRelation(ProjectedRel(r, cols, a))
    BY <2>3, <2>4 DEF IsRelation, HasFields, ProjectedRel
  <2> QED
    BY <2>1, <2>5
<1>2. CASE ~(Usable(r, cols) /\ AssignmentsResolve(cols, a))
  BY <1>2, ProjectMakes, FailedIsRelation
<1> QED
  BY <1>1, <1>2

LEMMA SelectProjectTyped ==
    ASSUME NEW r, IsRelation(r), NEW cols, IsList(cols), NEW a, IsList(a),
           AssignmentsNumeric(a)
    PROVE  IsRelation(SelectProjectRel(r, cols, a))
<1> DEFINE rows(s) == [k \in 1..Len(s) |-> Bound(cols, s[k], a).out]
           new == [ok |-> TRUE, width |-> Len(a), rows |-> {rows(s) : s \in r.rows}]
<1>1. CASE Usable(r, cols) /\ AssignmentsResolve(cols, a)
  <2>1. SelectProjectRel(r, cols, a) = new
    BY <1>1, Zenon DEF SelectProjectRel, EachRow
  <2>2. r.rows \subseteq RowLists(Len(cols))
    BY <1>1 DEF Usable, IsRelation
  <2>3. ASSUME NEW s \in r.rows
        PROVE  rows(s) \in RowLists(Len(a))
    <3>1. Len(s) \in Nat /\ \A k \in 1..Len(s) : s[k] \in [1..Len(cols) -> Int]
      BY <2>2 DEF RowLists
    <3>2. \A k \in 1..Len(s) : Bound(cols, s[k], a).out \in [1..Len(a) -> Int]
      BY <1>1, <3>1, BoundTyped DEF IsBinding
    <3> QED
      BY <3>1, <3>2 DEF RowLists
  <2>4. Len(a) \in Nat
    BY DEF IsList
  <2> HIDE DEF rows
  <2>5. IsRelation(new)
    BY <2>3, <2>4 DEF IsRelation, HasFields
  <2> QED
    BY <2>1, <2>5
<1>2. CASE ~(Usable(r, cols) /\ AssignmentsResolve(cols, a))
  <2>1. SelectProjectRel(r, cols, a) = Failed
    BY <1>2, Zenon DEF SelectProjectRel
  <2> QED
    BY <2>1, FailedIsRelation
<1> QED
  BY <1>1, <1>2

\* What the assignments put in a row does not depend on what earlier ones put out.
LEMMA BindingContinues ==
    ASSUME NEW x, NEW y, x.cols = y.cols /\ x.row = y.row, NEW s, IsList(s)
    PROVE  Binding!Fold(0, 0, x, s).row = Binding!Fold(0, 0, y, s).row
<1>1. PICK S : s \in Seq(S)
  BY DEF IsList
<1>2. PICK f : Binding!FoldsAlong(0, 0, x, s, f)
  BY <1>1, Binding!FoldGoesAlong
<1>3. PICK g : Binding!FoldsAlong(0, 0, y, s, g)
  BY <1>1, Binding!FoldGoesAlong
<1> DEFINE N == Len(s)
           G == {n \in 0..N : f[n].cols = g[n].cols /\ f[n].row = g[n].row}
<1>4. N \in Nat /\ 0 \in 0..N /\ N \in 0..N
  BY <1>1
<1>5. 0 \in G
  BY <1>2, <1>3, <1>4 DEF Binding!FoldsAlong
<1>6. ASSUME NEW n \in 1..N, n - 1 \in G
      PROVE  n \in G
  <2>1. f[n - 1].cols = g[n - 1].cols /\ f[n - 1].row = g[n - 1].row /\ n \in 0..N
    BY <1>4, <1>6
  <2>2. f[n] = Bind(f[n - 1], s[n]) /\ g[n] = Bind(g[n - 1], s[n])
    BY <1>2, <1>3 DEF Binding!FoldsAlong, BindStep
  <2>3. f[n].cols = g[n].cols /\ f[n].row = g[n].row
    BY <2>1, <2>2 DEF Bind
  <2> QED
    BY <2>1, <2>3
<1> HIDE DEF G
<1>7. N \in G
  BY <1>4, <1>5, <1>6, Binding!CountingUp
<1>8. f[N].row = g[N].row
  BY <1>7 DEF G
<1> QED
  BY <1>2, <1>3, <1>8 DEF Binding!FoldsAlong

LEMMA BoundTwice ==
    ASSUME NEW cols, IsList(cols), NEW row \in [1..Len(cols) -> Int],
           NEW a, IsList(a), AssignmentsNumeric(a), AssignmentsResolve(cols, a),
           NEW b, IsList(b)
    PROVE  Bound(ProjectColumns(cols, a), Bound(cols, row, a).row, b).row
               = Bound(cols, row, a \o b).row
<1> DEFINE base == [cols |-> cols, row |-> row, out |-> <<>>]
           x == Bound(cols, row, a)
           y == [cols |-> ProjectColumns(cols, a), row |-> x.row, out |-> <<>>]
<1>1. PICK S : a \in Seq(S) /\ b \in Seq(S)
  BY ListsShareASet
<1>2. \A c, t, s : Binding!Fold(0, 0, [cols |-> c, row |-> t, out |-> <<>>], s) = Bound(c, t, s)
  BY BoundFolds
<1>3. Binding!Fold(0, 0, base, a) = x /\ Binding!Fold(0, 0, base, a \o b) = Bound(cols, row, a \o b)
  BY <1>2
<1>4. Binding!Fold(0, 0, y, b) = Bound(ProjectColumns(cols, a), x.row, b)
  BY <1>2
<1>5. x.cols = y.cols /\ x.row = y.row
  BY BoundTyped
<1> HIDE DEF base, x, y
<1>6. Binding!Fold(0, 0, Binding!Fold(0, 0, base, a), b) = Binding!Fold(0, 0, base, a \o b)
  BY <1>1, Binding!FoldTwice
<1>7. Binding!Fold(0, 0, x, b).row = Binding!Fold(0, 0, y, b).row
  BY <1>5, BindingContinues
<1> QED
  BY <1>3, <1>4, <1>6, <1>7 DEF x

LEMMA SameList ==
    ASSUME NEW S, NEW u \in Seq(S), NEW v \in Seq(S), Len(u) = Len(v),
           \A i \in 1..Len(u) : u[i] = v[i]
    PROVE  u = v
OBVIOUS

LEMMA BeginningOf ==
    ASSUME NEW S, NEW u \in Seq(S), NEW n \in 0..Len(u)
    PROVE  /\ SubSeq(u, 1, n) \in Seq(S) /\ Len(SubSeq(u, 1, n)) = n
           /\ \A i \in 1..n : SubSeq(u, 1, n)[i] = u[i]
OBVIOUS

\* The beginnings of two lists joined.
LEMMA BeginningsJoined ==
    ASSUME NEW a, IsList(a), NEW b, IsList(b), NEW k \in 1..Len(a \o b)
    PROVE  /\ k \in 1..Len(a) =>
                 (a \o b)[k] = a[k] /\ SubSeq(a \o b, 1, k - 1) = SubSeq(a, 1, k - 1)
           /\ k \notin 1..Len(a) =>
                 /\ k - Len(a) \in 1..Len(b)
                 /\ (a \o b)[k] = b[k - Len(a)]
                 /\ SubSeq(a \o b, 1, k - 1) = a \o SubSeq(b, 1, (k - Len(a)) - 1)
                 /\ IsList(SubSeq(b, 1, (k - Len(a)) - 1))
<1>1. PICK S : a \in Seq(S) /\ b \in Seq(S)
  BY ListsShareASet
<1>2. /\ Len(a) \in Nat /\ Len(b) \in Nat /\ Len(a \o b) = Len(a) + Len(b)
      /\ \A i \in 1..Len(a) : (a \o b)[i] = a[i]
      /\ \A i \in 1..Len(b) : (a \o b)[Len(a) + i] = b[i]
      /\ a \o b \in Seq(S)
  BY <1>1
<1>3. CASE k \in 1..Len(a)
  BY <1>1, <1>2, <1>3
<1>4. CASE k \notin 1..Len(a)
  <2> DEFINE j == k - Len(a)
             c == SubSeq(b, 1, j - 1)
  <2>1. j \in 1..Len(b) /\ k = Len(a) + j
    BY <1>2, <1>4
  <2> HIDE DEF j
  <2>2. c \in Seq(S) /\ Len(c) = j - 1 /\ \A i \in 1..(j - 1) : c[i] = b[i]
    BY <1>1, <1>2, <2>1
  <2>3. (a \o b)[k] = b[j]
    BY <1>2, <2>1
  <2> HIDE DEF c
  <2>4. a \o c \in Seq(S) /\ Len(a \o c) = k - 1
    BY <1>1, <1>2, <2>1, <2>2
  <2>5. \A i \in 1..(k - 1) : (a \o c)[i] = (a \o b)[i]
    <3> SUFFICES ASSUME NEW i \in 1..(k - 1) PROVE (a \o c)[i] = (a \o b)[i]
      OBVIOUS
    <3>1. CASE i \in 1..Len(a)
      BY <1>1, <1>2, <2>2, <3>1
    <3>2. CASE i \notin 1..Len(a)
      <4>1. i - Len(a) \in 1..(j - 1) /\ i - Len(a) \in 1..Len(b) /\ i = Len(a) + (i - Len(a))
        BY <1>2, <2>1, <3>2
      <4>2. (a \o b)[i] = b[i - Len(a)]
        BY <1>2, <4>1
      <4>3. (a \o c)[i] = c[i - Len(a)]
        BY <1>1, <1>2, <2>2, <4>1
      <4> QED
        BY <2>2, <4>1, <4>2, <4>3
    <3> QED
      BY <3>1, <3>2
  <2>6. SubSeq(a \o b, 1, k - 1) = a \o c
    <3>1. k - 1 \in 0..Len(a \o b)
      BY <1>2, <2>1
    <3> DEFINE u == SubSeq(a \o b, 1, k - 1)
               v == a \o c
    <3>2. u \in Seq(S) /\ Len(u) = k - 1 /\ \A i \in 1..(k - 1) : u[i] = (a \o b)[i]
      BY <1>2, <3>1, BeginningOf
    <3>3. v \in Seq(S) /\ Len(v) = k - 1 /\ \A i \in 1..(k - 1) : v[i] = (a \o b)[i]
      BY <2>4, <2>5
    <3> HIDE DEF u, v
    <3>4. u = v
      BY <3>2, <3>3, SameList
    <3> QED
      BY <3>4 DEF u, v
  <2>7. IsList(c)
    BY <2>2 DEF IsList
  <2> QED
    BY <1>4, <2>1, <2>3, <2>6, <2>7 DEF c, j
<1> QED
  BY <1>3, <1>4

LEMMA AssignmentsResolveJoined ==
    ASSUME NEW cols, NEW a, IsList(a), NEW b, IsList(b),
           AssignmentsResolve(cols, a), AssignmentsResolve(ProjectColumns(cols, a), b)
    PROVE  AssignmentsResolve(cols, a \o b)
<1> SUFFICES ASSUME NEW k \in 1..Len(a \o b)
             PROVE  Resolves((a \o b)[k].expr, ProjectColumns(cols, SubSeq(a \o b, 1, k - 1)))
  BY DEF AssignmentsResolve
<1> DEFINE j == k - Len(a)
           c == SubSeq(b, 1, j - 1)
<1>1. /\ k \in 1..Len(a) =>
            (a \o b)[k] = a[k] /\ SubSeq(a \o b, 1, k - 1) = SubSeq(a, 1, k - 1)
      /\ k \notin 1..Len(a) =>
            /\ j \in 1..Len(b) /\ (a \o b)[k] = b[j]
            /\ SubSeq(a \o b, 1, k - 1) = a \o c /\ IsList(c)
  BY BeginningsJoined
<1>2. CASE k \in 1..Len(a)
  BY <1>1, <1>2 DEF AssignmentsResolve
<1>3. CASE k \notin 1..Len(a)
  <2>1. Resolves(b[j].expr, ProjectColumns(ProjectColumns(cols, a), c))
    BY <1>1, <1>3 DEF AssignmentsResolve
  <2> HIDE DEF j, c
  <2>2. ProjectColumns(ProjectColumns(cols, a), c) = ProjectColumns(cols, a \o c)
    BY <1>1, <1>3, ProjectTwice
  <2> QED
    BY <1>1, <1>3, <2>1, <2>2
<1> QED
  BY <1>2, <1>3

\* Two projections in a row are one with the assignments of both: what the pass
\* relies on when it collapses them (collapse_adjacent_project of rewrite.incn).
THEOREM ProjectMerged ==
    ASSUME NEW r, IsRelation(r), NEW cols, IsList(cols),
           NEW a, IsList(a), AssignmentsNumeric(a), NEW b, IsList(b)
    PROVE  Refines(ProjectRel(r, cols, a \o b),
                   ProjectRel(ProjectRel(r, cols, a), ProjectColumns(cols, a), b))
<1> DEFINE mid == ProjectColumns(cols, a)
           inner == ProjectRel(r, cols, a)
           outer == ProjectRel(inner, mid, b)
<1>1. CASE ~(Usable(inner, mid) /\ AssignmentsResolve(mid, b))
  <2>1. outer = Failed
    BY <1>1, ProjectMakes, Zenon
  <2> HIDE DEF outer
  <2> QED
    BY <2>1, FailedIsRefined DEF outer
<1>2. CASE Usable(inner, mid) /\ AssignmentsResolve(mid, b)
  <2>1. outer = ProjectedRel(inner, mid, b)
    BY <1>2, ProjectMakes, Zenon
  <2>2. Usable(r, cols) /\ AssignmentsResolve(cols, a)
    <3>1. inner.ok
      BY <1>2 DEF Usable
    <3>2. ~Failed.ok
      BY DEF Failed
    <3> HIDE DEF inner
    <3> QED
      BY <3>1, <3>2, ProjectMakes DEF inner
  <2>3. inner = ProjectedRel(r, cols, a)
    BY <2>2, ProjectMakes
  <2>4. AssignmentsResolve(cols, a \o b)
    BY <1>2, <2>2, AssignmentsResolveJoined
  <2>5. ProjectRel(r, cols, a \o b) = ProjectedRel(r, cols, a \o b)
    BY <2>2, <2>4, ProjectMakes
  <2>6. ProjectColumns(mid, b) = ProjectColumns(cols, a \o b)
    BY ProjectTwice
  <2>7. ASSUME NEW s \in r.rows
        PROVE  BoundRows(cols, a \o b, s) = BoundRows(mid, b, BoundRows(cols, a, s))
    <3>1. s \in RowLists(Len(cols))
      BY <2>2 DEF Usable, IsRelation
    <3>2. Len(s) \in Nat /\ \A k \in 1..Len(s) : s[k] \in [1..Len(cols) -> Int]
      BY <3>1 DEF RowLists
    <3>3. Len(BoundRows(cols, a, s)) = Len(s)
      BY <2>2, <3>1, BoundRowsTyped
    <3>4. \A k \in 1..Len(s) : BoundRows(cols, a, s)[k] = Bound(cols, s[k], a).row
      BY DEF BoundRows
    <3>5. \A k \in 1..Len(s) :
              Bound(mid, Bound(cols, s[k], a).row, b).row = Bound(cols, s[k], a \o b).row
      <4> SUFFICES ASSUME NEW k \in 1..Len(s)
                   PROVE  Bound(mid, Bound(cols, s[k], a).row, b).row
                              = Bound(cols, s[k], a \o b).row
        OBVIOUS
      <4>1. s[k] \in [1..Len(cols) -> Int]
        BY <3>2
      <4> QED
        BY <2>2, <4>1, BoundTwice
    <3> HIDE DEF mid
    <3> QED
      BY <3>3, <3>4, <3>5 DEF BoundRows
  <2> HIDE DEF mid, inner, outer
  <2>8. Refines(ProjectedRel(r, cols, a \o b), ProjectedRel(inner, mid, b))
    <3>1. inner.rows = {BoundRows(cols, a, s) : s \in r.rows}
      BY <2>3 DEF ProjectedRel
    <3>2. ProjectedRel(r, cols, a \o b).rows \subseteq ProjectedRel(inner, mid, b).rows
      BY <2>7, <3>1 DEF ProjectedRel
    <3> QED
      BY <2>6, <3>2 DEF Refines, ProjectedRel
  <2> QED
    BY <2>1, <2>5, <2>8 DEF mid, inner, outer
<1> QED
  BY <1>1, <1>2

-----------------------------------------------------------------------------
(* Values and measures are numbers.                                        *)

LEMMA ValuesAreNumbers ==
    ASSUME NEW es, AllNumeric(es), NEW cols, IsList(cols), AllResolve(es, cols),
           NEW row \in [1..Len(cols) -> Int]
    PROVE  /\ Values(es, cols, row) \in Seq(Int)
           /\ Len(Values(es, cols, row)) = Len(es) /\ Len(es) \in Nat
<1>1. Len(es) \in Nat /\ \A k \in 1..Len(es) : Numeric(es[k])
  BY DEF AllNumeric, IsSequence
<1>2. Len(cols) \in Nat
  BY DEF IsList
<1>3. \A k \in 1..Len(es) : Value(es[k], cols, row) \in Int
  BY <1>1, <1>2, ValueIsNumber DEF AllResolve
<1> QED
  BY <1>1, <1>3 DEF Values

SumStep(c, d, x, y) == c[y] + x

Summing == INSTANCE Recursion WITH Step <- SumStep

LEMMA SumIsNumber ==
    ASSUME NEW S, IsFiniteSet(S), NEW f \in [S -> Int]
    PROVE  SumFunction(f) \in Int
<1>1. Summing!Commutes(f, 0, Int, S)
  BY DEF Summing!Commutes, SumStep
<1>2. Summing!SetFold(f, 0, 0, S) \in Int
  <2>1. 0 \in Int
    OBVIOUS
  <2>2. Summing!IsFiniteSet(S)
    BY Zenon DEF IsFiniteSet, Summing!IsFiniteSet
  <2> QED
    BY <1>1, <2>1, <2>2, Summing!SetFoldSteps
<1>3. DOMAIN f = S
  OBVIOUS
<1>4. SumFunction(f) = Summing!SetFold(f, 0, 0, DOMAIN f)
  BY Zenon DEF SumFunction, SumFunctionOnSet, FoldFunctionOnSet, MapThenFoldSet,
     Summing!SetFold, Summing!FoldSet, Summing!MapThenFoldSet, SumStep
<1> QED
  BY <1>2, <1>3, <1>4

LEMMA MeasuredIsNumber ==
    ASSUME NEW m, NEW cols, IsList(cols),
           m.fn = "count" \/ (Numeric(m.arg) /\ Resolves(m.arg, cols)),
           NEW s \in RowLists(Len(cols)), NEW part \in SUBSET (1..Len(s))
    PROVE  Measured(m, cols, s, part) \in Int
<1>1. Len(cols) \in Nat /\ Len(s) \in Nat /\ \A k \in 1..Len(s) : s[k] \in [1..Len(cols) -> Int]
  BY DEF IsList, RowLists
<1>2. IsFiniteSet(1..Len(s))
  <2>1. 1 \in Int /\ Len(s) \in Int
    BY <1>1
  <2> QED
    BY ONLY <2>1, FS_Interval
<1>3. IsFiniteSet(part)
  BY <1>2, FS_Subset
<1>4. CASE m.fn = "count"
  <2>1. Cardinality(part) \in Int
    BY <1>3, FS_CardinalityType
  <2> QED
    BY <1>4, <2>1 DEF Measured
<1>5. CASE m.fn # "count"
  <2>1. \A k \in part : Value(m.arg, cols, s[k]) \in Int
    BY <1>1, <1>5, ValueIsNumber
  <2> DEFINE f == [k \in part |-> Value(m.arg, cols, s[k])]
  <2>2. f \in [part -> Int]
    BY <2>1
  <2>3. Measured(m, cols, s, part) = SumFunction(f)
    BY <1>5, Zenon DEF Measured
  <2> HIDE DEF f
  <2> QED
    BY <1>3, <2>2, <2>3, SumIsNumber
<1> QED
  BY <1>4, <1>5

\* The measures of one group or partition.
MeasuredList(ms, cols, s, part) == [k \in 1..Len(ms) |-> Measured(ms[k], cols, s, part)]

LEMMA MeasuredListTyped ==
    ASSUME NEW ms, MeasuresNumeric(ms), NEW cols, IsList(cols), MeasuresResolve(ms, cols),
           NEW s \in RowLists(Len(cols)), NEW part \in SUBSET (1..Len(s))
    PROVE  /\ MeasuredList(ms, cols, s, part) \in Seq(Int)
           /\ Len(MeasuredList(ms, cols, s, part)) = Len(ms) /\ Len(ms) \in Nat
<1>1. Len(ms) \in Nat /\ \A k \in 1..Len(ms) : ms[k].fn = "count" \/ Numeric(ms[k].arg)
  BY DEF MeasuresNumeric, IsSequence
<1>2. \A k \in 1..Len(ms) : Measured(ms[k], cols, s, part) \in Int
  <2> SUFFICES ASSUME NEW k \in 1..Len(ms)
               PROVE  Measured(ms[k], cols, s, part) \in Int
    OBVIOUS
  <2>1. ms[k].fn = "count" \/ (Numeric(ms[k].arg) /\ Resolves(ms[k].arg, cols))
    BY <1>1 DEF MeasuresResolve
  <2> QED
    BY <2>1, MeasuredIsNumber
<1> QED
  BY <1>1, <1>2 DEF MeasuredList

LEMMA JoinedNumbers ==
    ASSUME NEW u \in Seq(Int), NEW v \in Seq(Int), NEW n, n = Len(u) + Len(v)
    PROVE  u \o v \in [1..n -> Int]
<1>1. u \o v \in Seq(Int) /\ Len(u \o v) = n
  OBVIOUS
<1> QED
  BY <1>1, ListIsFunction

\* A list made row by row.
LEMMA ListMade ==
    ASSUME NEW n \in Nat, NEW S, NEW f \in [1..n -> S]
    PROVE  f \in Seq(S) /\ Len(f) = n
OBVIOUS

-----------------------------------------------------------------------------
(* Groups and windows.                                                     *)

\* The values that the rows of s are grouped by.
GroupKeys(groups, cols, s) ==
    IF groups = <<>> THEN {<<>>} ELSE {Values(groups, cols, s[k]) : k \in 1..Len(s)}

LEMMA GroupKeysTyped ==
    ASSUME NEW groups, AllNumeric(groups), NEW cols, IsList(cols), AllResolve(groups, cols),
           NEW s \in RowLists(Len(cols))
    PROVE  /\ IsFiniteSet(GroupKeys(groups, cols, s))
           /\ \A key \in GroupKeys(groups, cols, s) :
                 key \in Seq(Int) /\ Len(key) = Len(groups) /\ Len(groups) \in Nat
<1>1. Len(s) \in Nat /\ \A k \in 1..Len(s) : s[k] \in [1..Len(cols) -> Int]
  BY DEF RowLists
<1>2. CASE groups = <<>>
  <2>1. GroupKeys(groups, cols, s) = {<<>>}
    BY <1>2, Zenon DEF GroupKeys
  <2>2. IsFiniteSet({<<>>})
    BY FS_Singleton
  <2>3. <<>> \in Seq(Int) /\ Len(<<>>) = 0
    OBVIOUS
  <2> QED
    BY <1>2, <2>1, <2>2, <2>3
<1>3. CASE groups # <<>>
  <2> DEFINE F(k) == Values(groups, cols, s[k])
             T == {F(k) : k \in 1..Len(s)}
  <2>1. GroupKeys(groups, cols, s) = T
    BY <1>3, Zenon DEF GroupKeys
  <2>2. \A k \in 1..Len(s) :
            F(k) \in Seq(Int) /\ Len(F(k)) = Len(groups) /\ Len(groups) \in Nat
    BY <1>1, ValuesAreNumbers
  <2>3. IsFiniteSet(1..Len(s))
    <3>1. Len(s) \in Int /\ 1 \in Int
      BY <1>1
    <3> QED
      BY ONLY <3>1, FS_Interval
  <2> DEFINE f == [k \in 1..Len(s) |-> F(k)]
  <2>4. f \in Surjection(1..Len(s), T)
    <3>1. f \in [1..Len(s) -> T]
      OBVIOUS
    <3>2. \A t \in T : \E k \in 1..Len(s) : f[k] = t
      OBVIOUS
    <3> HIDE DEF f, T
    <3> QED
      BY <3>1, <3>2 DEF Surjection
  <2>5. IsFiniteSet(T)
    <3> HIDE DEF f, T
    <3> QED
      BY <2>3, <2>4, FS_Surjection
  <2> HIDE DEF F
  <2> QED
    BY <2>1, <2>2, <2>5
<1> QED
  BY <1>2, <1>3

GroupRow(key, cols, groups, ms, s) ==
    key \o MeasuredList(ms, cols, s, SameValues(groups, cols, s, key))

LEMMA GroupedRowsTyped ==
    ASSUME NEW groups, AllNumeric(groups), NEW ms, MeasuresNumeric(ms),
           NEW cols, IsList(cols), AllResolve(groups, cols), MeasuresResolve(ms, cols),
           NEW s \in RowLists(Len(cols))
    PROVE  /\ GroupedRows(cols, groups, ms, s) \subseteq RowLists(Len(groups) + Len(ms))
           /\ Len(groups) + Len(ms) \in Nat
<1> DEFINE Keys == GroupKeys(groups, cols, s)
           Out(key) == GroupRow(key, cols, groups, ms, s)
           width == Len(groups) + Len(ms)
<1>0. Len(groups) \in Nat /\ Len(ms) \in Nat
  BY DEF AllNumeric, MeasuresNumeric, IsSequence
<1>1. GroupedRows(cols, groups, ms, s)
          = {[k \in 1..Len(keys) |-> Out(keys[k])] : keys \in SetToSeqs(Keys)}
  BY Zenon DEF GroupedRows, GroupKeys, GroupRow, MeasuredList
<1>2. /\ IsFiniteSet(Keys)
      /\ \A key \in Keys : key \in Seq(Int) /\ Len(key) = Len(groups)
  BY GroupKeysTyped
<1>3. \A key \in Keys : Out(key) \in [1..width -> Int]
  <2> SUFFICES ASSUME NEW key \in Keys PROVE Out(key) \in [1..width -> Int]
    OBVIOUS
  <2> DEFINE part == SameValues(groups, cols, s, key)
             more == MeasuredList(ms, cols, s, part)
  <2>1. part \in SUBSET (1..Len(s))
    BY DEF SameValues
  <2>2. more \in Seq(Int) /\ Len(more) = Len(ms)
    BY <2>1, MeasuredListTyped
  <2>3. Out(key) = key \o more
    BY Zenon DEF GroupRow
  <2>4. key \in Seq(Int) /\ Len(key) = Len(groups)
    BY <1>2
  <2>5. width = Len(key) + Len(more)
    BY <2>2, <2>4
  <2> HIDE DEF Keys, more, Out, width
  <2> QED
    BY <2>2, <2>3, <2>4, <2>5, JoinedNumbers
<1>4. \A keys \in SetToSeqs(Keys) : keys \in Seq(Keys) /\ Len(keys) \in Nat
  <2>1. Cardinality(Keys) \in Nat
    BY <1>2, FS_CardinalityType
  <2> HIDE DEF Keys
  <2>2. \A keys \in SetToSeqs(Keys) : keys \in [1..Cardinality(Keys) -> Keys]
    BY DEF SetToSeqs
  <2> QED
    BY <2>1, <2>2
<1> HIDE DEF Keys, Out
<1>5. ASSUME NEW keys \in SetToSeqs(Keys)
      PROVE  [k \in 1..Len(keys) |-> Out(keys[k])] \in RowLists(width)
  <2>1. \A k \in 1..Len(keys) : Out(keys[k]) \in [1..width -> Int]
    BY <1>3, <1>4
  <2> HIDE DEF width
  <2> QED
    BY <1>4, <2>1 DEF RowLists
<1> QED
  BY <1>0, <1>1, <1>5

LEMMA AggregateMakes ==
    ASSUME NEW r, NEW cols, NEW groups, NEW ms
    PROVE  AggregateRel(r, cols, groups, ms) =
               IF Usable(r, cols) /\ AllResolve(groups, cols) /\ MeasuresResolve(ms, cols)
               THEN [ok |-> TRUE, width |-> Len(groups) + Len(ms),
                     rows |-> UNION {GroupedRows(cols, groups, ms, s) : s \in r.rows}]
               ELSE Failed
BY Zenon DEF AggregateRel, GroupedRows

LEMMA AggregateTyped ==
    ASSUME NEW r, IsRelation(r), NEW cols, IsList(cols),
           NEW groups, AllNumeric(groups), NEW ms, MeasuresNumeric(ms)
    PROVE  IsRelation(AggregateRel(r, cols, groups, ms))
<1>1. CASE Usable(r, cols) /\ AllResolve(groups, cols) /\ MeasuresResolve(ms, cols)
  <2> DEFINE new == [ok |-> TRUE, width |-> Len(groups) + Len(ms),
                     rows |-> UNION {GroupedRows(cols, groups, ms, s) : s \in r.rows}]
  <2>1. AggregateRel(r, cols, groups, ms) = new
    BY <1>1, AggregateMakes
  <2>2. r.rows \subseteq RowLists(Len(cols))
    BY <1>1 DEF IsRelation, Usable
  <2>3. \A s \in r.rows : GroupedRows(cols, groups, ms, s) \subseteq RowLists(Len(groups) + Len(ms))
    BY <1>1, <2>2, GroupedRowsTyped
  <2>4. Len(groups) + Len(ms) \in Nat
    BY DEF AllNumeric, MeasuresNumeric, IsSequence
  <2>5. IsRelation(new)
    BY <2>3, <2>4 DEF IsRelation, HasFields
  <2> QED
    BY <2>1, <2>5
<1>2. CASE ~(Usable(r, cols) /\ AllResolve(groups, cols) /\ MeasuresResolve(ms, cols))
  <2>1. AggregateRel(r, cols, groups, ms) = Failed
    BY <1>2, AggregateMakes, Zenon
  <2> QED
    BY <2>1, FailedIsRelation
<1> QED
  BY <1>1, <1>2

WindowRow(cols, ws, s, row) ==
    row \o MeasuredList(ws, cols, s, SameValues(ws[1].spec, cols, s, Values(ws[1].spec, cols, row)))

LEMMA WindowedRowsTyped ==
    ASSUME NEW ws, MeasuresNumeric(ws), NEW cols, IsList(cols), MeasuresResolve(ws, cols),
           NEW s \in RowLists(Len(cols))
    PROVE  /\ WindowedRows(cols, ws, s) \in RowLists(Len(cols) + Len(ws))
           /\ Len(WindowedRows(cols, ws, s)) = Len(s)
           /\ \A k \in 1..Len(s) : WindowedRows(cols, ws, s)[k] = WindowRow(cols, ws, s, s[k])
           /\ Len(cols) + Len(ws) \in Nat
<1> DEFINE width == Len(cols) + Len(ws)
           W(row) == WindowRow(cols, ws, s, row)
<1>0. Len(cols) \in Nat /\ Len(ws) \in Nat
  BY DEF MeasuresNumeric, IsSequence, IsList
<1>1. Len(s) \in Nat /\ \A k \in 1..Len(s) : s[k] \in [1..Len(cols) -> Int]
  BY DEF RowLists
<1>2. WindowedRows(cols, ws, s) = [k \in 1..Len(s) |-> W(s[k])]
  BY Zenon DEF WindowedRows, WindowRow, MeasuredList
<1>3. \A k \in 1..Len(s) : W(s[k]) \in [1..width -> Int]
  <2> SUFFICES ASSUME NEW k \in 1..Len(s) PROVE W(s[k]) \in [1..width -> Int]
    OBVIOUS
  <2> DEFINE part == SameValues(ws[1].spec, cols, s, Values(ws[1].spec, cols, s[k]))
             more == MeasuredList(ws, cols, s, part)
  <2>1. part \in SUBSET (1..Len(s))
    BY DEF SameValues
  <2>2. more \in Seq(Int) /\ Len(more) = Len(ws)
    BY <2>1, MeasuredListTyped
  <2>3. W(s[k]) = s[k] \o more
    BY Zenon DEF WindowRow
  <2>4. s[k] \in Seq(Int) /\ Len(s[k]) = Len(cols)
    BY <1>0, <1>1
  <2>5. width = Len(s[k]) + Len(more)
    BY <2>2, <2>4
  <2> HIDE DEF more, W, width
  <2> QED
    BY <2>2, <2>3, <2>4, <2>5, JoinedNumbers
<1> HIDE DEF W
<1>4. WindowedRows(cols, ws, s) \in RowLists(width) /\ Len(WindowedRows(cols, ws, s)) = Len(s)
  <2> HIDE DEF width
  <2> QED
    BY <1>1, <1>2, <1>3 DEF RowLists
<1> QED
  BY <1>0, <1>2, <1>4 DEF W

WindowFits(cols, ws) ==
    /\ \A k \in 1..Len(ws) : ws[k].spec = ws[1].spec
    /\ AllResolve(ws[1].spec, cols) /\ MeasuresResolve(ws, cols)

WindowedRel(r, cols, ws) ==
    [ok |-> TRUE, width |-> r.width + Len(ws), rows |-> {WindowedRows(cols, ws, s) : s \in r.rows}]

LEMMA WindowMakes ==
    ASSUME NEW r, NEW cols, NEW ws
    PROVE  WindowRel(r, cols, ws) =
               IF Usable(r, cols) /\ WindowFits(cols, ws) THEN WindowedRel(r, cols, ws) ELSE Failed
BY Zenon DEF WindowRel, WindowedRows, WindowedRel, WindowFits

LEMMA WindowTyped ==
    ASSUME NEW r, IsRelation(r), NEW cols, IsList(cols), NEW ws, MeasuresNumeric(ws)
    PROVE  IsRelation(WindowRel(r, cols, ws))
<1>1. CASE Usable(r, cols) /\ WindowFits(cols, ws)
  <2>1. WindowRel(r, cols, ws) = WindowedRel(r, cols, ws)
    BY <1>1, WindowMakes
  <2>2. r.rows \subseteq RowLists(Len(cols)) /\ r.width = Len(cols)
    BY <1>1 DEF IsRelation, Usable
  <2>3. \A s \in r.rows : WindowedRows(cols, ws, s) \in RowLists(Len(cols) + Len(ws))
    BY <1>1, <2>2, WindowedRowsTyped DEF WindowFits
  <2>4. Len(cols) + Len(ws) \in Nat
    BY DEF MeasuresNumeric, IsSequence, IsList
  <2>5. IsRelation(WindowedRel(r, cols, ws))
    BY <2>2, <2>3, <2>4 DEF IsRelation, HasFields, WindowedRel
  <2> QED
    BY <2>1, <2>5
<1>2. CASE ~(Usable(r, cols) /\ WindowFits(cols, ws))
  <2>1. WindowRel(r, cols, ws) = Failed
    BY <1>2, WindowMakes, Zenon
  <2> QED
    BY <2>1, FailedIsRelation
<1> QED
  BY <1>1, <1>2

-----------------------------------------------------------------------------
(* Limits.                                                                 *)

FirstRows(s, n) == SubSeq(s, 1, IF n < Len(s) THEN n ELSE Len(s))

LEMMA FirstRowsOf ==
    ASSUME NEW S, NEW s \in Seq(S), NEW n \in Nat
    PROVE  /\ FirstRows(s, n) \in Seq(S)
           /\ Len(FirstRows(s, n)) = IF n < Len(s) THEN n ELSE Len(s)
           /\ \A i \in 1..Len(FirstRows(s, n)) : FirstRows(s, n)[i] = s[i]
<1> DEFINE m == IF n < Len(s) THEN n ELSE Len(s)
<1>1. m \in 0..Len(s)
  OBVIOUS
<1>2. FirstRows(s, n) = SubSeq(s, 1, m)
  BY DEF FirstRows
<1>3. s \in Seq(S)
  OBVIOUS
<1> HIDE DEF m
<1>4. /\ SubSeq(s, 1, m) \in Seq(S) /\ Len(SubSeq(s, 1, m)) = m
      /\ \A i \in 1..m : SubSeq(s, 1, m)[i] = s[i]
  BY <1>1, <1>3, BeginningOf
<1> QED
  BY <1>2, <1>4 DEF m

LEMMA FirstOfFirstRows ==
    ASSUME NEW S, NEW s \in Seq(S), NEW a \in Nat, NEW b \in Nat
    PROVE  FirstRows(FirstRows(s, a), b) = FirstRows(s, IF a < b THEN a ELSE b)
<1> DEFINE c == IF a < b THEN a ELSE b
           u == FirstRows(FirstRows(s, a), b)
           v == FirstRows(s, c)
<1>1. FirstRows(s, a) \in Seq(S) /\ c \in Nat
  BY FirstRowsOf
<1>2. /\ u \in Seq(S) /\ v \in Seq(S)
      /\ Len(u) = IF b < Len(FirstRows(s, a)) THEN b ELSE Len(FirstRows(s, a))
      /\ Len(v) = IF c < Len(s) THEN c ELSE Len(s)
      /\ \A i \in 1..Len(u) : u[i] = FirstRows(s, a)[i]
      /\ \A i \in 1..Len(v) : v[i] = s[i]
  <2> HIDE DEF c
  <2> QED
    BY <1>1, FirstRowsOf
<1>3. /\ Len(FirstRows(s, a)) = IF a < Len(s) THEN a ELSE Len(s)
      /\ \A i \in 1..Len(FirstRows(s, a)) : FirstRows(s, a)[i] = s[i]
  BY FirstRowsOf
<1> HIDE DEF u, v
<1>4. Len(u) = Len(v) /\ \A i \in 1..Len(u) : u[i] = v[i]
  BY <1>2, <1>3
<1>5. u = v
  BY <1>2, <1>4, SameList
<1> QED
  BY <1>5 DEF u, v

LEMMA FetchMakes ==
    ASSUME NEW r, HasFields(r), NEW n
    PROVE  /\ HasFields(FetchRel(r, n))
           /\ FetchRel(r, n).ok = r.ok /\ FetchRel(r, n).width = r.width
           /\ FetchRel(r, n).rows = {FirstRows(s, n) : s \in r.rows}
BY DEF FetchRel, FirstRows, HasFields

LEMMA FetchTyped ==
    ASSUME NEW r, IsRelation(r), NEW n \in Nat
    PROVE  IsRelation(FetchRel(r, n))
<1>1. HasFields(r)
  BY DEF IsRelation
<1>2. ASSUME r.ok, NEW s \in r.rows
      PROVE  FirstRows(s, n) \in RowLists(r.width)
  <2>1. s \in Seq([1..r.width -> Int])
    BY <1>2 DEF IsRelation, RowLists
  <2> QED
    BY <2>1, FirstRowsOf DEF RowLists
<1> QED
  BY <1>1, <1>2, FetchMakes DEF IsRelation

\* A limit of a limit is the lower of the two (collapse_adjacent_limit).
THEOREM FetchMerged ==
    ASSUME NEW r, IsRelation(r), NEW a \in Nat, NEW b \in Nat
    PROVE  Refines(FetchRel(r, IF a < b THEN a ELSE b), FetchRel(FetchRel(r, a), b))
<1> DEFINE c == IF a < b THEN a ELSE b
<1>1. HasFields(r) /\ HasFields(FetchRel(r, a))
  BY FetchMakes DEF IsRelation
<1>2. ASSUME r.ok, NEW s \in r.rows
      PROVE  FirstRows(FirstRows(s, a), b) = FirstRows(s, c)
  <2>1. s \in Seq([1..r.width -> Int])
    BY <1>2 DEF IsRelation, RowLists
  <2> QED
    BY <2>1, FirstOfFirstRows
<1> HIDE DEF c
<1>3. /\ FetchRel(FetchRel(r, a), b).ok = r.ok /\ FetchRel(FetchRel(r, a), b).width = r.width
      /\ FetchRel(FetchRel(r, a), b).rows = {FirstRows(t, b) : t \in {FirstRows(s, a) : s \in r.rows}}
  BY <1>1, FetchMakes
<1>4. /\ FetchRel(r, c).ok = r.ok /\ FetchRel(r, c).width = r.width
      /\ FetchRel(r, c).rows = {FirstRows(s, c) : s \in r.rows}
  BY <1>1, FetchMakes
<1>5. Refines(FetchRel(r, c), FetchRel(FetchRel(r, a), b))
  BY <1>2, <1>3, <1>4 DEF Refines
<1> QED
  BY <1>5 DEF c

-----------------------------------------------------------------------------
(* Orderings.                                                              *)

\* Lists of m numbers.
Tuples(m) == [1..m -> Int]

LEMMA PrecedesTotal ==
    ASSUME NEW m \in Nat, NEW a \in Tuples(m), NEW b \in Tuples(m)
    PROVE  Precedes(a, b) \/ Precedes(b, a)
<1>1. CASE a = b
  BY <1>1 DEF Precedes
<1>2. CASE a # b
  <2> DEFINE D == {k \in 1..m : a[k] # b[k]}
  <2>1. D \in SUBSET Nat /\ D # {}
    BY <1>2 DEF Tuples
  <2> HIDE DEF D
  <2>2. PICK k \in D : \A j \in D : k <= j
    BY <2>1, Summing!LeastNumber
  <2>3. k \in 1..m /\ a[k] # b[k] /\ \A j \in 1..(k - 1) : a[j] = b[j]
    BY <2>2 DEF D
  <2>4. a[k] \in Int /\ b[k] \in Int /\ Len(a) = m /\ Len(b) = m
    BY <2>3 DEF Tuples
  <2>5. a[k] < b[k] \/ b[k] < a[k]
    BY <2>3, <2>4
  <2> QED
    BY <2>3, <2>4, <2>5 DEF Precedes
<1> QED
  BY <1>1, <1>2

LEMMA PrecedesTransitive ==
    ASSUME NEW m \in Nat, NEW a \in Tuples(m), NEW b \in Tuples(m), NEW c \in Tuples(m),
           Precedes(a, b), Precedes(b, c)
    PROVE  Precedes(a, c)
<1>1. CASE a = b \/ b = c
  BY <1>1
<1>2. CASE a # b /\ b # c
  <2>0. Len(a) = m /\ Len(b) = m
    BY DEF Tuples
  <2>1. PICK k \in 1..m : a[k] < b[k] /\ \A j \in 1..(k - 1) : a[j] = b[j]
    BY <1>2, <2>0 DEF Precedes
  <2>2. PICK l \in 1..m : b[l] < c[l] /\ \A j \in 1..(l - 1) : b[j] = c[j]
    BY <1>2, <2>0 DEF Precedes
  <2>3. \A j \in 1..m : a[j] \in Int /\ b[j] \in Int /\ c[j] \in Int
    BY DEF Tuples
  <2>4. CASE k <= l
    <3>1. a[k] < c[k]
      BY <2>1, <2>2, <2>3, <2>4
    <3>2. \A j \in 1..(k - 1) : a[j] = c[j]
      BY <2>1, <2>2, <2>4
    <3> QED
      BY <2>0, <3>1, <3>2 DEF Precedes
  <2>5. CASE l < k
    <3>1. a[l] < c[l]
      BY <2>1, <2>2, <2>3, <2>5
    <3>2. \A j \in 1..(l - 1) : a[j] = c[j]
      BY <2>1, <2>2, <2>5
    <3> QED
      BY <2>0, <3>1, <3>2 DEF Precedes
  <2> QED
    BY <2>4, <2>5
<1> QED
  BY <1>1, <1>2

\* The places of keys, in the order p, ascend.
Ascends(keys, n, p) ==
    \A i \in 1..n : \A j \in 1..i : Precedes(keys[p[j]], keys[p[i]])

\* n + 1 put at place k of an order of 1..n.
Inserted(p, n, k) ==
    [i \in 1..(n + 1) |-> IF i < k THEN p[i] ELSE IF i = k THEN n + 1 ELSE p[i - 1]]

LEMMA BijectionIs ==
    ASSUME NEW n \in Nat, NEW p
    PROVE  p \in Bijection(1..n, 1..n) <=>
               /\ p \in [1..n -> 1..n]
               /\ \A i, j \in 1..n : p[i] = p[j] => i = j
               /\ \A v \in 1..n : \E i \in 1..n : p[i] = v
BY DEF Bijection, Injection, Surjection, IsInjective

LEMMA InsertedIsBijection ==
    ASSUME NEW n \in Nat, NEW p \in Bijection(1..n, 1..n), NEW k \in 1..(n + 1)
    PROVE  Inserted(p, n, k) \in Bijection(1..(n + 1), 1..(n + 1))
<1> DEFINE q == Inserted(p, n, k)
<1>1. /\ p \in [1..n -> 1..n]
      /\ \A i, j \in 1..n : p[i] = p[j] => i = j
      /\ \A v \in 1..n : \E i \in 1..n : p[i] = v
  BY BijectionIs
<1>2. /\ DOMAIN q = 1..(n + 1) /\ q = [i \in 1..(n + 1) |-> q[i]]
      /\ \A i \in 1..(n + 1) :
            /\ i < k => i \in 1..n /\ q[i] = p[i]
            /\ i = k => q[i] = n + 1
            /\ i > k => i - 1 \in 1..n /\ q[i] = p[i - 1]
  BY DEF Inserted
<1> HIDE DEF q
<1>3. q \in [1..(n + 1) -> 1..(n + 1)]
  <2>1. \A i \in 1..(n + 1) : q[i] \in 1..(n + 1)
    BY <1>1, <1>2
  <2> QED
    BY <1>2, <2>1
<1>4. ASSUME NEW i \in 1..(n + 1), NEW j \in 1..(n + 1), q[i] = q[j]
      PROVE  i = j
  <2>1. \A v \in 1..n : p[v] \in 1..n /\ p[v] # n + 1
    BY <1>1
  <2>2. CASE i = k \/ j = k
    BY <1>2, <1>4, <2>1, <2>2
  <2>3. CASE i < k /\ j < k
    BY <1>1, <1>2, <1>4, <2>3
  <2>4. CASE i > k /\ j > k
    <3>1. i - 1 = j - 1
      BY <1>1, <1>2, <1>4, <2>4
    <3> QED
      BY <3>1
  <2>5. CASE i < k /\ j > k
    <3>1. i = j - 1
      BY <1>1, <1>2, <1>4, <2>5
    <3> QED
      BY <2>5, <3>1
  <2>6. CASE i > k /\ j < k
    <3>1. j = i - 1
      BY <1>1, <1>2, <1>4, <2>6
    <3> QED
      BY <2>6, <3>1
  <2> QED
    BY <2>2, <2>3, <2>4, <2>5, <2>6
<1>5. ASSUME NEW v \in 1..(n + 1)
      PROVE  \E i \in 1..(n + 1) : q[i] = v
  <2>1. CASE v = n + 1
    BY <1>2, <2>1
  <2>2. CASE v # n + 1
    <3>1. PICK i \in 1..n : p[i] = v
      BY <1>1, <2>2
    <3>2. CASE i < k
      <4>1. i \in 1..(n + 1) /\ q[i] = v
        BY <1>2, <3>1, <3>2
      <4> QED
        BY <4>1
    <3>3. CASE i >= k
      <4>1. i + 1 \in 1..(n + 1) /\ i + 1 > k /\ (i + 1) - 1 = i
        BY <3>3
      <4>2. q[i + 1] = v
        BY <1>2, <3>1, <4>1
      <4> QED
        BY <4>1, <4>2
    <3> QED
      BY <3>2, <3>3
  <2> QED
    BY <2>1, <2>2
<1>6. q \in Bijection(1..(n + 1), 1..(n + 1))
  BY <1>3, <1>4, <1>5, n + 1 \in Nat, BijectionIs
<1> QED
  BY <1>6 DEF q

\* A new key has a place among ascending ones.
LEMMA InsertedAscends ==
    ASSUME NEW m \in Nat, NEW n \in Nat, NEW keys, \A i \in 1..(n + 1) : keys[i] \in Tuples(m),
           NEW p \in Bijection(1..n, 1..n), Ascends(keys, n, p)
    PROVE  \E k \in 1..(n + 1) : Ascends(keys, n + 1, Inserted(p, n, k))
<1> DEFINE x == keys[n + 1]
           K(i) == keys[p[i]]
           L == {i \in 1..n : Precedes(x, K(i))} \cup {n + 1}
<1>1. x \in Tuples(m) /\ \A i \in 1..n : K(i) \in Tuples(m)
  <2>1. p \in [1..n -> 1..n]
    BY BijectionIs
  <2>2. \A i \in 1..n : p[i] \in 1..(n + 1)
    <3> HIDE DEF K, L, x
    <3> QED
      BY <2>1
  <2> QED
    BY <2>2
<1>2. L \in SUBSET Nat /\ L # {}
  OBVIOUS
<1>3. \A i \in 1..n : i \in L <=> Precedes(x, K(i))
  OBVIOUS
<1>4. \A i \in L : i \in 1..(n + 1)
  OBVIOUS
<1>4a. n + 1 \in L
  OBVIOUS
<1>5. \A i \in 1..n : \A j \in 1..i : Precedes(K(j), K(i))
  BY DEF Ascends
<1> HIDE DEF L
<1>6. PICK k \in L : \A i \in L : k <= i
  BY <1>2, Summing!LeastNumber
<1>7. k \in 1..(n + 1)
  BY <1>4
<1> DEFINE q == Inserted(p, n, k)
<1>8. \A i \in 1..(n + 1) :
            /\ i < k => i \in 1..n /\ keys[q[i]] = K(i)
            /\ i = k => keys[q[i]] = x
            /\ i > k => i - 1 \in 1..n /\ i - 1 >= k /\ keys[q[i]] = K(i - 1)
  BY <1>7 DEF Inserted
<1> HIDE DEF q, K, x
<1>9. \A i \in 1..n : i < k => Precedes(K(i), x)
  <2> SUFFICES ASSUME NEW i \in 1..n, i < k PROVE Precedes(K(i), x)
    OBVIOUS
  <2>1. i \notin L
    BY <1>6, <1>7
  <2>2. ~Precedes(x, K(i))
    BY <1>3, <2>1
  <2> QED
    BY <1>1, <2>2, PrecedesTotal
<1>10. \A i \in 1..n : i >= k => Precedes(x, K(i))
  <2> SUFFICES ASSUME NEW i \in 1..n, i >= k PROVE Precedes(x, K(i))
    OBVIOUS
  <2>1. k \in 1..n /\ k \in 1..i
    BY <1>7
  <2>2. Precedes(x, K(k)) /\ Precedes(K(k), K(i))
    BY <1>3, <1>5, <2>1
  <2>3. K(k) \in Tuples(m) /\ K(i) \in Tuples(m)
    BY <1>1, <2>1
  <2> QED
    BY <1>1, <2>2, <2>3, PrecedesTransitive
<1>11. Precedes(x, x)
  BY DEF Precedes
<1>12. \A i \in 1..(n + 1) : \A j \in 1..i : Precedes(keys[q[j]], keys[q[i]])
  <2> SUFFICES ASSUME NEW i \in 1..(n + 1), NEW j \in 1..i
               PROVE  Precedes(keys[q[j]], keys[q[i]])
    OBVIOUS
  <2>1. j \in 1..(n + 1) /\ j <= i /\ i \in Int /\ j \in Int /\ k \in Int
    BY <1>7
  <2>2. CASE i < k
    <3>1. j < k /\ keys[q[i]] = K(i) /\ keys[q[j]] = K(j) /\ i \in 1..n
      BY <1>8, <2>1, <2>2
    <3> QED
      BY <1>5, <3>1
  <2>3. CASE i = k /\ j = k
    BY <1>8, <1>11, <2>1, <2>3
  <2>4. CASE i = k /\ j < k
    <3>1. j \in 1..n /\ keys[q[j]] = K(j) /\ keys[q[i]] = x
      BY <1>8, <2>1, <2>4
    <3> QED
      BY <1>9, <2>4, <3>1
  <2>5. CASE i > k /\ j < k
    <3>1. /\ j \in 1..n /\ keys[q[j]] = K(j)
          /\ i - 1 \in 1..n /\ keys[q[i]] = K(i - 1) /\ j \in 1..(i - 1)
      BY <1>8, <2>1, <2>5
    <3> QED
      BY <1>5, <3>1
  <2>6. CASE i > k /\ j = k
    <3>1. /\ keys[q[j]] = x
          /\ i - 1 \in 1..n /\ keys[q[i]] = K(i - 1) /\ i - 1 >= k
      BY <1>8, <2>1, <2>6
    <3> QED
      BY <1>10, <3>1
  <2>7. CASE i > k /\ j > k
    <3>1. /\ j - 1 \in 1..n /\ keys[q[j]] = K(j - 1)
          /\ i - 1 \in 1..n /\ keys[q[i]] = K(i - 1)
      BY <1>8, <2>1, <2>7
    <3>2. j - 1 \in 1..(i - 1)
      BY <2>1, <3>1
    <3> QED
      BY <1>5, <3>1, <3>2
  <2> QED
    BY <2>1, <2>2, <2>3, <2>4, <2>5, <2>6, <2>7
<1>13. Ascends(keys, n + 1, q)
  BY <1>12 DEF Ascends
<1> QED
  BY <1>7, <1>13 DEF q

\* Every list of keys can be ordered.
LEMMA SortedOrderExists ==
    ASSUME NEW m \in Nat, NEW n \in Nat, NEW keys, \A i \in 1..n : keys[i] \in Tuples(m)
    PROVE  \E p \in Bijection(1..n, 1..n) : Ascends(keys, n, p)
<1> DEFINE Ok(l) == \E p \in Bijection(1..l, 1..l) : Ascends(keys, l, p)
           G == {l \in 0..n : Ok(l)}
<1>1. 0 \in G
  <2>1. <<>> \in Bijection(1..0, 1..0)
    <3>1. <<>> \in [1..0 -> 1..0] /\ \A i \in 1..0 : FALSE
      OBVIOUS
    <3> QED
      BY ONLY <3>1, 0 \in Nat, BijectionIs
  <2>2. Ascends(keys, 0, <<>>)
    BY DEF Ascends
  <2> QED
    BY <2>1, <2>2
<1>2. ASSUME NEW l \in 1..n, l - 1 \in G
      PROVE  l \in G
  <2> DEFINE h == l - 1
  <2>1. PICK p \in Bijection(1..h, 1..h) : Ascends(keys, h, p)
    BY <1>2
  <2>2. h \in Nat /\ h + 1 = l /\ \A i \in 1..l : keys[i] \in Tuples(m)
    OBVIOUS
  <2> HIDE DEF h
  <2>3. PICK k \in 1..(h + 1) : Ascends(keys, h + 1, Inserted(p, h, k))
    BY <2>1, <2>2, InsertedAscends
  <2>4. Inserted(p, h, k) \in Bijection(1..(h + 1), 1..(h + 1))
    BY <2>1, <2>2, InsertedIsBijection
  <2>5. Ok(l)
    BY <2>2, <2>3, <2>4
  <2> QED
    BY <2>5
<1> HIDE DEF Ok
<1>3. \A l \in 0..n : l \in G
  <2> HIDE DEF G
  <2> QED
    BY <1>1, <1>2, Summing!CountingUp
<1>4. Ok(n)
  BY <1>3
<1> QED
  BY <1>4 DEF Ok

LEMMA RearrangedTyped ==
    ASSUME NEW S, NEW s \in Seq(S), NEW t \in Rearranged(s)
    PROVE  t \in Seq(S) /\ Len(t) = Len(s)
<1>1. PICK p \in Bijection(1..Len(s), 1..Len(s)) : t = [k \in 1..Len(s) |-> s[p[k]]]
  BY DEF Rearranged
<1>2. Len(s) \in Nat
  OBVIOUS
<1>3. p \in [1..Len(s) -> 1..Len(s)]
  BY <1>2, BijectionIs
<1>4. \A k \in 1..Len(s) : s[p[k]] \in S
  BY <1>3
<1> QED
  BY <1>1, <1>2, <1>4

\* Two rearrangements of one list are rearrangements of each other.
LEMMA RearrangedBack ==
    ASSUME NEW S, NEW s \in Seq(S), NEW u \in Rearranged(s), NEW w \in Rearranged(s)
    PROVE  u \in Rearranged(w)
<1> DEFINE n == Len(s)
<1>0. n \in Nat /\ Len(w) = n
  BY RearrangedTyped
<1>1. PICK q \in Bijection(1..n, 1..n) : u = [k \in 1..n |-> s[q[k]]]
  BY DEF Rearranged
<1>2. PICK p \in Bijection(1..n, 1..n) : w = [k \in 1..n |-> s[p[k]]]
  BY DEF Rearranged
<1> HIDE DEF n
<1>3. /\ p \in [1..n -> 1..n]
      /\ \A i, j \in 1..n : p[i] = p[j] => i = j
      /\ \A v \in 1..n : \E i \in 1..n : p[i] = v
  BY <1>0, BijectionIs
<1>4. /\ q \in [1..n -> 1..n]
      /\ \A i, j \in 1..n : q[i] = q[j] => i = j
      /\ \A v \in 1..n : \E i \in 1..n : q[i] = v
  BY <1>0, BijectionIs
<1> DEFINE r == [k \in 1..n |-> CHOOSE i \in 1..n : p[i] = q[k]]
<1>5. \A k \in 1..n : r[k] \in 1..n /\ p[r[k]] = q[k]
  <2> SUFFICES ASSUME NEW k \in 1..n PROVE r[k] \in 1..n /\ p[r[k]] = q[k]
    OBVIOUS
  <2>1. \E i \in 1..n : p[i] = q[k]
    BY <1>3, <1>4
  <2>2. r[k] = CHOOSE i \in 1..n : p[i] = q[k]
    OBVIOUS
  <2> HIDE DEF r
  <2> QED
    BY <2>1, <2>2
<1>5a. r = [k \in 1..n |-> r[k]]
  OBVIOUS
<1> HIDE DEF r
<1>6. r \in [1..n -> 1..n]
  BY <1>5, <1>5a
<1>7. ASSUME NEW i \in 1..n, NEW j \in 1..n, r[i] = r[j]
      PROVE  i = j
  <2>1. p[r[i]] = q[i] /\ p[r[j]] = q[j]
    BY <1>5
  <2>2. q[i] = q[j]
    BY <1>7, <2>1
  <2> QED
    BY <1>4, <2>2
<1>8. ASSUME NEW v \in 1..n
      PROVE  \E i \in 1..n : r[i] = v
  <2>1. PICK i \in 1..n : q[i] = p[v]
    BY <1>3, <1>4
  <2>2. r[i] = v
    BY <1>3, <1>5, <2>1
  <2> QED
    BY <2>2
<1>9. r \in Bijection(1..n, 1..n)
  BY <1>0, <1>6, <1>7, <1>8, BijectionIs
<1>10. u = [k \in 1..n |-> w[r[k]]]
  BY <1>1, <1>2, <1>5
<1> QED
  BY <1>0, <1>9, <1>10 DEF Rearranged

\* Every list of rows can be ordered.
LEMMA OrderedExists ==
    ASSUME NEW sorts, AllNumeric(sorts), NEW cols, IsList(cols), AllResolve(sorts, cols),
           NEW s \in RowLists(Len(cols))
    PROVE  \E w \in Rearranged(s) : InOrder(sorts, cols, w)
<1> DEFINE n == Len(s)
           m == Len(sorts)
           keys == [k \in 1..n |-> Values(sorts, cols, s[k])]
<1>1. n \in Nat /\ \A k \in 1..n : s[k] \in [1..Len(cols) -> Int]
  BY DEF RowLists
<1>2. m \in Nat
  BY DEF AllNumeric, IsSequence
<1>3. \A k \in 1..n : keys[k] \in Tuples(m)
  <2> SUFFICES ASSUME NEW k \in 1..n PROVE keys[k] \in Tuples(m)
    OBVIOUS
  <2>1. keys[k] \in Seq(Int) /\ Len(keys[k]) = m
    BY <1>1, ValuesAreNumbers
  <2> QED
    BY <2>1, ListIsFunction DEF Tuples
<1> HIDE DEF keys, m, n
<1>4. PICK p \in Bijection(1..n, 1..n) : Ascends(keys, n, p)
  BY <1>1, <1>2, <1>3, SortedOrderExists
<1> DEFINE w == [k \in 1..n |-> s[p[k]]]
<1>5. w \in Rearranged(s)
  BY DEF Rearranged, n
<1>6. Len(w) = n
  BY <1>1
<1>7. p \in [1..n -> 1..n]
  BY <1>1, BijectionIs
<1>8. \A k \in 1..n : Values(sorts, cols, w[k]) = keys[p[k]]
  BY <1>7 DEF keys
<1>9. InOrder(sorts, cols, w)
  <2> HIDE DEF w
  <2>1. \A k \in 1..n : \A j \in 1..k : Precedes(keys[p[j]], keys[p[k]]) /\ j \in 1..n
    BY <1>1, <1>4 DEF Ascends
  <2> QED
    BY <1>6, <1>8, <2>1 DEF InOrder
<1> QED
  BY <1>5, <1>9

SortedRows(sorts, cols, rows) ==
    {t \in UNION {Rearranged(s) : s \in rows} : InOrder(sorts, cols, t)}

SortFits(sorts, cols) == sorts # <<>> /\ AllResolve(sorts, cols)

LEMMA SortMakes ==
    ASSUME NEW r, NEW cols, NEW sorts
    PROVE  SortRel(r, cols, sorts) =
               IF Usable(r, cols) /\ SortFits(sorts, cols)
               THEN [r EXCEPT !.rows = SortedRows(sorts, cols, r.rows)] ELSE Failed
BY Zenon DEF SortRel, SortedRows, SortFits

LEMMA RowsReplaced ==
    ASSUME NEW r, HasFields(r), NEW rows
    PROVE  /\ HasFields([r EXCEPT !.rows = rows])
           /\ [r EXCEPT !.rows = rows].ok = r.ok /\ [r EXCEPT !.rows = rows].width = r.width
           /\ [r EXCEPT !.rows = rows].rows = rows
BY DEF HasFields

LEMMA SortTyped ==
    ASSUME NEW r, IsRelation(r), NEW cols, NEW sorts
    PROVE  IsRelation(SortRel(r, cols, sorts))
<1>1. CASE Usable(r, cols) /\ SortFits(sorts, cols)
  <2> DEFINE new == [r EXCEPT !.rows = SortedRows(sorts, cols, r.rows)]
  <2>1. SortRel(r, cols, sorts) = new
    BY <1>1, SortMakes
  <2>2. HasFields(new) /\ new.width = r.width /\ new.rows = SortedRows(sorts, cols, r.rows)
    BY RowsReplaced DEF IsRelation
  <2>3. r.rows \subseteq RowLists(r.width) /\ r.width \in Nat
    BY <1>1 DEF IsRelation, Usable
  <2>4. ASSUME NEW t \in SortedRows(sorts, cols, r.rows)
        PROVE  t \in RowLists(r.width)
    <3>1. PICK s \in r.rows : t \in Rearranged(s)
      BY DEF SortedRows
    <3>2. s \in Seq([1..r.width -> Int])
      BY <2>3 DEF RowLists
    <3> QED
      BY <3>1, <3>2, RearrangedTyped DEF RowLists
  <2> HIDE DEF new
  <2> QED
    BY <2>1, <2>2, <2>3, <2>4 DEF IsRelation
<1>2. CASE ~(Usable(r, cols) /\ SortFits(sorts, cols))
  <2>1. SortRel(r, cols, sorts) = Failed
    BY <1>2, SortMakes, Zenon
  <2> QED
    BY <2>1, FailedIsRelation
<1> QED
  BY <1>1, <1>2

\* The later of two orderings alone returns nothing that both could not
\* (collapse_adjacent_order_by).
THEOREM SortMerged ==
    ASSUME NEW r, IsRelation(r), NEW cols, IsList(cols),
           NEW before, AllNumeric(before), NEW after
    PROVE  Refines(SortRel(r, cols, after), SortRel(SortRel(r, cols, before), cols, after))
<1> DEFINE inner == SortRel(r, cols, before)
           outer == SortRel(inner, cols, after)
<1>1. CASE ~(Usable(inner, cols) /\ SortFits(after, cols))
  <2>1. outer = Failed
    BY <1>1, SortMakes, Zenon
  <2> HIDE DEF outer
  <2> QED
    BY <2>1, FailedIsRefined DEF outer
<1>2. CASE Usable(inner, cols) /\ SortFits(after, cols)
  <2>1. Usable(r, cols) /\ SortFits(before, cols)
    <3>1. inner.ok
      BY <1>2 DEF Usable
    <3>2. ~Failed.ok
      BY DEF Failed
    <3> HIDE DEF inner
    <3> QED
      BY <3>1, <3>2, SortMakes DEF inner
  <2>2. HasFields(r)
    BY DEF IsRelation
  <2>3. inner = [r EXCEPT !.rows = SortedRows(before, cols, r.rows)]
    BY <2>1, SortMakes
  <2>4. /\ HasFields(inner) /\ inner.ok = r.ok /\ inner.width = r.width
        /\ inner.rows = SortedRows(before, cols, r.rows)
    <3> HIDE DEF inner
    <3> QED
      BY <2>2, <2>3, RowsReplaced
  <2>5. outer = [inner EXCEPT !.rows = SortedRows(after, cols, inner.rows)]
    BY <1>2, SortMakes, Zenon
  <2>6. SortRel(r, cols, after) = [r EXCEPT !.rows = SortedRows(after, cols, r.rows)]
    BY <1>2, <2>1, SortMakes, Zenon
  <2>7. ASSUME NEW u \in SortedRows(after, cols, r.rows)
        PROVE  u \in SortedRows(after, cols, inner.rows)
    <3>1. PICK s \in r.rows : u \in Rearranged(s)
      BY DEF SortedRows
    <3>2. InOrder(after, cols, u)
      BY DEF SortedRows
    <3>3. s \in RowLists(Len(cols))
      BY <2>1 DEF Usable, IsRelation
    <3>4. PICK w \in Rearranged(s) : InOrder(before, cols, w)
      BY <2>1, <3>3, OrderedExists DEF SortFits
    <3>5. u \in Rearranged(w)
      BY <3>1, <3>3, <3>4, RearrangedBack DEF RowLists
    <3>6. w \in SortedRows(before, cols, r.rows)
      BY <3>4 DEF SortedRows
    <3> HIDE DEF inner
    <3>7. w \in inner.rows
      BY <2>4, <3>6
    <3> QED
      BY <3>2, <3>5, <3>7 DEF SortedRows
  <2> HIDE DEF inner, outer
  <2>8. /\ outer.ok = r.ok /\ outer.width = r.width
        /\ outer.rows = SortedRows(after, cols, inner.rows)
    BY <2>4, <2>5, RowsReplaced
  <2>9. /\ SortRel(r, cols, after).ok = r.ok /\ SortRel(r, cols, after).width = r.width
        /\ SortRel(r, cols, after).rows = SortedRows(after, cols, r.rows)
    BY <2>2, <2>6, RowsReplaced
  <2>10. Refines(SortRel(r, cols, after), outer)
    BY <2>7, <2>8, <2>9 DEF Refines
  <2> QED
    BY <2>10 DEF outer, inner
<1> QED
  BY <1>1, <1>2

-----------------------------------------------------------------------------
(* Generators and joins.                                                   *)

LEMMA FlattenUnfolds ==
    ASSUME NEW S, NEW seqs \in Seq(S), Len(seqs) # 0
    PROVE  \E f : /\ \A i \in 1..Len(seqs) : f[i] = FlattenStep(seqs, f, i)
                  /\ FlattenSeq(seqs) = f[Len(seqs)]
<1> DEFINE D == 1..Len(seqs)
           f == CHOOSE f : f = [i \in D |-> FlattenStep(seqs, f, i)]
<1>1. ReadsBefore(seqs, "flat")
  <2> SUFFICES ASSUME NEW j \in D, NEW g, NEW h, \A k \in 1..(j - 1) : g[k] = h[k]
               PROVE  PositionStep(seqs, "flat", g, j) = PositionStep(seqs, "flat", h, j)
    BY DEF ReadsBefore
  <2>1. FlattenStep(seqs, g, j) = FlattenStep(seqs, h, j)
    BY DEF FlattenStep
  <2> QED
    BY <2>1, PositionSteps, Zenon
<1>2. \E g : g = [i \in D |-> FlattenStep(seqs, g, i)]
  <2>1. \E g : g = [i \in D |-> PositionStep(seqs, "flat", g, i)]
    BY <1>1, PositionSolution
  <2> QED
    BY <2>1, PositionSteps
<1>3. f = [i \in D |-> FlattenStep(seqs, f, i)]
  BY <1>2, Zenon
<1>4. FlattenSeq(seqs) = f[Len(seqs)]
  BY Zenon DEF FlattenSeq, FlattenStep
<1> HIDE DEF f
<1>5. \A i \in D : f[i] = FlattenStep(seqs, f, i)
  BY <1>3
<1> QED
  BY <1>4, <1>5

LEMMA JoinedList ==
    ASSUME NEW S, NEW u \in Seq(S), NEW v \in Seq(S)
    PROVE  u \o v \in Seq(S)
OBVIOUS

LEMMA FlattenTyped ==
    ASSUME NEW S, NEW seqs \in Seq(Seq(S))
    PROVE  FlattenSeq(seqs) \in Seq(S)
<1>1. CASE Len(seqs) = 0
  <2>1. FlattenSeq(seqs) = seqs
    BY <1>1, Zenon DEF FlattenSeq
  <2>2. seqs = <<>>
    BY <1>1
  <2> QED
    BY <2>1, <2>2
<1>2. CASE Len(seqs) # 0
  <2> DEFINE n == Len(seqs)
  <2>1. seqs \in Seq(Seq(S)) /\ n \in Nat /\ n >= 1 /\ \A i \in 1..n : seqs[i] \in Seq(S)
    BY <1>2
  <2>2. PICK f : (\A i \in 1..n : f[i] = FlattenStep(seqs, f, i)) /\ FlattenSeq(seqs) = f[n]
    BY <1>2, <2>1, FlattenUnfolds
  <2> HIDE DEF n
  <2>3. \A i \in 1..n : f[i] = FlattenStep(seqs, f, i)
    BY <2>2
  <2> DEFINE G == {i \in 0..n : i # 0 => f[i] \in Seq(S)}
  <2>4. 0 \in G
    BY <2>1
  <2>5. ASSUME NEW i \in 1..n, i - 1 \in G
        PROVE  i \in G
    <3>0. f[i] = FlattenStep(seqs, f, i) /\ seqs[i] \in Seq(S) /\ i \in 0..n
      BY <2>1, <2>3
    <3>1. CASE i = 1
      BY <3>0, <3>1 DEF FlattenStep
    <3>2. CASE i # 1
      <4>1. f[i - 1] \in Seq(S)
        BY <2>5, <3>2
      <4>2. f[i] = f[i - 1] \o seqs[i]
        BY <3>0, <3>2 DEF FlattenStep
      <4>3. f[i] \in Seq(S)
        BY <3>0, <4>1, <4>2, JoinedList
      <4> QED
        BY <3>0, <4>3
    <3> QED
      BY <3>1, <3>2
  <2> HIDE DEF G
  <2>6. \A i \in 0..n : i \in G
    BY <2>1, <2>4, <2>5, ByPosition!CountingUp
  <2>7. n \in G
    BY <2>1, <2>6
  <2> QED
    BY <2>1, <2>2, <2>7 DEF G
<1> QED
  BY <1>1, <1>2

LEMMA ExplodedTyped ==
    ASSUME NEW cols, IsList(cols), NEW g, AllNumeric(g.elements), AllResolve(g.elements, cols),
           NEW s \in RowLists(Len(cols))
    PROVE  ExplodedRows(cols, g, s) \in RowLists(Len(cols) + 1)
<1> DEFINE es == g.elements
           w == Len(cols) + 1
           E(k) == [e \in 1..Len(es) |-> Append(s[k], Value(es[e], cols, s[k]))]
           all == [k \in 1..Len(s) |-> E(k)]
<1>0. Len(cols) \in Nat /\ Len(s) \in Nat /\ \A k \in 1..Len(s) : s[k] \in [1..Len(cols) -> Int]
  BY DEF RowLists, IsList
<1>1. Len(es) \in Nat /\ \A k \in 1..Len(es) : Numeric(es[k])
  BY DEF AllNumeric, IsSequence
<1>2. ExplodedRows(cols, g, s) = FlattenSeq(all)
  BY Zenon DEF ExplodedRows
<1> HIDE DEF es
<1>3. ASSUME NEW k \in 1..Len(s), NEW e \in 1..Len(es)
      PROVE  Append(s[k], Value(es[e], cols, s[k])) \in [1..w -> Int]
  <2>1. s[k] \in Seq(Int) /\ Len(s[k]) = Len(cols)
    BY <1>0
  <2>2. Value(es[e], cols, s[k]) \in Int
    BY <1>0, <1>1, ValueIsNumber DEF AllResolve, es
  <2> DEFINE v == Value(es[e], cols, s[k])
  <2> HIDE DEF v
  <2>3. Append(s[k], v) \in Seq(Int) /\ Len(Append(s[k], v)) = w
    BY <2>1, <2>2 DEF v
  <2>4. Append(s[k], v) \in [1..w -> Int]
    BY <2>3, ListIsFunction
  <2> QED
    BY <2>4 DEF v
<1> HIDE DEF w
<1>4. \A k \in 1..Len(s) : E(k) \in RowLists(w)
  BY <1>1, <1>3 DEF RowLists
<1> HIDE DEF E
<1>5. all \in Seq(RowLists(w))
  BY <1>0, <1>4
<1> HIDE DEF all
<1>6. FlattenSeq(all) \in RowLists(w)
  BY <1>5, FlattenTyped DEF RowLists
<1> QED
  BY <1>2, <1>6 DEF w

LEMMA GeneratorTyped ==
    ASSUME NEW r, IsRelation(r), NEW cols, IsList(cols),
           NEW g, AllNumeric(g.elements), IsList(g.columns), Len(g.columns) = 1
    PROVE  IsRelation(GeneratorRel(r, cols, g))
<1> DEFINE Fits == /\ \A j \in (Len(cols) + 1)..Len(cols \o g.columns) :
                        \A k \in 1..(j - 1) : (cols \o g.columns)[k] # (cols \o g.columns)[j]
                   /\ AllResolve(g.elements, cols)
           new == [ok |-> TRUE, width |-> Len(cols \o g.columns),
                   rows |-> {ExplodedRows(cols, g, t) : t \in r.rows}]
<1>1. CASE Usable(r, cols) /\ Fits
  <2>1. GeneratorRel(r, cols, g) = new
    BY <1>1, Zenon DEF GeneratorRel, ExplodedRows
  <2>2. r.rows \subseteq RowLists(Len(cols))
    BY <1>1 DEF IsRelation, Usable
  <2>3. \A t \in r.rows : ExplodedRows(cols, g, t) \in RowLists(Len(cols) + 1)
    BY <1>1, <2>2, ExplodedTyped
  <2>4. Len(cols \o g.columns) = Len(cols) + 1 /\ Len(cols) + 1 \in Nat
    <3>1. /\ Len(cols \o g.columns) = Len(cols) + Len(g.columns)
          /\ Len(cols) \in Nat /\ Len(g.columns) \in Nat
      <4> HIDE DEF Fits, new
      <4> QED
        BY ListsAdd
    <3> QED
      BY <3>1
  <2>5. IsRelation(new)
    BY <2>3, <2>4 DEF IsRelation, HasFields
  <2> QED
    BY <2>1, <2>5
<1>2. CASE ~(Usable(r, cols) /\ Fits)
  <2>1. GeneratorRel(r, cols, g) = Failed
    BY <1>2, Zenon DEF GeneratorRel
  <2> QED
    BY <2>1, FailedIsRelation
<1> QED
  BY <1>1, <1>2

LEMMA MatchedTyped ==
    ASSUME NEW n \in Nat, NEW pad \in Nat, NEW cols, NEW p, NEW kind,
           NEW l \in [1..n -> Int], NEW t \in RowLists(pad)
    PROVE  MatchedRows(cols, pad, p, kind, l, t) \in RowLists(n + pad)
<1> DEFINE w == n + pad
           both == [k \in 1..Len(t) |-> l \o t[k]]
           pairs == Satisfying(p, cols, both)
           none == [k \in 1..pad |-> Null]
<1>0. Len(t) \in Nat /\ \A k \in 1..Len(t) : t[k] \in Seq(Int) /\ Len(t[k]) = pad
  BY DEF RowLists
<1>1. l \in Seq(Int) /\ Len(l) = n
  OBVIOUS
<1>2. \A k \in 1..Len(t) : l \o t[k] \in [1..w -> Int]
  BY <1>0, <1>1, JoinedNumbers
<1>3. none \in Seq(Int) /\ Len(none) = pad
  BY DEF Null
<1>3a. l \o none \in [1..w -> Int]
  <2> HIDE DEF none
  <2> QED
    BY <1>1, <1>3, JoinedNumbers
<1> HIDE DEF w
<1>4. both \in Seq([1..w -> Int])
  BY <1>0, <1>2
<1> HIDE DEF both
<1>5. pairs \in Seq([1..w -> Int])
  BY <1>4, SatisfyingKeeps
<1>6. MatchedRows(cols, pad, p, kind, l, t)
          = IF kind = "left" /\ pairs = <<>> THEN <<l \o none>> ELSE pairs
  BY Zenon DEF MatchedRows, both
<1>7. <<l \o none>> \in Seq([1..w -> Int])
  <2> HIDE DEF none
  <2> QED
    BY <1>3a
<1> HIDE DEF pairs, none
<1>8. MatchedRows(cols, pad, p, kind, l, t) \in Seq([1..w -> Int])
  BY <1>5, <1>6, <1>7
<1> QED
  BY <1>8 DEF RowLists, w

LEMMA JoinTyped ==
    ASSUME NEW l, IsRelation(l), NEW lc, IsList(lc), NEW r, IsRelation(r), NEW rc, IsList(rc),
           NEW p, NEW kind
    PROVE  IsRelation(JoinRel(l, lc, r, rc, p, kind))
<1> DEFINE Fits == Resolves(p, lc \o rc)
           new == [ok |-> TRUE, width |-> Len(lc \o rc),
                   rows |-> UNION {{JoinedRows(lc \o rc, Len(rc), p, kind, s, t) : s \in l.rows}
                                      : t \in r.rows}]
<1>1. CASE Usable(l, lc) /\ Usable(r, rc) /\ Fits
  <2>1. JoinRel(l, lc, r, rc, p, kind) = new
    BY <1>1, Zenon DEF JoinRel, JoinedRows, MatchedRows
  <2>2. l.rows \subseteq RowLists(Len(lc)) /\ r.rows \subseteq RowLists(Len(rc))
    BY <1>1 DEF IsRelation, Usable
  <2>3. Len(lc \o rc) = Len(lc) + Len(rc) /\ Len(lc) \in Nat /\ Len(rc) \in Nat
    BY ListsAdd
  <2>4. ASSUME NEW s \in l.rows, NEW t \in r.rows
        PROVE  JoinedRows(lc \o rc, Len(rc), p, kind, s, t) \in RowLists(Len(lc) + Len(rc))
    <3> DEFINE w == Len(lc) + Len(rc)
               M(k) == MatchedRows(lc \o rc, Len(rc), p, kind, s[k], t)
               all == [k \in 1..Len(s) |-> M(k)]
    <3>1. Len(s) \in Nat /\ \A k \in 1..Len(s) : s[k] \in [1..Len(lc) -> Int]
      BY <2>2 DEF RowLists
    <3>1a. t \in RowLists(Len(rc))
      BY <2>2
    <3>2. \A k \in 1..Len(s) : M(k) \in RowLists(w)
      BY <2>3, <3>1, <3>1a, MatchedTyped
    <3>3. JoinedRows(lc \o rc, Len(rc), p, kind, s, t) = FlattenSeq(all)
      BY Zenon DEF JoinedRows
    <3> HIDE DEF M, w
    <3>4. all \in Seq(RowLists(w))
      BY <3>1, <3>2
    <3> HIDE DEF all
    <3>5. FlattenSeq(all) \in RowLists(w)
      BY <3>4, FlattenTyped DEF RowLists
    <3> QED
      BY <3>3, <3>5 DEF w
  <2>5. Len(lc) + Len(rc) \in Nat
    BY <2>3
  <2>6. IsRelation(new)
    BY <2>3, <2>4, <2>5 DEF IsRelation, HasFields
  <2> QED
    BY <2>1, <2>6
<1>2. CASE ~(Usable(l, lc) /\ Usable(r, rc) /\ Fits)
  <2>1. JoinRel(l, lc, r, rc, p, kind) = Failed
    BY <1>2, Zenon DEF JoinRel
  <2> QED
    BY <2>1, FailedIsRelation
<1> QED
  BY <1>1, <1>2

-----------------------------------------------------------------------------
(* Windows of windows.                                                     *)

\* The rows of t are those of s with more columns.
Extended(cols, s, t) ==
    /\ s \in RowLists(Len(cols)) /\ Len(t) = Len(s)
    /\ \A k \in 1..Len(s) : \E x \in Seq(Int) : t[k] = s[k] \o x

LEMMA ValueExtended ==
    ASSUME NEW cols, IsList(cols), NEW more, IsList(more), NEW s, NEW t, Extended(cols, s, t),
           NEW k \in 1..Len(s), NEW e, Numeric(e), Resolves(e, cols)
    PROVE  Value(e, cols \o more, t[k]) = Value(e, cols, s[k])
<1>1. PICK x \in Seq(Int) : t[k] = s[k] \o x
  BY DEF Extended
<1>2. Len(cols) \in Nat
  BY DEF IsList
<1>3. s[k] \in Seq(Int) /\ Len(s[k]) = Len(cols)
  <2>1. s[k] \in [1..Len(cols) -> Int]
    BY DEF Extended, RowLists
  <2> QED
    BY <1>2, <2>1
<1>4. IsList(s[k]) /\ IsList(x)
  BY <1>3 DEF IsList
<1> QED
  BY <1>1, <1>3, <1>4, ValueAppended

LEMMA SameValuesExtended ==
    ASSUME NEW cols, IsList(cols), NEW more, IsList(more), NEW s, NEW t, Extended(cols, s, t),
           NEW es, AllNumeric(es), AllResolve(es, cols)
    PROVE  /\ \A k \in 1..Len(s) : Values(es, cols \o more, t[k]) = Values(es, cols, s[k])
           /\ \A key : SameValues(es, cols \o more, t, key) = SameValues(es, cols, s, key)
<1>1. \A e \in 1..Len(es) : Numeric(es[e]) /\ Resolves(es[e], cols)
  BY DEF AllNumeric, IsSequence, AllResolve
<1>2. \A k \in 1..Len(s) : Values(es, cols \o more, t[k]) = Values(es, cols, s[k])
  <2> SUFFICES ASSUME NEW k \in 1..Len(s)
               PROVE  Values(es, cols \o more, t[k]) = Values(es, cols, s[k])
    OBVIOUS
  <2>1. \A e \in 1..Len(es) : Value(es[e], cols \o more, t[k]) = Value(es[e], cols, s[k])
    BY <1>1, ValueExtended
  <2> QED
    BY <2>1 DEF Values
<1>3. Len(t) = Len(s)
  BY DEF Extended
<1> QED
  BY <1>2, <1>3 DEF SameValues

LEMMA MeasuredExtended ==
    ASSUME NEW cols, IsList(cols), NEW more, IsList(more), NEW s, NEW t, Extended(cols, s, t),
           NEW m, m.fn = "count" \/ (Numeric(m.arg) /\ Resolves(m.arg, cols)),
           NEW part \in SUBSET (1..Len(s))
    PROVE  Measured(m, cols \o more, t, part) = Measured(m, cols, s, part)
<1>1. CASE m.fn = "count"
  BY <1>1 DEF Measured
<1>2. CASE m.fn # "count"
  <2>1. \A k \in part : Value(m.arg, cols \o more, t[k]) = Value(m.arg, cols, s[k])
    BY <1>2, ValueExtended
  <2>2. [k \in part |-> Value(m.arg, cols \o more, t[k])] = [k \in part |-> Value(m.arg, cols, s[k])]
    BY <2>1
  <2> QED
    BY <1>2, <2>2, Zenon DEF Measured
<1> QED
  BY <1>1, <1>2

\* The places of a list and of another after it.
LEMMA ConcatAt ==
    ASSUME NEW a, IsList(a), NEW b, IsList(b)
    PROVE  /\ Len(a \o b) = Len(a) + Len(b) /\ Len(a) \in Nat /\ Len(b) \in Nat
           /\ \A k \in 1..Len(a) : (a \o b)[k] = a[k]
           /\ \A k \in 1..Len(b) : (a \o b)[Len(a) + k] = b[k]
<1>1. PICK S : a \in Seq(S) /\ b \in Seq(S)
  BY ListsShareASet
<1> QED
  BY <1>1

LEMMA MeasuredListsJoin ==
    ASSUME NEW a, IsList(a), NEW b, IsList(b), NEW cols, NEW s, NEW part,
           MeasuredList(a, cols, s, part) \in Seq(Int), MeasuredList(b, cols, s, part) \in Seq(Int)
    PROVE  MeasuredList(a \o b, cols, s, part)
               = MeasuredList(a, cols, s, part) \o MeasuredList(b, cols, s, part)
<1> DEFINE u == MeasuredList(a, cols, s, part)
           v == MeasuredList(b, cols, s, part)
           w == MeasuredList(a \o b, cols, s, part)
<1>1. /\ Len(a \o b) = Len(a) + Len(b) /\ Len(a) \in Nat /\ Len(b) \in Nat
      /\ \A k \in 1..Len(a) : (a \o b)[k] = a[k]
      /\ \A k \in 1..Len(b) : (a \o b)[Len(a) + k] = b[k]
  BY ConcatAt
<1>2. /\ Len(u) = Len(a) /\ \A k \in 1..Len(a) : u[k] = Measured(a[k], cols, s, part)
      /\ Len(v) = Len(b) /\ \A k \in 1..Len(b) : v[k] = Measured(b[k], cols, s, part)
  BY <1>1 DEF MeasuredList
<1>3. /\ DOMAIN w = 1..(Len(a) + Len(b)) /\ w = [k \in 1..(Len(a) + Len(b)) |-> w[k]]
      /\ \A k \in 1..(Len(a) + Len(b)) : w[k] = Measured((a \o b)[k], cols, s, part)
  BY <1>1 DEF MeasuredList
<1> HIDE DEF u, v, w
<1>4. u \in Seq(Int) /\ v \in Seq(Int)
  BY DEF u, v
<1>5. /\ u \o v \in Seq(Int) /\ Len(u \o v) = Len(a) + Len(b)
      /\ \A k \in 1..Len(a) : (u \o v)[k] = u[k]
      /\ \A k \in 1..Len(b) : (u \o v)[Len(a) + k] = v[k]
  <2>1. IsList(u) /\ IsList(v)
    BY <1>4 DEF IsList
  <2>2. u \o v \in Seq(Int)
    BY <1>4, JoinedList
  <2>3. /\ Len(u \o v) = Len(u) + Len(v)
        /\ \A k \in 1..Len(u) : (u \o v)[k] = u[k]
        /\ \A k \in 1..Len(v) : (u \o v)[Len(u) + k] = v[k]
    BY <2>1, ConcatAt
  <2> QED
    BY <1>2, <2>2, <2>3
<1>6. \A k \in 1..(Len(a) + Len(b)) : w[k] = (u \o v)[k]
  <2> SUFFICES ASSUME NEW k \in 1..(Len(a) + Len(b)) PROVE w[k] = (u \o v)[k]
    OBVIOUS
  <2>1. CASE k \in 1..Len(a)
    BY <1>1, <1>2, <1>3, <1>5, <2>1
  <2>2. CASE k \notin 1..Len(a)
    <3>1. k - Len(a) \in 1..Len(b) /\ k = Len(a) + (k - Len(a))
      BY <1>1, <2>2
    <3>2. (a \o b)[k] = b[k - Len(a)]
      BY <1>1, <3>1
    <3>3. (u \o v)[k] = v[k - Len(a)]
      BY <1>5, <3>1
    <3> QED
      BY <1>2, <1>3, <3>1, <3>2, <3>3
  <2> QED
    BY <2>1, <2>2
<1>7. w = u \o v
  <2> DEFINE N == Len(a) + Len(b)
             c == u \o v
  <2>1. c \in Seq(Int) /\ Len(c) = N /\ N \in Nat
    BY <1>1, <1>5
  <2>2. DOMAIN w = 1..N /\ w = [k \in 1..N |-> w[k]] /\ \A k \in 1..N : w[k] = c[k]
    BY <1>3, <1>6
  <2> HIDE DEF N, c
  <2>3. c = [k \in 1..N |-> c[k]]
    BY <2>1
  <2>4. w = c
    BY <2>2, <2>3
  <2> QED
    BY <2>4 DEF c
<1> QED
  BY <1>7 DEF u, v, w

\* One partitioning for the windows of both lists.
OneBoundary(a, b) ==
    /\ a # <<>> /\ b # <<>>
    /\ \A k \in 1..Len(a) : a[k].spec = a[1].spec
    /\ \A k \in 1..Len(b) : b[k].spec = a[1].spec

\* No function of b reads a column of a.
ReadsNone(b, a) == \A k \in 1..Len(b) : \A j \in 1..Len(a) : b[k].arg.name # a[j].name

LEMMA BoundaryJoined ==
    ASSUME NEW a, IsList(a), NEW b, IsList(b), OneBoundary(a, b)
    PROVE  /\ \A k \in 1..Len(a \o b) : (a \o b)[k].spec = (a \o b)[1].spec
           /\ (a \o b)[1].spec = a[1].spec /\ b[1].spec = a[1].spec
<1>1. /\ Len(a \o b) = Len(a) + Len(b) /\ Len(a) \in Nat /\ Len(b) \in Nat
      /\ \A k \in 1..Len(a) : (a \o b)[k] = a[k]
      /\ \A k \in 1..Len(b) : (a \o b)[Len(a) + k] = b[k]
  BY ConcatAt
<1>2. Len(a) # 0 /\ Len(b) # 0
  BY DEF OneBoundary, IsList
<1>3. 1 \in 1..Len(a) /\ 1 \in 1..Len(b)
  BY <1>1, <1>2
<1>4. (a \o b)[1] = a[1] /\ b[1].spec = a[1].spec
  BY <1>1, <1>3 DEF OneBoundary
<1>5. ASSUME NEW k \in 1..Len(a \o b)
      PROVE  (a \o b)[k].spec = a[1].spec
  <2>1. CASE k \in 1..Len(a)
    BY <1>1, <2>1 DEF OneBoundary
  <2>2. CASE k \notin 1..Len(a)
    <3>1. k - Len(a) \in 1..Len(b) /\ k = Len(a) + (k - Len(a))
      BY <1>1, <2>2
    <3>2. (a \o b)[k] = b[k - Len(a)]
      BY <1>1, <3>1
    <3> QED
      BY <3>1, <3>2 DEF OneBoundary
  <2> QED
    BY <2>1, <2>2
<1> QED
  BY <1>4, <1>5

LEMMA MeasuresResolveJoined ==
    ASSUME NEW a, IsList(a), NEW b, IsList(b), NEW cols,
           MeasuresResolve(a, cols), MeasuresResolve(b, cols)
    PROVE  MeasuresResolve(a \o b, cols)
<1>1. /\ Len(a \o b) = Len(a) + Len(b) /\ Len(a) \in Nat /\ Len(b) \in Nat
      /\ \A k \in 1..Len(a) : (a \o b)[k] = a[k]
      /\ \A k \in 1..Len(b) : (a \o b)[Len(a) + k] = b[k]
  BY ConcatAt
<1> SUFFICES ASSUME NEW k \in 1..Len(a \o b)
             PROVE  (a \o b)[k].fn = "count" \/ Resolves((a \o b)[k].arg, cols)
  BY DEF MeasuresResolve
<1>2. CASE k \in 1..Len(a)
  BY <1>1, <1>2 DEF MeasuresResolve
<1>3. CASE k \notin 1..Len(a)
  <2>1. k - Len(a) \in 1..Len(b) /\ k = Len(a) + (k - Len(a))
    BY <1>1, <1>3
  <2>2. (a \o b)[k] = b[k - Len(a)]
    BY <1>1, <2>1
  <2> QED
    BY <2>1, <2>2 DEF MeasuresResolve
<1> QED
  BY <1>2, <1>3

LEMMA MeasuresResolveBefore ==
    ASSUME NEW cols, IsList(cols), NEW a, IsList(a), NEW b,
           MeasuresResolve(b, cols \o NamesOf(a)), ReadsNone(b, a)
    PROVE  MeasuresResolve(b, cols)
<1>1. IsList(NamesOf(a)) /\ Len(NamesOf(a)) = Len(a)
  BY NamesAreList
<1>2. \A j \in 1..Len(a) : NamesOf(a)[j] = a[j].name
  BY DEF NamesOf
<1> SUFFICES ASSUME NEW k \in 1..Len(b), b[k].fn # "count"
             PROVE  Resolves(b[k].arg, cols)
  BY DEF MeasuresResolve
<1>3. Resolves(b[k].arg, cols \o NamesOf(a))
  BY DEF MeasuresResolve
<1>4. \A j \in 1..Len(NamesOf(a)) : NamesOf(a)[j] # b[k].arg.name
  BY <1>1, <1>2 DEF ReadsNone
<1> QED
  BY <1>1, <1>3, <1>4, ResolvesAppended

\* Two groups of windows over one partitioning, the second blind to the first.
Chained(cols, a, b) ==
    /\ IsList(cols) /\ MeasuresNumeric(a) /\ MeasuresNumeric(b)
    /\ OneBoundary(a, b) /\ AllNumeric(a[1].spec) /\ ReadsNone(b, a)
    /\ WindowFits(cols, a) /\ WindowFits(cols \o NamesOf(a), b)

LEMMA ChainedLists ==
    ASSUME NEW cols, NEW a, NEW b, Chained(cols, a, b)
    PROVE  /\ IsList(cols) /\ IsList(a) /\ IsList(b) /\ IsList(NamesOf(a))
           /\ Len(NamesOf(a)) = Len(a)
           /\ MeasuresResolve(a, cols) /\ MeasuresResolve(b, cols)
           /\ AllResolve(a[1].spec, cols)
<1>1. IsList(cols) /\ IsList(a) /\ IsList(b)
  BY DEF Chained, MeasuresNumeric, IsSequence, IsList
<1>2. IsList(NamesOf(a)) /\ Len(NamesOf(a)) = Len(a)
  BY <1>1, NamesAreList
<1>3. MeasuresResolve(a, cols) /\ AllResolve(a[1].spec, cols)
  BY DEF Chained, WindowFits
<1>4. MeasuresResolve(b, cols)
  BY <1>1, MeasuresResolveBefore DEF Chained, WindowFits
<1> QED
  BY <1>1, <1>2, <1>3, <1>4

LEMMA ChainFits ==
    ASSUME NEW cols, NEW a, NEW b, Chained(cols, a, b)
    PROVE  WindowFits(cols, a \o b)
<1>1. /\ IsList(a) /\ IsList(b) /\ MeasuresResolve(a, cols) /\ MeasuresResolve(b, cols)
      /\ AllResolve(a[1].spec, cols)
  BY ChainedLists
<1>2. OneBoundary(a, b)
  BY DEF Chained
<1> QED
  BY <1>1, <1>2, BoundaryJoined, MeasuresResolveJoined DEF WindowFits

LEMMA JoinedRowsAssociate ==
    ASSUME NEW u \in Seq(Int), NEW v \in Seq(Int), NEW w \in Seq(Int)
    PROVE  (u \o v) \o w = u \o (v \o w)
<1>1. IsList(u) /\ IsList(v) /\ IsList(w)
  BY DEF IsList
<1>2. Associates(u, v, w)
  BY <1>1, ListsAssociate
<1> QED
  BY <1>2 DEF Associates

LEMMA ChainedRow ==
    ASSUME NEW cols, NEW a, NEW b, Chained(cols, a, b), NEW s \in RowLists(Len(cols)),
           NEW k \in 1..Len(s)
    PROVE  WindowRow(cols, a \o b, s, s[k])
               = WindowRow(cols \o NamesOf(a), b, WindowedRows(cols, a, s), WindowedRows(cols, a, s)[k])
<1> DEFINE t == WindowedRows(cols, a, s)
           more == NamesOf(a)
           spec == a[1].spec
           key == Values(spec, cols, s[k])
           part == SameValues(spec, cols, s, key)
           ma == MeasuredList(a, cols, s, part)
           mb == MeasuredList(b, cols, s, part)
<1>1. /\ IsList(cols) /\ IsList(a) /\ IsList(b) /\ IsList(more)
      /\ MeasuresResolve(a, cols) /\ MeasuresResolve(b, cols) /\ AllResolve(spec, cols)
  BY ChainedLists
<1>2. /\ MeasuresNumeric(a) /\ MeasuresNumeric(b) /\ AllNumeric(spec)
      /\ OneBoundary(a, b)
  BY DEF Chained
<1>3. /\ Len(t) = Len(s) /\ \A j \in 1..Len(s) : t[j] = WindowRow(cols, a, s, s[j])
  BY <1>1, <1>2, WindowedRowsTyped
<1>4. part \in SUBSET (1..Len(s))
  BY DEF SameValues
<1>5. (a \o b)[1].spec = spec /\ b[1].spec = spec
  BY <1>1, <1>2, BoundaryJoined
<1>6. ma \in Seq(Int) /\ mb \in Seq(Int)
  <2> HIDE DEF part, t
  <2> QED
    BY <1>1, <1>2, <1>4, MeasuredListTyped
<1>7. Extended(cols, s, t)
  <2> SUFFICES ASSUME NEW j \in 1..Len(s)
               PROVE  \E x \in Seq(Int) : t[j] = s[j] \o x
    BY <1>3 DEF Extended
  <2> DEFINE q == SameValues(spec, cols, s, Values(spec, cols, s[j]))
             x == MeasuredList(a, cols, s, q)
  <2>1. q \in SUBSET (1..Len(s))
    BY DEF SameValues
  <2>2. x \in Seq(Int)
    BY <1>1, <1>2, <2>1, MeasuredListTyped
  <2>3. t[j] = s[j] \o x
    BY <1>3 DEF WindowRow
  <2> QED
    BY <2>2, <2>3
<1> DEFINE wide == cols \o more
<1>8. Values(spec, wide, t[k]) = key
  BY <1>1, <1>2, <1>7, SameValuesExtended
<1>9. SameValues(spec, wide, t, key) = part
  BY <1>1, <1>2, <1>7, SameValuesExtended
<1>10. MeasuredList(b, wide, t, part) = mb
  <2>1. Len(b) \in Nat /\ \A j \in 1..Len(b) : b[j].fn = "count" \/ Numeric(b[j].arg)
    BY <1>2 DEF MeasuresNumeric, IsSequence
  <2>2. \A j \in 1..Len(b) :
            b[j].fn = "count" \/ (Numeric(b[j].arg) /\ Resolves(b[j].arg, cols))
    BY <1>1, <2>1 DEF MeasuresResolve
  <2>3. \A j \in 1..Len(b) : Measured(b[j], wide, t, part) = Measured(b[j], cols, s, part)
    <3> HIDE DEF t, part, more
    <3> QED
      BY <1>1, <1>4, <1>7, <2>2, MeasuredExtended
  <2> HIDE DEF t, part, wide
  <2> QED
    BY <2>3 DEF MeasuredList
<1>11. WindowRow(wide, b, t, t[k]) = t[k] \o mb
  <2> HIDE DEF t, key, part, wide, mb
  <2> QED
    BY <1>5, <1>8, <1>9, <1>10 DEF WindowRow
<1>12. t[k] = s[k] \o ma
  BY <1>3 DEF WindowRow
<1>13. WindowRow(cols, a \o b, s, s[k]) = s[k] \o MeasuredList(a \o b, cols, s, part)
  BY <1>5 DEF WindowRow
<1>14. MeasuredList(a \o b, cols, s, part) = ma \o mb
  <2> HIDE DEF part
  <2> QED
    BY <1>1, <1>6, MeasuredListsJoin
<1>15. s[k] \in Seq(Int)
  <2>1. s[k] \in [1..Len(cols) -> Int] /\ Len(cols) \in Nat
    BY <1>1 DEF RowLists, IsList
  <2> QED
    BY <2>1
<1> HIDE DEF ma, mb, t, wide, part
<1>16. (s[k] \o ma) \o mb = s[k] \o (ma \o mb)
  BY <1>6, <1>15, JoinedRowsAssociate
<1>17. WindowRow(cols, a \o b, s, s[k]) = WindowRow(wide, b, t, t[k])
  BY <1>11, <1>12, <1>13, <1>14, <1>16
<1> QED
  BY <1>17 DEF wide, t

LEMMA ChainedRows ==
    ASSUME NEW cols, NEW a, NEW b, Chained(cols, a, b), NEW s \in RowLists(Len(cols))
    PROVE  WindowedRows(cols, a \o b, s)
               = WindowedRows(cols \o NamesOf(a), b, WindowedRows(cols, a, s))
<1> DEFINE t == WindowedRows(cols, a, s)
           wide == cols \o NamesOf(a)
<1>1. /\ IsList(cols) /\ IsList(a) /\ IsList(b) /\ IsList(NamesOf(a))
      /\ MeasuresResolve(a, cols) /\ MeasuresResolve(b, cols)
  BY ChainedLists
<1>2. MeasuresNumeric(a)
  BY DEF Chained
<1>3. Len(t) = Len(s) /\ Len(s) \in Nat
  <2>1. Len(t) = Len(s)
    BY <1>1, <1>2, WindowedRowsTyped
  <2>2. Len(s) \in Nat
    BY DEF RowLists
  <2> QED
    BY <2>1, <2>2
<1>4. \A k \in 1..Len(s) : WindowRow(cols, a \o b, s, s[k]) = WindowRow(wide, b, t, t[k])
  BY ChainedRow
<1>5. WindowedRows(cols, a \o b, s) = [k \in 1..Len(s) |-> WindowRow(cols, a \o b, s, s[k])]
  BY Zenon DEF WindowedRows, WindowRow, MeasuredList
<1>6. WindowedRows(wide, b, t) = [k \in 1..Len(t) |-> WindowRow(wide, b, t, t[k])]
  BY Zenon DEF WindowedRows, WindowRow, MeasuredList
<1> HIDE DEF t, wide
<1>7. WindowedRows(cols, a \o b, s) = WindowedRows(wide, b, t)
  BY <1>3, <1>4, <1>5, <1>6
<1> QED
  BY <1>7 DEF t, wide

\* A window over a window with the same partitioning is one with the functions of
\* both, if the second reads no column of the first (collapse_adjacent_window).
THEOREM WindowMerged ==
    ASSUME NEW r, IsRelation(r), NEW cols, IsList(cols),
           NEW a, MeasuresNumeric(a), NEW b, MeasuresNumeric(b),
           OneBoundary(a, b), AllNumeric(a[1].spec), ReadsNone(b, a)
    PROVE  Refines(WindowRel(r, cols, a \o b),
                   WindowRel(WindowRel(r, cols, a), cols \o NamesOf(a), b))
<1> DEFINE wide == cols \o NamesOf(a)
           inner == WindowRel(r, cols, a)
           outer == WindowRel(inner, wide, b)
<1>1. CASE ~(Usable(inner, wide) /\ WindowFits(wide, b))
  <2>1. outer = Failed
    BY <1>1, WindowMakes, Zenon
  <2> HIDE DEF outer
  <2> QED
    BY <2>1, FailedIsRefined DEF outer
<1>2. CASE Usable(inner, wide) /\ WindowFits(wide, b)
  <2>1. Usable(r, cols) /\ WindowFits(cols, a)
    <3>1. inner.ok
      BY <1>2 DEF Usable
    <3>2. ~Failed.ok
      BY DEF Failed
    <3> HIDE DEF inner
    <3> QED
      BY <3>1, <3>2, WindowMakes DEF inner
  <2>2. Chained(cols, a, b)
    BY <1>2, <2>1 DEF Chained
  <2>3. inner = WindowedRel(r, cols, a)
    BY <2>1, WindowMakes, Zenon
  <2>4. outer = WindowedRel(inner, wide, b)
    BY <1>2, WindowMakes, Zenon
  <2>5. WindowRel(r, cols, a \o b) = WindowedRel(r, cols, a \o b)
    BY <2>1, <2>2, ChainFits, WindowMakes, Zenon
  <2>6. \A s \in r.rows : WindowedRows(cols, a \o b, s) = WindowedRows(wide, b, WindowedRows(cols, a, s))
    <3>1. \A s \in r.rows : s \in RowLists(Len(cols))
      BY <2>1 DEF Usable, IsRelation
    <3> QED
      BY <2>2, <3>1, ChainedRows
  <2>7. (r.width + Len(a)) + Len(b) = r.width + Len(a \o b)
    <3>1. IsList(a) /\ IsList(b)
      BY <2>2, ChainedLists
    <3>2. Len(a \o b) = Len(a) + Len(b) /\ Len(a) \in Nat /\ Len(b) \in Nat
      BY <3>1, ListsAdd
    <3>3. r.width \in Nat
      BY <2>1 DEF IsRelation, Usable
    <3> QED
      BY <3>2, <3>3
  <2> HIDE DEF wide
  <2>8. Refines(WindowedRel(r, cols, a \o b), WindowedRel(WindowedRel(r, cols, a), wide, b))
    <3>1. WindowedRel(r, cols, a).rows = {WindowedRows(cols, a, s) : s \in r.rows}
      BY DEF WindowedRel
    <3>2. WindowedRel(r, cols, a \o b).rows \subseteq
              WindowedRel(WindowedRel(r, cols, a), wide, b).rows
      BY <2>6, <3>1 DEF WindowedRel
    <3>3. WindowedRel(r, cols, a \o b).width = WindowedRel(WindowedRel(r, cols, a), wide, b).width
      BY <2>7 DEF WindowedRel
    <3> QED
      BY <3>2, <3>3 DEF Refines, WindowedRel
  <2> HIDE DEF inner, outer
  <2> QED
    BY <2>3, <2>4, <2>5, <2>8 DEF outer, inner, wide
<1> QED
  BY <1>1, <1>2

-----------------------------------------------------------------------------
(* The recursions over a node list.                                        *)

\* Every node has the inputs of its kind, and they come before it.
ReadsEarlier(ns) ==
    /\ Len(ns) \in Nat
    /\ \A i \in 1..Len(ns) :
          /\ ns[i].kind \in Kind
          /\ ns[i].kind # "ReadNamedTable" => ns[i].inputs[1] \in 1..(i - 1)
          /\ ns[i].kind = "Join" => ns[i].inputs[2] \in 1..(i - 1)

LEMMA KeptUnfolds ==
    ASSUME NEW ns, ReadsEarlier(ns), NEW i \in 1..Len(ns)
    PROVE  Kept(ns)[i] = KeptStep(ns, Kept(ns), i)
<1>1. ReadsBefore(ns, "kept")
  <2> SUFFICES ASSUME NEW j \in 1..Len(ns), NEW g, NEW h, \A k \in 1..(j - 1) : g[k] = h[k]
               PROVE  KeptStep(ns, g, j) = KeptStep(ns, h, j)
    BY PositionSteps DEF ReadsBefore
  <2> QED
    BY DEF KeptStep, Erased, ReadsEarlier
<1>2. \E f : f = [j \in 1..Len(ns) |-> KeptStep(ns, f, j)]
  <2>1. \E f : f = [j \in 1..Len(ns) |-> PositionStep(ns, "kept", f, j)]
    BY <1>1, PositionSolution DEF ReadsEarlier
  <2> QED
    BY <2>1, PositionSteps
<1>3. Kept(ns) = [j \in 1..Len(ns) |-> KeptStep(ns, Kept(ns), j)]
  BY <1>2, Zenon DEF Kept, KeptStep
<1> QED
  BY <1>3

LEMMA PrefixUnfolds ==
    ASSUME NEW ns, ReadsEarlier(ns), NEW i \in 1..Len(ns)
    PROVE  PrefixColumns(ns)[i] = PrefixStep(ns, PrefixColumns(ns), i)
<1>1. ReadsBefore(ns, "prefix")
  <2> SUFFICES ASSUME NEW j \in 1..Len(ns), NEW g, NEW h, \A k \in 1..(j - 1) : g[k] = h[k]
               PROVE  PrefixStep(ns, g, j) = PrefixStep(ns, h, j)
    BY PositionSteps DEF ReadsBefore
  <2> QED
    BY DEF PrefixStep, ReadsEarlier
<1>2. \E f : f = [j \in 1..Len(ns) |-> PrefixStep(ns, f, j)]
  <2>1. \E f : f = [j \in 1..Len(ns) |-> PositionStep(ns, "prefix", f, j)]
    BY <1>1, PositionSolution DEF ReadsEarlier
  <2> QED
    BY <2>1, PositionSteps
<1>3. PrefixColumns(ns) = [j \in 1..Len(ns) |-> PrefixStep(ns, PrefixColumns(ns), j)]
  BY <1>2, Zenon DEF PrefixColumns, PrefixStep
<1> QED
  BY <1>3

LEMMA ColumnsUnfold ==
    ASSUME NEW ns, ReadsEarlier(ns), NEW i \in 1..Len(ns)
    PROVE  PlannedColumns(ns)[i] = PlannedNode(ns, PrefixColumns(ns), PlannedColumns(ns), i)
<1>1. ReadsBefore(ns, "columns")
  <2> SUFFICES ASSUME NEW j \in 1..Len(ns), NEW g, NEW h, \A k \in 1..(j - 1) : g[k] = h[k]
               PROVE  ColumnsStep(ns, g, j) = ColumnsStep(ns, h, j)
    BY PositionSteps DEF ReadsBefore
  <2> QED
    BY DEF ColumnsStep, PlannedNode, ReadsEarlier
<1>2. \E f : f = [j \in 1..Len(ns) |-> ColumnsStep(ns, f, j)]
  <2>1. \E f : f = [j \in 1..Len(ns) |-> PositionStep(ns, "columns", f, j)]
    BY <1>1, PositionSolution DEF ReadsEarlier
  <2> QED
    BY <2>1, PositionSteps
<1>3. PlannedColumns(ns) = [j \in 1..Len(ns) |-> ColumnsStep(ns, PlannedColumns(ns), j)]
  BY <1>2, Zenon DEF PlannedColumns, ColumnsStep
<1> QED
  BY <1>3 DEF ColumnsStep

LEMMA LoweringUnfolds ==
    ASSUME NEW ns, ReadsEarlier(ns), NEW i \in 1..Len(ns)
    PROVE  Lowered(ns)[i] = LoweredNode(ns, PlannedColumns(ns), Lowered(ns), i)
<1>1. ReadsBefore(ns, "rel")
  <2> SUFFICES ASSUME NEW j \in 1..Len(ns), NEW g, NEW h, \A k \in 1..(j - 1) : g[k] = h[k]
               PROVE  LoweringStep(ns, g, j) = LoweringStep(ns, h, j)
    BY PositionSteps DEF ReadsBefore
  <2> DEFINE x == ns[j].inputs[1]
             cols == PlannedColumns(ns)
  <2>1. j \in Nat /\ (ns[j].kind # "ReadNamedTable" => x \in 1..(j - 1) /\ x \in 1..Len(ns))
    BY DEF ReadsEarlier
  <2>2. /\ ns[j].kind # "ReadNamedTable" => g[x] = h[x]
        /\ ns[j].kind = "Join" => g[ns[j].inputs[2]] = h[ns[j].inputs[2]]
    BY <2>1 DEF ReadsEarlier
  <2>3. ns[j].kind = "Aggregate" /\ ns[x].kind = "GroupBy" => g[ns[x].inputs[1]] = h[ns[x].inputs[1]]
    <3> SUFFICES ASSUME ns[j].kind = "Aggregate", ns[x].kind = "GroupBy"
                 PROVE  g[ns[x].inputs[1]] = h[ns[x].inputs[1]]
      OBVIOUS
    <3>1. x \in 1..(j - 1) /\ x \in 1..Len(ns)
      BY <2>1
    <3> HIDE DEF x
    <3>2. ns[x].inputs[1] \in 1..(x - 1)
      BY <3>1 DEF ReadsEarlier
    <3> QED
      BY <2>1, <3>1, <3>2
  <2>4. LoweredNode(ns, cols, g, j) = LoweredNode(ns, cols, h, j)
    <3> HIDE DEF cols
    <3> QED
      BY <2>2, <2>3 DEF LoweredNode
  <2> QED
    BY <2>4, Zenon DEF LoweringStep
<1>2. \E f : f = [j \in 1..Len(ns) |-> LoweringStep(ns, f, j)]
  <2>1. \E f : f = [j \in 1..Len(ns) |-> PositionStep(ns, "rel", f, j)]
    BY <1>1, PositionSolution DEF ReadsEarlier
  <2> QED
    BY <2>1, PositionSteps
<1>3. Lowered(ns) = [j \in 1..Len(ns) |-> LoweringStep(ns, Lowered(ns), j)]
  BY <1>2, Zenon DEF Lowered, LoweringStep
<1> QED
  BY <1>3 DEF LoweringStep

-----------------------------------------------------------------------------
(* What each kind of node plans.                                           *)

LEMMA PrefixOf ==
    ASSUME NEW ns, ReadsEarlier(ns), NEW i \in 1..Len(ns)
    PROVE  /\ ns[i].payload.groups # <<>> =>
                 PrefixColumns(ns)[i] = GroupColumns(ns[i].payload.groups)
           /\ ns[i].payload.groups = <<>> /\ ns[i].kind # "Aggregate" =>
                 PrefixColumns(ns)[i] = <<>>
           /\ ns[i].payload.groups = <<>> /\ ns[i].kind = "Aggregate" =>
                 PrefixColumns(ns)[i] = PrefixColumns(ns)[ns[i].inputs[1]]
<1> DEFINE prefix == PrefixColumns(ns)
<1>1. prefix[i] = PrefixStep(ns, prefix, i)
  BY PrefixUnfolds
<1> HIDE DEF prefix
<1>2. /\ ns[i].payload.groups # <<>> => prefix[i] = GroupColumns(ns[i].payload.groups)
      /\ ns[i].payload.groups = <<>> /\ ns[i].kind # "Aggregate" => prefix[i] = <<>>
      /\ ns[i].payload.groups = <<>> /\ ns[i].kind = "Aggregate" =>
            prefix[i] = prefix[ns[i].inputs[1]]
  BY <1>1 DEF PrefixStep
<1> QED
  BY <1>2 DEF prefix

\* The columns of node i, given those of its first input.
PlannedAs(ns, i, input) ==
    LET p == ns[i].payload
        kind == ns[i].kind
        cols == PlannedColumns(ns)[i]
    IN  /\ kind = "ReadNamedTable" => cols = TableColumns[p.table]
        /\ kind \in {"Filter", "OrderBy", "Limit"} => cols = input
        /\ kind = "Project" => cols = ProjectColumns(input, p.assignments)
        /\ kind = "SelectProject" => cols = NamesOf(p.assignments)
        /\ kind = "Generate" => cols = input \o p.generators[1].columns
        /\ kind = "Window" => cols = input \o NamesOf(p.windows)
        /\ kind = "Join" =>
              cols = input \o Qualified(p.relation, PlannedColumns(ns)[ns[i].inputs[2]])
        /\ kind = "GroupBy" => cols = GroupColumns(p.groups)
        /\ kind = "Aggregate" => cols = PrefixColumns(ns)[i] \o NamesOf(p.measures)

LEMMA ColumnsOf ==
    ASSUME NEW ns, ReadsEarlier(ns), NEW i \in 1..Len(ns)
    PROVE  PlannedAs(ns, i, PlannedColumns(ns)[ns[i].inputs[1]])
<1>1. PlannedColumns(ns)[i] = PlannedNode(ns, PrefixColumns(ns), PlannedColumns(ns), i)
  BY ColumnsUnfold
<1> DEFINE cols == PlannedColumns(ns)
           prefix == PrefixColumns(ns)
<1> HIDE DEF cols, prefix
<1> QED
  BY <1>1, Zenon DEF PlannedNode, PlannedAs, cols, prefix

-----------------------------------------------------------------------------
(* A copy of some nodes of a list plans the same columns.                  *)

\* m maps the nodes done of ns to copies of them in vn.
Mirrors(ns, done, m, vn) ==
    /\ done \subseteq 1..Len(ns)
    /\ \A x \in done :
          /\ m[x] \in 1..Len(vn)
          /\ vn[m[x]].kind = ns[x].kind
          /\ vn[m[x]].payload = ns[x].payload
          /\ ns[x].kind # "ReadNamedTable" =>
                ns[x].inputs[1] \in done /\ vn[m[x]].inputs[1] = m[ns[x].inputs[1]]
          /\ ns[x].kind = "Join" =>
                ns[x].inputs[2] \in done /\ vn[m[x]].inputs[2] = m[ns[x].inputs[2]]

LEMMA MirroredColumns ==
    ASSUME NEW ns, ReadsEarlier(ns), NEW vn, ReadsEarlier(vn),
           NEW done, NEW m, Mirrors(ns, done, m, vn), NEW x \in done
    PROVE  /\ PrefixColumns(vn)[m[x]] = PrefixColumns(ns)[x]
           /\ PlannedColumns(vn)[m[x]] = PlannedColumns(ns)[x]
<1> DEFINE Same(y) == /\ PrefixColumns(vn)[m[y]] = PrefixColumns(ns)[y]
                      /\ PlannedColumns(vn)[m[y]] = PlannedColumns(ns)[y]
           Bad == {y \in done : ~Same(y)}
<1> SUFFICES ASSUME Bad # {} PROVE FALSE
  OBVIOUS
<1>1. Bad \in SUBSET Nat
  <2>1. Bad \subseteq done
    OBVIOUS
  <2> HIDE DEF Bad
  <2> QED
    BY <2>1 DEF Mirrors
<1> HIDE DEF Bad
<1>2. PICK y \in Bad : \A z \in Bad : y <= z
  BY <1>1, ByPosition!LeastNumber
<1>3. /\ y \in done /\ y \in 1..Len(ns) /\ m[y] \in 1..Len(vn)
      /\ vn[m[y]].kind = ns[y].kind /\ vn[m[y]].payload = ns[y].payload
      /\ ns[y].kind \in Kind
      /\ ns[y].kind # "ReadNamedTable" => vn[m[y]].inputs[1] = m[ns[y].inputs[1]]
      /\ ns[y].kind = "Join" => vn[m[y]].inputs[2] = m[ns[y].inputs[2]]
  BY DEF Mirrors, ReadsEarlier, Bad
<1>4. ASSUME NEW z \in done, z \in 1..(y - 1)
      PROVE  Same(z)
  <2>1. z < y /\ z \in Nat /\ y \in Nat
    BY <1>1, <1>4
  <2>2. z \notin Bad
    BY <1>2, <2>1
  <2> QED
    BY <2>2 DEF Bad
<1> HIDE DEF Same
<1>5. /\ ns[y].kind # "ReadNamedTable" => Same(ns[y].inputs[1])
      /\ ns[y].kind = "Join" => Same(ns[y].inputs[2])
  <2>1. /\ ns[y].kind # "ReadNamedTable" =>
              ns[y].inputs[1] \in done /\ ns[y].inputs[1] \in 1..(y - 1)
        /\ ns[y].kind = "Join" =>
              ns[y].inputs[2] \in done /\ ns[y].inputs[2] \in 1..(y - 1)
    BY <1>3 DEF Mirrors, ReadsEarlier
  <2> QED
    BY <1>4, <2>1
<1>6. PrefixColumns(vn)[m[y]] = PrefixColumns(ns)[y]
  <2>1. /\ PrefixColumns(ns)[y] = PrefixStep(ns, PrefixColumns(ns), y)
        /\ PrefixColumns(vn)[m[y]] = PrefixStep(vn, PrefixColumns(vn), m[y])
    BY <1>3, PrefixUnfolds
  <2> DEFINE p == PrefixColumns(ns)
             q == PrefixColumns(vn)
  <2>2. ns[y].kind = "Aggregate" => q[vn[m[y]].inputs[1]] = p[ns[y].inputs[1]]
    BY <1>3, <1>5 DEF Same
  <2> HIDE DEF p, q
  <2> QED
    BY <1>3, <2>1, <2>2 DEF PrefixStep, p, q
<1>7. PlannedColumns(vn)[m[y]] = PlannedColumns(ns)[y]
  <2> DEFINE p == PrefixColumns(ns)
             q == PrefixColumns(vn)
             c == PlannedColumns(ns)
             d == PlannedColumns(vn)
  <2>1. c[y] = PlannedNode(ns, p, c, y) /\ d[m[y]] = PlannedNode(vn, q, d, m[y])
    BY <1>3, ColumnsUnfold
  <2>2. /\ q[m[y]] = p[y]
        /\ ns[y].kind # "ReadNamedTable" => d[vn[m[y]].inputs[1]] = c[ns[y].inputs[1]]
        /\ ns[y].kind = "Join" => d[vn[m[y]].inputs[2]] = c[ns[y].inputs[2]]
    BY <1>3, <1>5, <1>6 DEF Same
  <2> HIDE DEF p, q, c, d
  <2>3. PlannedNode(vn, q, d, m[y]) = PlannedNode(ns, p, c, y)
    BY <1>3, <2>2 DEF PlannedNode, Kind, UnaryKind
  <2> QED
    BY <2>1, <2>3 DEF c, d
<1> QED
  BY <1>2, <1>6, <1>7 DEF Bad, Same

-----------------------------------------------------------------------------
(* Planned columns are lists, and lowering makes as many.                  *)

\* What planning reads of a payload is a list, and only groupings and the
\* aggregates fused with them have grouping expressions.
Listed(kind, p) ==
    /\ IsList(p.groups)
    /\ kind \notin {"GroupBy", "Aggregate"} => p.groups = <<>>
    /\ kind = "Aggregate" => IsList(p.measures)
    /\ kind = "Window" => IsList(p.windows)
    /\ kind \in {"Project", "SelectProject"} => IsList(p.assignments)
    /\ kind = "Generate" => IsList(p.generators[1].columns)
    /\ kind = "ReadNamedTable" => IsList(TableColumns[p.table])

AllListed(ns) == \A i \in 1..Len(ns) : Listed(ns[i].kind, ns[i].payload)

\* An aggregate without groups of its own has none below it to take.
NothingToGroup(ns, kind, inputs, p) ==
    kind = "Aggregate" /\ p.groups = <<>> =>
        ns[inputs[1]].kind \notin {"GroupBy", "Aggregate"}

Tidy(ns) ==
    /\ AllListed(ns)
    /\ \A i \in 1..Len(ns) : NothingToGroup(ns, ns[i].kind, ns[i].inputs, ns[i].payload)

LEMMA ColumnsAreLists ==
    ASSUME NEW ns, ReadsEarlier(ns), AllListed(ns), NEW i \in 1..Len(ns)
    PROVE  IsList(PrefixColumns(ns)[i]) /\ IsList(PlannedColumns(ns)[i])
<1> DEFINE Lists(j) == IsList(PrefixColumns(ns)[j]) /\ IsList(PlannedColumns(ns)[j])
           Bad == {j \in 1..Len(ns) : ~Lists(j)}
<1> SUFFICES ASSUME Bad # {} PROVE FALSE
  OBVIOUS
<1> HIDE DEF Lists
<1>1. Bad \in SUBSET Nat
  OBVIOUS
<1> HIDE DEF Bad
<1>2. PICK j \in Bad : \A k \in Bad : j <= k
  BY <1>1, ByPosition!LeastNumber
<1>3. j \in 1..Len(ns) /\ ~Lists(j) /\ j \in Nat
  BY <1>2 DEF Bad
<1>4. ASSUME NEW k \in 1..(j - 1)
      PROVE  Lists(k)
  <2>1. k \in 1..Len(ns) /\ ~(j <= k)
    BY <1>3 DEF ReadsEarlier
  <2> QED
    BY <1>2, <2>1 DEF Bad
<1>5. /\ ns[j].kind \in Kind /\ Listed(ns[j].kind, ns[j].payload)
      /\ ns[j].kind # "ReadNamedTable" => Lists(ns[j].inputs[1])
      /\ ns[j].kind = "Join" => Lists(ns[j].inputs[2])
  BY <1>3, <1>4 DEF ReadsEarlier, AllListed
<1> DEFINE n == ns[j]
           input == PlannedColumns(ns)[n.inputs[1]]
<1>6. /\ n.kind # "ReadNamedTable" => IsList(input) /\ IsList(PrefixColumns(ns)[n.inputs[1]])
      /\ n.kind = "Join" => IsList(PlannedColumns(ns)[n.inputs[2]])
  BY <1>5 DEF Lists
<1>7. IsList(<<>>)
  BY DEF IsList
<1>8. IsList(PrefixColumns(ns)[j])
  <2>1. IsList(GroupColumns(n.payload.groups))
    BY <1>5, GroupColumnsAreList DEF Listed
  <2> QED
    BY <1>3, <1>6, <1>7, <2>1, PrefixOf
<1>9. IsList(PlannedColumns(ns)[j])
  <2> HIDE DEF input
  <2>1. PlannedAs(ns, j, input)
    BY <1>3, ColumnsOf DEF input
  <2>2. CASE n.kind = "ReadNamedTable"
    BY <1>3, <1>5, <2>1, <2>2 DEF Listed, PlannedAs
  <2>3. CASE n.kind \in {"Filter", "OrderBy", "Limit"}
    BY <1>3, <1>6, <2>1, <2>3 DEF PlannedAs
  <2>4. CASE n.kind = "Project"
    <3>1. IsList(ProjectColumns(input, n.payload.assignments))
      BY <1>5, <1>6, <2>4, ProjectedIsList DEF Listed
    <3>2. PlannedColumns(ns)[j] = ProjectColumns(input, n.payload.assignments)
      BY <1>3, <2>1, <2>4, Zenon DEF PlannedAs
    <3> QED
      BY <3>1, <3>2, Zenon
  <2>5. CASE n.kind = "SelectProject"
    <3>1. IsList(NamesOf(n.payload.assignments))
      BY <1>5, <2>5, NamesAreList DEF Listed
    <3> QED
      BY <1>3, <2>1, <2>5, <3>1 DEF PlannedAs
  <2>6. CASE n.kind = "Generate"
    <3>1. IsList(input \o n.payload.generators[1].columns)
      BY <1>5, <1>6, <2>6, ListsJoin DEF Listed
    <3>2. PlannedColumns(ns)[j] = input \o n.payload.generators[1].columns
      BY <1>3, <2>1, <2>6, Zenon DEF PlannedAs
    <3> QED
      BY <3>1, <3>2, Zenon
  <2>7. CASE n.kind = "Window"
    <3>1. IsList(NamesOf(n.payload.windows))
      BY <1>5, <2>7, NamesAreList DEF Listed
    <3>2. IsList(input \o NamesOf(n.payload.windows))
      BY <1>6, <2>7, <3>1, ListsJoin
    <3>3. PlannedColumns(ns)[j] = input \o NamesOf(n.payload.windows)
      BY <1>3, <2>1, <2>7, Zenon DEF PlannedAs
    <3> QED
      BY <3>2, <3>3, Zenon
  <2>8. CASE n.kind = "Join"
    <3> DEFINE right == Qualified(n.payload.relation, PlannedColumns(ns)[n.inputs[2]])
    <3>1. IsList(right)
      BY <1>6, <2>8, QualifiedIsList
    <3> HIDE DEF right
    <3>2. IsList(input \o right)
      BY <1>6, <2>8, <3>1, ListsJoin
    <3>3. PlannedColumns(ns)[j] = input \o right
      BY <1>3, <2>1, <2>8, Zenon DEF right, PlannedAs
    <3> QED
      BY <3>2, <3>3, Zenon
  <2>9. CASE n.kind = "GroupBy"
    <3>1. IsList(GroupColumns(n.payload.groups))
      BY <1>5, GroupColumnsAreList DEF Listed
    <3> QED
      BY <1>3, <2>1, <2>9, <3>1 DEF PlannedAs
  <2>10. CASE n.kind = "Aggregate"
    <3>1. IsList(NamesOf(n.payload.measures))
      BY <1>5, <2>10, NamesAreList DEF Listed
    <3>2. IsList(PrefixColumns(ns)[j] \o NamesOf(n.payload.measures))
      BY <1>8, <3>1, ListsJoin
    <3>3. PlannedColumns(ns)[j] = PrefixColumns(ns)[j] \o NamesOf(n.payload.measures)
      BY <1>3, <2>1, <2>10, Zenon DEF PlannedAs
    <3> QED
      BY <3>2, <3>3, Zenon
  <2> QED
    BY <1>5, <2>2, <2>3, <2>4, <2>5, <2>6, <2>7, <2>8, <2>9, <2>10 DEF Kind, UnaryKind
<1> QED
  BY <1>3, <1>8, <1>9 DEF Lists

\* The grouping prefix of a node of a tidy list is that of its own groups.
LEMMA TidyPrefix ==
    ASSUME NEW ns, ReadsEarlier(ns), Tidy(ns), NEW i \in 1..Len(ns)
    PROVE  Len(PrefixColumns(ns)[i]) = Len(ns[i].payload.groups)
<1> DEFINE groups == ns[i].payload.groups
           x == ns[i].inputs[1]
<1>1. IsList(groups)
  BY DEF Tidy, AllListed, Listed
<1>2. CASE groups # <<>>
  <2>1. PrefixColumns(ns)[i] = GroupColumns(groups)
    BY <1>2, PrefixOf
  <2> QED
    BY <1>1, <2>1, GroupColumnsAreList
<1>3. CASE groups = <<>>
  <2>1. PrefixColumns(ns)[i] = <<>>
    <3>1. CASE ns[i].kind # "Aggregate"
      BY <1>3, <3>1, PrefixOf
    <3>2. CASE ns[i].kind = "Aggregate"
      <4>1. x \in 1..Len(ns)
        BY <3>2 DEF ReadsEarlier
      <4>2. ns[x].kind \notin {"GroupBy", "Aggregate"}
        BY <1>3, <3>2 DEF Tidy, NothingToGroup
      <4>3. ns[x].payload.groups = <<>>
        BY <4>1, <4>2 DEF Tidy, AllListed, Listed
      <4> QED
        BY <1>3, <3>2, <4>1, <4>2, <4>3, PrefixOf
    <3> QED
      BY <3>1, <3>2
  <2> QED
    BY <1>3, <2>1
<1> QED
  BY <1>2, <1>3

-----------------------------------------------------------------------------
(* The relation of a node of a tidy list is as wide as its planned columns. *)

\* What lowering makes of node i, given the relation and columns of its input,
\* where no aggregate takes the groups of the node below it.
LoweredAs(ns, i, rel, cols) ==
    LET p == ns[i].payload
        kind == ns[i].kind
        out == Lowered(ns)[i]
        y == ns[i].inputs[2]
    IN  /\ kind = "ReadNamedTable" =>
              out = [ok |-> TRUE, width |-> Len(TableColumns[p.table]),
                     rows |-> {TableRows[p.table]}]
        /\ kind = "Filter" => out = FilterRel(rel, cols, p.predicate)
        /\ kind = "Project" => out = ProjectRel(rel, cols, p.assignments)
        /\ kind = "SelectProject" => out = SelectProjectRel(rel, cols, p.assignments)
        /\ kind = "GroupBy" => out = AggregateRel(rel, cols, p.groups, <<>>)
        /\ kind = "Aggregate" => out = AggregateRel(rel, cols, p.groups, p.measures)
        /\ kind = "Generate" => out = GeneratorRel(rel, cols, p.generators[1])
        /\ kind = "Window" => out = WindowRel(rel, cols, p.windows)
        /\ kind = "OrderBy" => out = SortRel(rel, cols, p.sorts)
        /\ kind = "Limit" => out = FetchRel(rel, p.limit)
        /\ kind = "Join" =>
              out = JoinRel(rel, cols, Lowered(ns)[y],
                            Qualified(p.relation, PlannedColumns(ns)[y]), p.predicate, p.join)

\* An aggregate without groups of its own takes those of the grouping it reads.
TakesGroups(ns, i) ==
    /\ ns[i].kind = "Aggregate" /\ ns[i].payload.groups = <<>>
    /\ ns[ns[i].inputs[1]].kind = "GroupBy"

\* Any other node lowers by its own kind.
LEMMA OwnRelation ==
    ASSUME NEW ns, ReadsEarlier(ns), NEW i \in 1..Len(ns), ~TakesGroups(ns, i)
    PROVE  LoweredAs(ns, i, Lowered(ns)[ns[i].inputs[1]], PlannedColumns(ns)[ns[i].inputs[1]])
<1> DEFINE cols == PlannedColumns(ns)
           rel == Lowered(ns)
<1>1. rel[i] = LoweredNode(ns, cols, rel, i)
  BY LoweringUnfolds
<1> HIDE DEF cols, rel
<1> QED
  BY <1>1, Zenon DEF LoweredNode, LoweredAs, TakesGroups, cols, rel

LEMMA RelationOf ==
    ASSUME NEW ns, ReadsEarlier(ns), Tidy(ns), NEW i \in 1..Len(ns)
    PROVE  LoweredAs(ns, i, Lowered(ns)[ns[i].inputs[1]], PlannedColumns(ns)[ns[i].inputs[1]])
<1>1. ~TakesGroups(ns, i)
  BY DEF Tidy, NothingToGroup, TakesGroups
<1> QED
  BY <1>1, OwnRelation

LEMMA LoweredIsWide ==
    ASSUME NEW ns, ReadsEarlier(ns), Tidy(ns), NEW i \in 1..Len(ns)
    PROVE  Wide(Lowered(ns)[i], Len(PlannedColumns(ns)[i]))
<1> DEFINE Fine(j) == Wide(Lowered(ns)[j], Len(PlannedColumns(ns)[j]))
           Bad == {j \in 1..Len(ns) : ~Fine(j)}
<1> SUFFICES ASSUME Bad # {} PROVE FALSE
  OBVIOUS
<1> HIDE DEF Fine
<1>1. Bad \in SUBSET Nat
  OBVIOUS
<1> HIDE DEF Bad
<1>2. PICK j \in Bad : \A k \in Bad : j <= k
  BY <1>1, ByPosition!LeastNumber
<1>3. j \in 1..Len(ns) /\ ~Fine(j) /\ j \in Nat
  BY <1>2 DEF Bad
<1>4. ASSUME NEW k \in 1..(j - 1)
      PROVE  Fine(k) /\ k \in 1..Len(ns)
  <2>1. k \in 1..Len(ns) /\ ~(j <= k)
    BY <1>3 DEF ReadsEarlier
  <2> QED
    BY <1>2, <2>1 DEF Bad
<1> DEFINE p == ns[j].payload
           x == ns[j].inputs[1]
           y == ns[j].inputs[2]
           rel == Lowered(ns)[x]
           cols == PlannedColumns(ns)[x]
           out == Lowered(ns)[j]
           planned == PlannedColumns(ns)[j]
<1>5. /\ ns[j].kind \in Kind /\ Listed(ns[j].kind, p)
      /\ ns[j].kind # "ReadNamedTable" => Wide(rel, Len(cols)) /\ IsList(cols)
      /\ ns[j].kind = "Join" => IsList(PlannedColumns(ns)[y])
  <2>1. /\ ns[j].kind \in Kind
        /\ ns[j].kind # "ReadNamedTable" => x \in 1..(j - 1)
        /\ ns[j].kind = "Join" => y \in 1..(j - 1)
    BY <1>3 DEF ReadsEarlier
  <2>2. AllListed(ns)
    BY DEF Tidy
  <2> QED
    BY <1>3, <1>4, <2>1, <2>2, ColumnsAreLists DEF AllListed, Fine
<1>6. PlannedAs(ns, j, cols) /\ LoweredAs(ns, j, rel, cols)
  BY <1>3, ColumnsOf, RelationOf
<1>7. IsList(p.groups)
  BY <1>5 DEF Listed
<1> HIDE DEF x, y, rel, cols
<1>8. Wide(out, Len(planned))
  <2>1. CASE ns[j].kind = "ReadNamedTable"
    <3>1. out = [ok |-> TRUE, width |-> Len(planned), rows |-> {TableRows[p.table]}]
      BY <1>6, <2>1 DEF LoweredAs, PlannedAs
    <3>2. MadeWide(out, Len(planned))
      BY <3>1, Zenon DEF MadeWide
    <3> QED
      BY <3>2, MadeIsWide
  <2>2. CASE ns[j].kind \in {"Filter", "OrderBy", "Limit"}
    <3>1. planned = cols
      BY <1>6, <2>2 DEF PlannedAs
    <3>2. KeptWide(rel, out) \/ out = Failed
      <4>1. CASE ns[j].kind = "Filter"
        <5>1. out = FilterRel(rel, cols, p.predicate)
          BY <1>6, <4>1, Zenon DEF LoweredAs
        <5>2. KeptWide(rel, FilterRel(rel, cols, p.predicate)) \/ FilterRel(rel, cols, p.predicate) = Failed
          BY RelationsMade
        <5> QED
          BY <5>1, <5>2, Zenon
      <4>2. CASE ns[j].kind = "OrderBy"
        <5>1. out = SortRel(rel, cols, p.sorts)
          BY <1>6, <4>2, Zenon DEF LoweredAs
        <5>2. KeptWide(rel, SortRel(rel, cols, p.sorts)) \/ SortRel(rel, cols, p.sorts) = Failed
          BY RelationsMade
        <5> QED
          BY <5>1, <5>2, Zenon
      <4>3. CASE ns[j].kind = "Limit"
        <5>1. out = FetchRel(rel, p.limit)
          BY <1>6, <4>3, Zenon DEF LoweredAs
        <5>2. KeptWide(rel, FetchRel(rel, p.limit))
          BY RelationsMade
        <5> QED
          BY <5>1, <5>2, Zenon
      <4> QED
        BY <2>2, <4>1, <4>2, <4>3
    <3> QED
      BY <1>5, <2>2, <3>1, <3>2, SameWidth
  <2>3. CASE ns[j].kind = "Project"
    <3>1. planned = ProjectColumns(cols, p.assignments)
      BY <1>6, <2>3, Zenon DEF PlannedAs
    <3>2. out = ProjectRel(rel, cols, p.assignments)
      BY <1>6, <2>3, Zenon DEF LoweredAs
    <3>3. MadeWide(out, Len(planned))
      BY <3>1, <3>2, RelationsMade, Zenon
    <3> QED
      BY <3>3, MadeIsWide
  <2>4. CASE ns[j].kind = "SelectProject"
    <3>1. planned = NamesOf(p.assignments)
      BY <1>6, <2>4, Zenon DEF PlannedAs
    <3>2. out = SelectProjectRel(rel, cols, p.assignments)
      BY <1>6, <2>4, Zenon DEF LoweredAs
    <3>3. Len(planned) = Len(p.assignments)
      BY <1>5, <2>4, <3>1, NamesAreList DEF Listed
    <3>4. MadeWide(out, Len(planned))
      BY <3>2, <3>3, RelationsMade, Zenon
    <3> QED
      BY <3>4, MadeIsWide
  <2>5. CASE ns[j].kind = "GroupBy"
    <3>1. planned = GroupColumns(p.groups)
      BY <1>6, <2>5, Zenon DEF PlannedAs
    <3>2. out = AggregateRel(rel, cols, p.groups, <<>>)
      BY <1>6, <2>5, Zenon DEF LoweredAs
    <3>3. Len(planned) = Len(p.groups) /\ Len(p.groups) \in Nat
      BY <1>7, <3>1, GroupColumnsAreList DEF IsList
    <3>4. MadeWide(out, Len(p.groups) + Len(<<>>))
      BY <3>2, RelationsMade, Zenon
    <3>5. Len(p.groups) + Len(<<>>) = Len(planned)
      BY <3>3
    <3> QED
      BY <3>4, <3>5, MadeIsWide
  <2>6. CASE ns[j].kind = "Aggregate"
    <3>1. planned = PrefixColumns(ns)[j] \o NamesOf(p.measures)
      BY <1>6, <2>6, Zenon DEF PlannedAs
    <3>2. out = AggregateRel(rel, cols, p.groups, p.measures)
      BY <1>6, <2>6, Zenon DEF LoweredAs
    <3>3. IsList(PrefixColumns(ns)[j]) /\ Len(PrefixColumns(ns)[j]) = Len(p.groups)
      BY <1>3, ColumnsAreLists, TidyPrefix DEF Tidy
    <3>4. IsList(NamesOf(p.measures)) /\ Len(NamesOf(p.measures)) = Len(p.measures)
      BY <1>5, <2>6, NamesAreList DEF Listed
    <3>5. Len(planned) = Len(p.groups) + Len(p.measures)
      BY <3>1, <3>3, <3>4, ListsAdd
    <3>6. MadeWide(out, Len(p.groups) + Len(p.measures))
      BY <3>2, RelationsMade, Zenon
    <3> QED
      BY <3>5, <3>6, MadeIsWide
  <2>7. CASE ns[j].kind = "Generate"
    <3>1. planned = cols \o p.generators[1].columns
      BY <1>6, <2>7, Zenon DEF PlannedAs
    <3>2. out = GeneratorRel(rel, cols, p.generators[1])
      BY <1>6, <2>7, Zenon DEF LoweredAs
    <3>3. MadeWide(out, Len(planned))
      BY <3>1, <3>2, RelationsMade, Zenon
    <3> QED
      BY <3>3, MadeIsWide
  <2>8. CASE ns[j].kind = "Window"
    <3>1. planned = cols \o NamesOf(p.windows)
      BY <1>6, <2>8, Zenon DEF PlannedAs
    <3>2. out = WindowRel(rel, cols, p.windows)
      BY <1>6, <2>8, Zenon DEF LoweredAs
    <3>3. /\ IsList(NamesOf(p.windows)) /\ Len(NamesOf(p.windows)) = Len(p.windows)
          /\ Len(p.windows) \in Nat
      BY <1>5, <2>8, NamesAreList DEF Listed
    <3>4. Len(planned) = Len(cols) + Len(p.windows)
      BY <1>5, <2>8, <3>1, <3>3, ListsAdd
    <3>5. Wide(out, Len(cols) + Len(p.windows))
      BY <1>5, <2>8, <3>2, <3>3, WindowWidth
    <3> QED
      BY <3>4, <3>5
  <2>9. CASE ns[j].kind = "Join"
    <3> DEFINE right == Qualified(p.relation, PlannedColumns(ns)[y])
    <3>1. planned = cols \o right
      BY <1>6, <2>9, Zenon DEF PlannedAs, y
    <3>2. out = JoinRel(rel, cols, Lowered(ns)[y], right, p.predicate, p.join)
      BY <1>6, <2>9, Zenon DEF LoweredAs, y
    <3> HIDE DEF right
    <3>3. MadeWide(out, Len(planned))
      BY <3>1, <3>2, JoinMade, Zenon
    <3> QED
      BY <3>3, MadeIsWide
  <2> QED
    BY <1>5, <2>1, <2>2, <2>3, <2>4, <2>5, <2>6, <2>7, <2>8, <2>9 DEF Kind, UnaryKind
<1> QED
  BY <1>3, <1>8 DEF Fine

-----------------------------------------------------------------------------
(* One iteration of the first loop.                                        *)

\* A list with another node at its end starts with a copy of the list.
LEMMA AppendedMirrors ==
    ASSUME NEW ns, ReadsEarlier(ns), NEW new, ReadsEarlier(new),
           Len(new) = Len(ns) + 1, \A i \in 1..Len(ns) : new[i] = ns[i]
    PROVE  Mirrors(ns, 1..Len(ns), [j \in 1..Len(ns) |-> j], new)
<1> DEFINE m == [j \in 1..Len(ns) |-> j]
           done == 1..Len(ns)
<1>1. /\ done \subseteq 1..Len(ns)
      /\ \A x \in done : m[x] = x /\ m[x] \in 1..Len(new) /\ new[m[x]] = ns[x]
      /\ \A x \in done : ns[x].kind # "ReadNamedTable" => ns[x].inputs[1] \in done
      /\ \A x \in done : ns[x].kind = "Join" => ns[x].inputs[2] \in done
  BY DEF ReadsEarlier
<1> HIDE DEF m, done
<1>3. Mirrors(ns, done, m, new)
  <2> SUFFICES ASSUME NEW x \in done
               PROVE  /\ m[x] \in 1..Len(new)
                      /\ new[m[x]].kind = ns[x].kind
                      /\ new[m[x]].payload = ns[x].payload
                      /\ ns[x].kind # "ReadNamedTable" =>
                            /\ ns[x].inputs[1] \in done
                            /\ new[m[x]].inputs[1] = m[ns[x].inputs[1]]
                      /\ ns[x].kind = "Join" =>
                            /\ ns[x].inputs[2] \in done
                            /\ new[m[x]].inputs[2] = m[ns[x].inputs[2]]
    BY <1>1, Zenon DEF Mirrors
  <2>1. m[x] \in 1..Len(new) /\ new[m[x]] = ns[x]
    BY <1>1
  <2>2. ns[x].kind # "ReadNamedTable" =>
            ns[x].inputs[1] \in done /\ m[ns[x].inputs[1]] = ns[x].inputs[1]
    BY <1>1
  <2>3. ns[x].kind = "Join" =>
            ns[x].inputs[2] \in done /\ m[ns[x].inputs[2]] = ns[x].inputs[2]
    BY <1>1
  <2> QED
    BY <2>1, <2>2, <2>3
<1> QED
  BY <1>3 DEF m, done

LEMMA AppendedColumns ==
    ASSUME NEW ns, ReadsEarlier(ns), NEW new, ReadsEarlier(new),
           Len(new) = Len(ns) + 1, \A i \in 1..Len(ns) : new[i] = ns[i],
           NEW i \in 1..Len(ns)
    PROVE  /\ PrefixColumns(new)[i] = PrefixColumns(ns)[i]
           /\ PlannedColumns(new)[i] = PlannedColumns(ns)[i]
<1> DEFINE m == [j \in 1..Len(ns) |-> j]
           done == 1..Len(ns)
<1>1. Mirrors(ns, done, m, new)
  BY AppendedMirrors
<1>2. i \in done /\ m[i] = i
  OBVIOUS
<1> HIDE DEF m, done
<1> QED
  BY <1>1, <1>2, MirroredColumns

\* The authored nodes: append_node gives groups to groupings only.
AuthoredTidy(A) ==
    /\ AllListed(A)
    /\ \A i \in 1..Len(A) : A[i].kind # "GroupBy" => A[i].payload.groups = <<>>

\* Not a grouping or an aggregate, once filters on true are erased.
Bare(A, x) == A[Kept(A)[x]].kind \notin {"GroupBy", "Aggregate"}

\* GroupingPlain, of the nodes live of a list.
PlainOver(A, live) ==
    \A i \in live :
        A[i].kind = "Aggregate" =>
            LET x == A[i].inputs[1] IN
            \/ Bare(A, x)
            \/ /\ A[x].kind = "GroupBy"
               /\ A[x].payload.groups # <<>> \/ Bare(A, A[x].inputs[1])

\* The node that stands for x in ns, a kept one of its kind, has its columns;
\* a grouping is there as it was authored.
Stands(A, done, m, ns, x) ==
    /\ m[x] \in 1..Len(ns)
    /\ PlannedColumns(ns)[m[x]] = PlannedColumns(A)[x]
    /\ ns[m[x]].kind = A[Kept(A)[x]].kind
    /\ A[x].kind = "GroupBy" =>
          /\ ns[m[x]].payload.groups = A[x].payload.groups
          /\ A[x].inputs[1] \in done
          /\ ns[m[x]].inputs[1] = m[A[x].inputs[1]]

Follows(A, done, m, ns) == \A x \in done : Stands(A, done, m, ns, x)

LEMMA KeptOf ==
    ASSUME NEW A, ReadsEarlier(A), NEW x \in 1..Len(A)
    PROVE  Kept(A)[x] = IF Erased(A, x) THEN Kept(A)[A[x].inputs[1]] ELSE x
<1> DEFINE kept == Kept(A)
<1>1. kept[x] = KeptStep(A, kept, x)
  BY KeptUnfolds
<1> HIDE DEF kept
<1>2. kept[x] = IF Erased(A, x) THEN kept[A[x].inputs[1]] ELSE x
  BY <1>1 DEF KeptStep
<1> QED
  BY <1>2 DEF kept

LEMMA EraseFollows ==
    ASSUME NEW A, ReadsEarlier(A), NEW done, NEW m, NEW ns, Follows(A, done, m, ns),
           NEW x \in 1..Len(A), Erased(A, x), A[x].inputs[1] \in done,
           NEW mnew, \A z \in done : mnew[z] = m[z], mnew[x] = m[A[x].inputs[1]]
    PROVE  Follows(A, done \cup {x}, mnew, ns)
<1> DEFINE y == A[x].inputs[1]
<1>1. Kept(A)[x] = Kept(A)[y]
  BY KeptOf
<1>2. A[x].kind = "Filter"
  BY DEF Erased
<1>3. PlannedColumns(A)[x] = PlannedColumns(A)[y]
  BY <1>2, ColumnsOf, Zenon DEF PlannedAs
<1>4. Stands(A, done, m, ns, y)
  BY DEF Follows
<1>5. Stands(A, done \cup {x}, mnew, ns, x)
  BY <1>1, <1>2, <1>3, <1>4 DEF Stands
<1>6. ASSUME NEW z \in done
      PROVE  Stands(A, done \cup {x}, mnew, ns, z)
  BY DEF Follows, Stands
<1> QED
  BY <1>5, <1>6 DEF Follows

\* A node for x was appended to ns.
Emitting(A, done, m, ns, x, new) ==
    /\ ReadsEarlier(A) /\ ReadsEarlier(ns) /\ ReadsEarlier(new)
    /\ AuthoredTidy(A) /\ Tidy(ns) /\ Follows(A, done, m, ns)
    /\ x \in 1..Len(A) /\ done \subseteq 1..Len(A) /\ ~Erased(A, x)
    /\ A[x].kind # "ReadNamedTable" => A[x].inputs[1] \in done
    /\ A[x].kind = "Join" => A[x].inputs[2] \in done
    /\ Len(new) = Len(ns) + 1
    /\ \A i \in 1..Len(ns) : new[i] = ns[i]
    /\ new[Len(ns) + 1].kind = A[x].kind

LEMMA EmitFollows ==
    ASSUME NEW A, NEW done, NEW m, NEW ns, NEW x, NEW new, Emitting(A, done, m, ns, x, new),
           NEW mnew, \A z \in done : mnew[z] = m[z], mnew[x] = Len(ns) + 1,
           PlannedColumns(new)[Len(ns) + 1] = PlannedColumns(A)[x],
           A[x].kind = "GroupBy" =>
              /\ new[Len(ns) + 1].payload.groups = A[x].payload.groups
              /\ new[Len(ns) + 1].inputs[1] = m[A[x].inputs[1]]
    PROVE  Follows(A, done \cup {x}, mnew, new)
<1>1. /\ Len(ns) \in Nat /\ Len(ns) + 1 \in 1..Len(new)
      /\ \A i \in 1..Len(ns) : i \in 1..Len(new)
  BY DEF Emitting, ReadsEarlier
<1>2. Kept(A)[x] = x
  BY KeptOf DEF Emitting
<1>3. Stands(A, done \cup {x}, mnew, new, x)
  BY <1>1, <1>2 DEF Stands, Emitting
<1>4. ASSUME NEW z \in done
      PROVE  Stands(A, done \cup {x}, mnew, new, z)
  <2>1. Stands(A, done, m, ns, z)
    BY DEF Emitting, Follows
  <2>2. m[z] \in 1..Len(ns) /\ mnew[z] = m[z] /\ new[m[z]] = ns[m[z]]
    BY <2>1 DEF Stands, Emitting
  <2>3. PlannedColumns(new)[m[z]] = PlannedColumns(ns)[m[z]]
    BY <2>2, AppendedColumns DEF Emitting
  <2> QED
    BY <1>1, <2>1, <2>2, <2>3 DEF Stands
<1> QED
  BY <1>3, <1>4 DEF Follows

LEMMA EmitTidy ==
    ASSUME NEW A, NEW done, NEW m, NEW ns, NEW x, NEW new, Emitting(A, done, m, ns, x, new),
           NEW n, n = new[Len(ns) + 1], Listed(n.kind, n.payload),
           NothingToGroup(ns, n.kind, n.inputs, n.payload)
    PROVE  Tidy(new)
<1>1. /\ Len(ns) \in Nat
      /\ \A i \in 1..Len(new) : i = Len(ns) + 1 \/ i \in 1..Len(ns)
  BY DEF Emitting, ReadsEarlier
<1>2. AllListed(new)
  BY <1>1 DEF AllListed, Emitting, Tidy
<1>3. ASSUME NEW i \in 1..Len(new)
      PROVE  NothingToGroup(new, new[i].kind, new[i].inputs, new[i].payload)
  <2> SUFFICES ASSUME new[i].kind = "Aggregate", new[i].payload.groups = <<>>
               PROVE  new[new[i].inputs[1]].kind \notin {"GroupBy", "Aggregate"}
    BY DEF NothingToGroup
  <2>1. new[i].inputs[1] \in 1..(i - 1)
    BY DEF Emitting, ReadsEarlier
  <2>2. new[i].inputs[1] \in 1..Len(ns)
    BY <1>1, <2>1 DEF Emitting
  <2>3. new[new[i].inputs[1]] = ns[new[i].inputs[1]]
    BY <2>2 DEF Emitting
  <2>4. ns[new[i].inputs[1]].kind \notin {"GroupBy", "Aggregate"}
    <3>1. CASE i = Len(ns) + 1
      BY <3>1 DEF NothingToGroup
    <3>2. CASE i \in 1..Len(ns)
      BY <3>2 DEF NothingToGroup, Tidy, Emitting
    <3> QED
      BY <1>1, <3>1, <3>2
  <2> QED
    BY <2>3, <2>4
<1> QED
  BY <1>2, <1>3 DEF Tidy

\* What the new node plans over the draft, where it reads draft nodes.
LEMMA EmittedColumns ==
    ASSUME NEW A, NEW done, NEW m, NEW ns, NEW x, NEW new, Emitting(A, done, m, ns, x, new),
           NEW q, new[Len(ns) + 1].inputs[1] = q, q \in 1..Len(ns)
    PROVE  PlannedAs(new, Len(ns) + 1, PlannedColumns(ns)[q])
<1>1. Len(ns) + 1 \in 1..Len(new) /\ ReadsEarlier(new)
  BY DEF Emitting, ReadsEarlier
<1>2. PlannedAs(new, Len(ns) + 1, PlannedColumns(new)[q])
  BY <1>1, ColumnsOf
<1>3. PlannedColumns(new)[q] = PlannedColumns(ns)[q]
  BY AppendedColumns DEF Emitting
<1> QED
  BY <1>2, <1>3

LEMMA EarlierInList ==
    ASSUME NEW N \in Nat, NEW p \in 1..N, NEW q \in 1..(p - 1)
    PROVE  q \in 1..N
OBVIOUS

\* The payload of a node collapsed onto its parent holds what both planned.
Merged(kind, parent, own, p) ==
    /\ kind = "Project" => p.assignments = parent.assignments \o own.assignments
    /\ kind = "Window" => p.windows = parent.windows \o own.windows

\* The new node n for x takes the place of p, the node x reads.
Replaces(A, m, ns, x, new, p, n) ==
    /\ p = m[A[x].inputs[1]]
    /\ n = new[Len(ns) + 1]
    /\ n.inputs[1] = ns[p].inputs[1]

\* Collapsing a limit, an ordering, a projection or a window onto another.
Collapses(A, ns, x, p, n) ==
    /\ A[x].kind \in {"Limit", "OrderBy", "Project", "Window"} /\ ns[p].kind = A[x].kind
    /\ Merged(A[x].kind, ns[p].payload, A[x].payload, n.payload)

LEMMA CollapsedColumns ==
    ASSUME NEW A, NEW done, NEW m, NEW ns, NEW x, NEW new, Emitting(A, done, m, ns, x, new),
           NEW p, NEW n, Replaces(A, m, ns, x, new, p, n), Collapses(A, ns, x, p, n)
    PROVE  PlannedColumns(new)[Len(ns) + 1] = PlannedColumns(A)[x]
<1> DEFINE y == A[x].inputs[1]
           q == ns[p].inputs[1]
           below == PlannedColumns(ns)[q]
           read == PlannedColumns(A)[y]
           out == PlannedColumns(new)[Len(ns) + 1]
           authored == PlannedColumns(A)[x]
           pp == ns[p].payload
           pa == A[x].payload
           kind == A[x].kind
<1>1. /\ ReadsEarlier(A) /\ ReadsEarlier(ns) /\ x \in 1..Len(A)
      /\ AllListed(A) /\ AllListed(ns) /\ n.kind = kind
  BY DEF Emitting, AuthoredTidy, Tidy, Replaces
<1>2. /\ kind \in {"Limit", "OrderBy", "Project", "Window"} /\ ns[p].kind = kind
      /\ Merged(kind, pp, pa, n.payload)
  BY DEF Collapses
<1>3. p \in 1..Len(ns) /\ PlannedColumns(ns)[p] = read
  <2>1. y \in done /\ Follows(A, done, m, ns)
    BY <1>2 DEF Emitting
  <2>2. Stands(A, done, m, ns, y)
    BY <2>1 DEF Follows
  <2> QED
    BY <2>2 DEF Stands, Replaces
<1>4. q \in 1..(p - 1) /\ q \in 1..Len(ns)
  <2>1. Len(ns) \in Nat /\ ns[p].inputs[1] \in 1..(p - 1)
    BY <1>1, <1>2, <1>3 DEF ReadsEarlier
  <2> QED
    BY <1>3, <2>1, EarlierInList, Zenon
<1>5. PlannedAs(new, Len(ns) + 1, below) /\ n = new[Len(ns) + 1]
  <2>1. new[Len(ns) + 1].inputs[1] = q /\ n = new[Len(ns) + 1]
    BY DEF Replaces
  <2> QED
    BY <1>4, <2>1, EmittedColumns, Zenon
<1>6. PlannedAs(ns, p, below)
  BY <1>1, <1>3, ColumnsOf, Zenon
<1>7. PlannedAs(A, x, read)
  BY <1>1, ColumnsOf, Zenon
<1>9. Listed(kind, pp) /\ Listed(kind, pa) /\ IsList(below)
  BY <1>1, <1>2, <1>3, <1>4, ColumnsAreLists, Zenon DEF AllListed
<1> HIDE DEF y, q, below, read, kind, pp, pa, out, authored
<1>10. CASE kind \in {"Limit", "OrderBy"}
  BY <1>1, <1>2, <1>3, <1>5, <1>6, <1>7, <1>10, Zenon DEF PlannedAs, kind, out, authored
<1>11. CASE kind = "Project"
  <2>1. /\ out = ProjectColumns(below, pp.assignments \o pa.assignments)
        /\ read = ProjectColumns(below, pp.assignments)
        /\ authored = ProjectColumns(read, pa.assignments)
    <3>1. out = ProjectColumns(below, n.payload.assignments)
      BY <1>1, <1>5, <1>11, Zenon DEF PlannedAs, out
    <3>2. PlannedColumns(ns)[p] = ProjectColumns(below, pp.assignments)
      BY <1>2, <1>6, <1>11, Zenon DEF PlannedAs, pp
    <3>3. authored = ProjectColumns(read, pa.assignments)
      BY <1>7, <1>11, Zenon DEF PlannedAs, kind, authored, pa
    <3> QED
      BY <1>2, <1>3, <1>11, <3>1, <3>2, <3>3, Zenon DEF Merged
  <2>2. IsList(pp.assignments) /\ IsList(pa.assignments)
    BY <1>9, <1>11, Zenon DEF Listed
  <2>3. ProjectColumns(ProjectColumns(below, pp.assignments), pa.assignments)
            = ProjectColumns(below, pp.assignments \o pa.assignments)
    <3> DEFINE v == pp.assignments
               w == pa.assignments
    <3>1. IsList(v) /\ IsList(w)
      BY <2>2, Zenon
    <3> HIDE DEF v, w
    <3>2. ProjectColumns(ProjectColumns(below, v), w) = ProjectColumns(below, v \o w)
      BY <3>1, ProjectTwice
    <3> QED
      BY <3>2 DEF v, w
  <2> QED
    BY <2>1, <2>3, Zenon DEF out, authored
<1>12. CASE kind = "Window"
  <2>1. /\ out = below \o NamesOf(pp.windows \o pa.windows)
        /\ read = below \o NamesOf(pp.windows)
        /\ authored = read \o NamesOf(pa.windows)
    <3>1. out = below \o NamesOf(n.payload.windows)
      BY <1>1, <1>5, <1>12, Zenon DEF PlannedAs, out
    <3>2. PlannedColumns(ns)[p] = below \o NamesOf(pp.windows)
      BY <1>2, <1>6, <1>12, Zenon DEF PlannedAs, pp
    <3>3. authored = read \o NamesOf(pa.windows)
      BY <1>7, <1>12, Zenon DEF PlannedAs, kind, authored, pa
    <3> QED
      BY <1>2, <1>3, <1>12, <3>1, <3>2, <3>3, Zenon DEF Merged
  <2>2. IsList(pp.windows) /\ IsList(pa.windows)
    BY <1>9, <1>12, Zenon DEF Listed
  <2>3. /\ NamesOf(pp.windows \o pa.windows) = NamesOf(pp.windows) \o NamesOf(pa.windows)
        /\ IsList(NamesOf(pp.windows)) /\ IsList(NamesOf(pa.windows))
    BY <2>2, NamesOfConcat, NamesAreList, Zenon
  <2>4. (below \o NamesOf(pp.windows)) \o NamesOf(pa.windows)
            = below \o (NamesOf(pp.windows) \o NamesOf(pa.windows))
    <3> DEFINE v == NamesOf(pp.windows)
               w == NamesOf(pa.windows)
    <3>1. IsList(v) /\ IsList(w) /\ IsList(below)
      BY <1>9, <2>3, Zenon
    <3> HIDE DEF v, w
    <3>2. Associates(below, v, w)
      BY <3>1, ListsAssociate
    <3> QED
      BY <3>2, Zenon DEF v, w, Associates
  <2> QED
    BY <2>1, <2>3, <2>4, Zenon DEF out, authored
<1> QED
  BY <1>2, <1>10, <1>11, <1>12 DEF out, authored

\* A node with no groups of its own, over one that is no grouping or aggregate.
LEMMA NoPrefix ==
    ASSUME NEW ns, ReadsEarlier(ns), AllListed(ns), NEW i \in 1..Len(ns),
           ns[i].kind \notin {"GroupBy", "Aggregate"}
    PROVE  PrefixColumns(ns)[i] = <<>>
<1>1. ns[i].payload.groups = <<>>
  BY DEF AllListed, Listed
<1> QED
  BY <1>1, PrefixOf

\* An aggregate that reads no grouping and no aggregate has no prefix.
LEMMA BarePrefix ==
    ASSUME NEW A, ReadsEarlier(A), AuthoredTidy(A), NEW x \in 1..Len(A), Bare(A, x)
    PROVE  PrefixColumns(A)[x] = <<>>
<1>1. A[x].kind \notin {"GroupBy", "Aggregate"}
  <2>1. CASE Erased(A, x)
    BY <2>1 DEF Erased
  <2>2. CASE ~Erased(A, x)
    BY <2>2, KeptOf DEF Bare
  <2> QED
    BY <2>1, <2>2
<1> QED
  BY <1>1, NoPrefix DEF AuthoredTidy

\* Fusing an aggregate with the grouping it reads.
Fuses(A, ns, x, p, n) ==
    /\ A[x].kind = "Aggregate" /\ ns[p].kind = "GroupBy"
    /\ n.payload.groups = ns[p].payload.groups
    /\ n.payload.measures = A[x].payload.measures

LEMMA FusedColumns ==
    ASSUME NEW A, NEW done, NEW m, NEW ns, NEW x, NEW new, Emitting(A, done, m, ns, x, new),
           NEW live, x \in live, PlainOver(A, live),
           NEW p, NEW n, Replaces(A, m, ns, x, new, p, n), Fuses(A, ns, x, p, n)
    PROVE  /\ PlannedColumns(new)[Len(ns) + 1] = PlannedColumns(A)[x]
           /\ Listed(n.kind, n.payload)
           /\ NothingToGroup(ns, n.kind, n.inputs, n.payload)
<1> DEFINE N == Len(ns)
           y == A[x].inputs[1]
           z == A[y].inputs[1]
           q == ns[p].inputs[1]
           groups == n.payload.groups
<1>1. /\ ReadsEarlier(A) /\ ReadsEarlier(ns) /\ ReadsEarlier(new)
      /\ AuthoredTidy(A) /\ AllListed(A) /\ AllListed(ns)
      /\ x \in 1..Len(A) /\ A[x].kind = "Aggregate" /\ n.kind = "Aggregate"
      /\ y \in done /\ done \subseteq 1..Len(A)
  BY DEF Emitting, AuthoredTidy, Tidy, Replaces, Fuses
<1>2. Stands(A, done, m, ns, y) /\ p = m[y]
  BY <1>1 DEF Emitting, Follows, Replaces
<1>3. p \in 1..N /\ ~Bare(A, y)
  BY <1>2 DEF Stands, Bare, Fuses
<1>4. /\ y \in 1..Len(A) /\ A[y].kind = "GroupBy"
      /\ A[y].payload.groups # <<>> \/ Bare(A, z)
  BY <1>1, <1>3 DEF PlainOver
<1>5. groups = A[y].payload.groups /\ z \in done /\ q = m[z]
  BY <1>2, <1>4 DEF Stands, Fuses
<1>6. z \in 1..Len(A)
  BY <1>1, <1>5
<1>7. Stands(A, done, m, ns, z)
  BY <1>5 DEF Emitting, Follows
<1>8. q \in 1..N
  BY <1>5, <1>7, Zenon DEF Stands
<1>9. n.inputs[1] = q /\ (groups = <<>> => ns[q].kind \notin {"GroupBy", "Aggregate"})
  BY <1>4, <1>5, <1>7, Zenon DEF Stands, Bare, Replaces
<1>10. Listed(n.kind, n.payload)
  <2>1. IsList(A[y].payload.groups) /\ IsList(A[x].payload.measures)
    BY <1>1, <1>4, Zenon DEF AllListed, Listed
  <2> QED
    BY <1>1, <1>5, <2>1, Zenon DEF Listed, Fuses
<1>11. NothingToGroup(ns, n.kind, n.inputs, n.payload)
  BY <1>9, Zenon DEF NothingToGroup
<1>0. Len(new) = N + 1 /\ Len(ns) \in Nat /\ new[N + 1] = n
  BY <1>1, Zenon DEF Emitting, ReadsEarlier, Replaces
<1>16. n.inputs[1] = q /\ n.payload.groups = groups
  BY <1>9
<1> HIDE DEF z, q, groups
<1>12. PrefixColumns(new)[N + 1] = PrefixColumns(A)[x]
  <2>1. N + 1 \in 1..Len(new) /\ new[N + 1] = n
    BY <1>0
  <2>2. PrefixColumns(A)[x] = PrefixColumns(A)[y]
    <3>1. A[x].payload.groups = <<>>
      BY <1>1 DEF AuthoredTidy
    <3> QED
      BY <1>1, <3>1, PrefixOf
  <2>3. CASE groups # <<>>
    <3>1. PrefixColumns(new)[N + 1] = GroupColumns(groups)
      BY <1>1, <1>16, <2>1, <2>3, PrefixOf
    <3>2. PrefixColumns(A)[y] = GroupColumns(groups)
      BY <1>1, <1>4, <1>5, <2>3, PrefixOf DEF groups
    <3> QED
      BY <2>2, <3>1, <3>2
  <2>4. CASE groups = <<>>
    <3>1. PrefixColumns(new)[N + 1] = PrefixColumns(new)[q]
      BY <1>1, <1>16, <2>1, <2>4, PrefixOf
    <3>2. PrefixColumns(new)[q] = PrefixColumns(ns)[q]
      <4>1. \A i \in 1..Len(ns) : PrefixColumns(new)[i] = PrefixColumns(ns)[i]
        BY AppendedColumns DEF Emitting
      <4> QED
        BY <1>8, <4>1
    <3>3. PrefixColumns(ns)[q] = <<>>
      BY <1>1, <1>8, <1>9, <2>4, NoPrefix
    <3>4. PrefixColumns(A)[y] = <<>>
      <4>1. A[y].payload.groups = <<>> /\ A[y].kind # "Aggregate"
        BY <1>4, <1>5, <2>4
      <4>2. ReadsEarlier(A) /\ y \in 1..Len(A)
        BY <1>1, <1>4
      <4> QED
        BY <4>1, <4>2, PrefixOf, Zenon
    <3> QED
      BY <2>2, <3>1, <3>2, <3>3, <3>4
  <2> QED
    BY <2>3, <2>4
<1>13. PlannedColumns(A)[x] = PrefixColumns(A)[x] \o NamesOf(A[x].payload.measures)
  <2>1. PlannedAs(A, x, PlannedColumns(A)[A[x].inputs[1]])
    BY <1>1, ColumnsOf
  <2> QED
    BY <1>1, <2>1, Zenon DEF PlannedAs
<1>14. PlannedColumns(new)[N + 1] = PrefixColumns(new)[N + 1] \o NamesOf(n.payload.measures)
  <2>1. PlannedAs(new, N + 1, PlannedColumns(ns)[q])
    BY <1>0, <1>8, <1>16, EmittedColumns
  <2> QED
    BY <1>0, <1>1, <2>1, Zenon DEF PlannedAs
<1>15. PlannedColumns(new)[N + 1] = PlannedColumns(A)[x]
  BY <1>12, <1>13, <1>14, Zenon DEF Fuses
<1> QED
  BY <1>10, <1>11, <1>15

\* Copying a node.
LEMMA CopiedColumns ==
    ASSUME NEW A, NEW done, NEW m, NEW ns, NEW x, NEW new, Emitting(A, done, m, ns, x, new),
           NEW n, n = new[Len(ns) + 1], n.payload = A[x].payload,
           A[x].kind # "ReadNamedTable" => n.inputs[1] = m[A[x].inputs[1]],
           A[x].kind = "Join" => n.inputs[2] = m[A[x].inputs[2]],
           A[x].kind = "Aggregate" =>
              ns[m[A[x].inputs[1]]].kind \notin {"GroupBy", "Aggregate"}
    PROVE  /\ PlannedColumns(new)[Len(ns) + 1] = PlannedColumns(A)[x]
           /\ Listed(n.kind, n.payload)
           /\ NothingToGroup(ns, n.kind, n.inputs, n.payload)
<1> DEFINE N == Len(ns)
           y == A[x].inputs[1]
           p == m[y]
           z == A[x].inputs[2]
<1>1. /\ ReadsEarlier(A) /\ ReadsEarlier(ns) /\ ReadsEarlier(new)
      /\ AuthoredTidy(A) /\ AllListed(A) /\ AllListed(ns)
      /\ x \in 1..Len(A) /\ n.kind = A[x].kind /\ A[x].kind \in Kind
      /\ done \subseteq 1..Len(A)
  BY DEF Emitting, AuthoredTidy, Tidy, ReadsEarlier
<1>2. ASSUME NEW w \in done
      PROVE  /\ m[w] \in 1..N /\ Stands(A, done, m, ns, w)
             /\ PlannedColumns(new)[m[w]] = PlannedColumns(A)[w]
  <2>1. Stands(A, done, m, ns, w)
    BY DEF Emitting, Follows
  <2>2. m[w] \in 1..N /\ PlannedColumns(ns)[m[w]] = PlannedColumns(A)[w]
    BY <2>1 DEF Stands
  <2>3. PlannedColumns(new)[m[w]] = PlannedColumns(ns)[m[w]]
    BY <2>2, AppendedColumns DEF Emitting
  <2> QED
    BY <2>1, <2>2, <2>3
<1>3. /\ A[x].kind # "ReadNamedTable" =>
            y \in done /\ PlannedColumns(new)[n.inputs[1]] = PlannedColumns(A)[y]
      /\ A[x].kind = "Join" =>
            z \in done /\ PlannedColumns(new)[n.inputs[2]] = PlannedColumns(A)[z]
  <2>1. /\ A[x].kind # "ReadNamedTable" => y \in done
        /\ A[x].kind = "Join" => z \in done
    BY DEF Emitting
  <2> QED
    BY <1>2, <2>1
<1>4. Listed(n.kind, n.payload)
  BY <1>1 DEF AllListed
<1>5. NothingToGroup(ns, n.kind, n.inputs, n.payload)
  BY <1>1 DEF NothingToGroup
<1>6. N + 1 \in 1..Len(new) /\ new[N + 1] = n
  BY <1>1 DEF Emitting, ReadsEarlier
<1>7. A[x].kind = "Aggregate" => PrefixColumns(new)[N + 1] = PrefixColumns(A)[x]
  <2> SUFFICES ASSUME A[x].kind = "Aggregate"
               PROVE  PrefixColumns(new)[N + 1] = PrefixColumns(A)[x]
    OBVIOUS
  <2>1. A[x].payload.groups = <<>>
    BY <1>1 DEF AuthoredTidy
  <2>2. y \in done
    BY <1>3
  <2>3. p \in 1..N /\ Stands(A, done, m, ns, y) /\ y \in 1..Len(A)
    BY <1>1, <1>2, <2>2
  <2>4. Bare(A, y)
    BY <2>3 DEF Bare, Stands
  <2>5. PrefixColumns(A)[x] = <<>>
    <3>1. PrefixColumns(A)[x] = PrefixColumns(A)[y]
      BY <1>1, <2>1, PrefixOf
    <3> QED
      BY <1>1, <2>3, <2>4, <3>1, BarePrefix
  <2>6. PrefixColumns(new)[N + 1] = <<>>
    <3>1. PrefixColumns(new)[N + 1] = PrefixColumns(new)[p]
      BY <1>1, <1>6, <2>1, PrefixOf
    <3> HIDE DEF p
    <3>2. PrefixColumns(new)[p] = PrefixColumns(ns)[p]
      BY <2>3, AppendedColumns DEF Emitting
    <3>3. PrefixColumns(ns)[p] = <<>>
      BY <1>1, <2>3, NoPrefix DEF p
    <3> QED
      BY <3>1, <3>2, <3>3
  <2> QED
    BY <2>5, <2>6
<1>8. PlannedColumns(new)[N + 1] = PlannedColumns(A)[x]
  <2> DEFINE c == PlannedColumns(A)
             d == PlannedColumns(new)
             f == PrefixColumns(A)
             g == PrefixColumns(new)
  <2>1. c[x] = PlannedNode(A, f, c, x) /\ d[N + 1] = PlannedNode(new, g, d, N + 1)
    BY <1>1, <1>6, ColumnsUnfold
  <2>2. /\ A[x].kind = "Aggregate" => g[N + 1] = f[x]
        /\ A[x].kind # "ReadNamedTable" => d[n.inputs[1]] = c[A[x].inputs[1]]
        /\ A[x].kind = "Join" => d[n.inputs[2]] = c[A[x].inputs[2]]
    BY <1>3, <1>7
  <2> HIDE DEF c, d, f, g
  <2>3. PlannedNode(new, g, d, N + 1) = PlannedNode(A, f, c, x)
    BY <1>1, <1>6, <2>2 DEF PlannedNode, Kind, UnaryKind
  <2> QED
    BY <2>1, <2>3 DEF c, d
<1> QED
  BY <1>4, <1>5, <1>8

-----------------------------------------------------------------------------
(* What lowering makes of each node is a relation over numbers.            *)

\* What lowering reads of a payload.
Lowerable(kind, p) ==
    /\ AllNumeric(p.groups)
    /\ kind = "ReadNamedTable" =>
          /\ IsList(TableColumns[p.table])
          /\ TableRows[p.table] \in RowLists(Len(TableColumns[p.table]))
    /\ kind \in {"Project", "SelectProject"} =>
          IsList(p.assignments) /\ AssignmentsNumeric(p.assignments)
    /\ kind = "Aggregate" => MeasuresNumeric(p.measures)
    /\ kind = "Generate" =>
          /\ AllNumeric(p.generators[1].elements)
          /\ IsList(p.generators[1].columns) /\ Len(p.generators[1].columns) = 1
    /\ kind = "Window" =>
          /\ MeasuresNumeric(p.windows)
          /\ \A k \in 1..Len(p.windows) : AllNumeric(p.windows[k].spec)
    /\ kind = "OrderBy" => AllNumeric(p.sorts)
    /\ kind = "Limit" => p.limit \in Nat

AllLowerable(ns) == \A i \in 1..Len(ns) : Lowerable(ns[i].kind, ns[i].payload)

LEMMA NothingNumeric == MeasuresNumeric(<<>>) /\ AllNumeric(<<>>)
BY DEF MeasuresNumeric, AllNumeric, IsSequence

\* A named table is a relation over numbers.
LEMMA ScanTyped ==
    ASSUME NEW cols, IsList(cols), NEW rows \in RowLists(Len(cols))
    PROVE  IsRelation([ok |-> TRUE, width |-> Len(cols), rows |-> {rows}])
<1>1. Len(cols) \in Nat
  BY DEF IsList
<1> QED
  BY <1>1 DEF IsRelation, HasFields

\* An aggregate that takes the groups of the grouping it reads.
LEMMA TakenRelation ==
    ASSUME NEW ns, ReadsEarlier(ns), NEW i \in 1..Len(ns), TakesGroups(ns, i),
           NEW x, x = ns[i].inputs[1], NEW z, z = ns[x].inputs[1]
    PROVE  Lowered(ns)[i] = AggregateRel(Lowered(ns)[z], PlannedColumns(ns)[z],
                                         ns[x].payload.groups, ns[i].payload.measures)
<1> DEFINE cols == PlannedColumns(ns)
           rel == Lowered(ns)
<1>1. rel[i] = LoweredNode(ns, cols, rel, i)
  BY LoweringUnfolds
<1> HIDE DEF cols, rel
<1> QED
  BY <1>1, Zenon DEF LoweredNode, TakesGroups, cols, rel

\* Every node lowers to a relation over numbers, as its inputs do.
LEMMA LoweredTyped ==
    ASSUME NEW ns, ReadsEarlier(ns), AllListed(ns), AllLowerable(ns), NEW i \in 1..Len(ns)
    PROVE  IsRelation(Lowered(ns)[i])
<1> DEFINE Bad == {j \in 1..Len(ns) : ~IsRelation(Lowered(ns)[j])}
<1> SUFFICES ASSUME Bad # {} PROVE FALSE
  OBVIOUS
<1>1. Bad \in SUBSET Nat
  OBVIOUS
<1> HIDE DEF Bad
<1>2. PICK j \in Bad : \A k \in Bad : j <= k
  BY <1>1, ByPosition!LeastNumber
<1>3. j \in 1..Len(ns) /\ ~IsRelation(Lowered(ns)[j]) /\ j \in Nat
  BY <1>2 DEF Bad
<1>4. ASSUME NEW k \in 1..(j - 1)
      PROVE  /\ IsRelation(Lowered(ns)[k]) /\ IsList(PlannedColumns(ns)[k])
             /\ k \in 1..Len(ns)
  <2>1. k \in 1..Len(ns) /\ ~(j <= k)
    BY <1>3 DEF ReadsEarlier
  <2> QED
    BY <1>2, <2>1, ColumnsAreLists DEF Bad
<1> DEFINE p == ns[j].payload
           kind == ns[j].kind
           x == ns[j].inputs[1]
           y == ns[j].inputs[2]
           rel == Lowered(ns)[x]
           cols == PlannedColumns(ns)[x]
           out == Lowered(ns)[j]
<1>5. /\ kind \in Kind
      /\ kind # "ReadNamedTable" => x \in 1..(j - 1)
      /\ kind = "Join" => y \in 1..(j - 1)
      /\ Lowerable(kind, p)
  BY <1>3 DEF ReadsEarlier, AllLowerable
<1>6. CASE TakesGroups(ns, j)
  <2> DEFINE z == ns[x].inputs[1]
  <2>1. x \in 1..(j - 1) /\ kind = "Aggregate" /\ ns[x].kind = "GroupBy"
    BY <1>5, <1>6 DEF TakesGroups
  <2>2. x \in 1..Len(ns)
    BY <1>4, <2>1
  <2>3. z \in 1..(x - 1) /\ AllNumeric(ns[x].payload.groups) /\ MeasuresNumeric(p.measures)
    BY <1>5, <2>1, <2>2 DEF ReadsEarlier, AllLowerable, Lowerable
  <2>4. z \in 1..(j - 1)
    BY <1>3, <2>1, <2>3
  <2>5. IsRelation(Lowered(ns)[z]) /\ IsList(PlannedColumns(ns)[z])
    BY <1>4, <2>4
  <2>6. out = AggregateRel(Lowered(ns)[z], PlannedColumns(ns)[z],
                           ns[x].payload.groups, p.measures)
    BY <1>3, <1>6, TakenRelation
  <2>7. IsRelation(AggregateRel(Lowered(ns)[z], PlannedColumns(ns)[z],
                                ns[x].payload.groups, p.measures))
    BY <2>3, <2>5, AggregateTyped
  <2> QED
    BY <1>3, <2>6, <2>7
<1>7. CASE ~TakesGroups(ns, j)
  <2>1. LoweredAs(ns, j, rel, cols)
    BY <1>3, <1>7, OwnRelation
  <2>2. kind # "ReadNamedTable" => IsRelation(rel) /\ IsList(cols)
    BY <1>4, <1>5
  <2>3. kind = "Join" => IsRelation(Lowered(ns)[y]) /\ IsList(PlannedColumns(ns)[y])
    BY <1>4, <1>5
  <2> DEFINE right == Qualified(p.relation, PlannedColumns(ns)[y])
  <2>4. CASE kind = "ReadNamedTable"
    <3>1. out = [ok |-> TRUE, width |-> Len(TableColumns[p.table]),
                 rows |-> {TableRows[p.table]}]
      BY <2>1, <2>4, Zenon DEF LoweredAs
    <3>2. /\ IsList(TableColumns[p.table])
          /\ TableRows[p.table] \in RowLists(Len(TableColumns[p.table]))
      BY <1>5, <2>4, Zenon DEF Lowerable
    <3>3. IsRelation([ok |-> TRUE, width |-> Len(TableColumns[p.table]),
                      rows |-> {TableRows[p.table]}])
      BY <3>2, ScanTyped
    <3> QED
      BY <1>3, <3>1, <3>3
  <2>5. CASE kind = "Filter"
    <3>1. out = FilterRel(rel, cols, p.predicate)
      BY <2>1, <2>5, Zenon DEF LoweredAs
    <3>2. IsRelation(FilterRel(rel, cols, p.predicate))
      BY <2>2, <2>5, FilterTyped
    <3> QED
      BY <1>3, <3>1, <3>2
  <2>6. CASE kind \in {"Project", "SelectProject"}
    <3>1. IsList(p.assignments) /\ AssignmentsNumeric(p.assignments)
      BY <1>5, <2>6, Zenon DEF Lowerable
    <3>2. /\ IsRelation(ProjectRel(rel, cols, p.assignments))
          /\ IsRelation(SelectProjectRel(rel, cols, p.assignments))
      BY <2>2, <2>6, <3>1, ProjectTyped, SelectProjectTyped
    <3>3. \/ out = ProjectRel(rel, cols, p.assignments)
          \/ out = SelectProjectRel(rel, cols, p.assignments)
      BY <2>1, <2>6, Zenon DEF LoweredAs
    <3> QED
      BY <1>3, <3>2, <3>3
  <2>7. CASE kind \in {"GroupBy", "Aggregate"}
    <3>1. AllNumeric(p.groups) /\ (kind = "Aggregate" => MeasuresNumeric(p.measures))
      BY <1>5, Zenon DEF Lowerable
    <3>2. \A ms : MeasuresNumeric(ms) => IsRelation(AggregateRel(rel, cols, p.groups, ms))
      BY <2>2, <2>7, <3>1, AggregateTyped
    <3>3. \/ out = AggregateRel(rel, cols, p.groups, <<>>)
          \/ kind = "Aggregate" /\ out = AggregateRel(rel, cols, p.groups, p.measures)
      BY <2>1, <2>7, Zenon DEF LoweredAs
    <3> HIDE DEF out, rel, cols
    <3> QED
      BY <1>3, <3>1, <3>2, <3>3, NothingNumeric, Zenon DEF out
  <2>8. CASE kind = "Generate"
    <3>1. out = GeneratorRel(rel, cols, p.generators[1])
      BY <2>1, <2>8, Zenon DEF LoweredAs
    <3>2. /\ AllNumeric(p.generators[1].elements)
          /\ IsList(p.generators[1].columns) /\ Len(p.generators[1].columns) = 1
      BY <1>5, <2>8, Zenon DEF Lowerable
    <3>3. IsRelation(GeneratorRel(rel, cols, p.generators[1]))
      BY <2>2, <2>8, <3>2, GeneratorTyped
    <3> QED
      BY <1>3, <3>1, <3>3
  <2>9. CASE kind = "Window"
    <3>1. out = WindowRel(rel, cols, p.windows) /\ MeasuresNumeric(p.windows)
      BY <1>5, <2>1, <2>9, Zenon DEF LoweredAs, Lowerable
    <3>2. IsRelation(WindowRel(rel, cols, p.windows))
      BY <2>2, <2>9, <3>1, WindowTyped
    <3> QED
      BY <1>3, <3>1, <3>2
  <2>10. CASE kind = "OrderBy"
    <3>1. out = SortRel(rel, cols, p.sorts)
      BY <2>1, <2>10, Zenon DEF LoweredAs
    <3>2. IsRelation(SortRel(rel, cols, p.sorts))
      BY <2>2, <2>10, SortTyped
    <3> QED
      BY <1>3, <3>1, <3>2
  <2>11. CASE kind = "Limit"
    <3>1. out = FetchRel(rel, p.limit) /\ p.limit \in Nat
      BY <1>5, <2>1, <2>11, Zenon DEF LoweredAs, Lowerable
    <3>2. IsRelation(FetchRel(rel, p.limit))
      BY <2>2, <2>11, <3>1, FetchTyped
    <3> QED
      BY <1>3, <3>1, <3>2
  <2>12. CASE kind = "Join"
    <3>1. out = JoinRel(rel, cols, Lowered(ns)[y], right, p.predicate, p.join)
      BY <2>1, <2>12, Zenon DEF LoweredAs
    <3>2. IsList(right)
      BY <2>3, <2>12, QualifiedIsList
    <3> HIDE DEF right
    <3>3. IsRelation(JoinRel(rel, cols, Lowered(ns)[y], right, p.predicate, p.join))
      BY <2>2, <2>3, <2>12, <3>2, JoinTyped
    <3> QED
      BY <1>3, <3>1, <3>3
  <2> QED
    BY <1>5, <2>4, <2>5, <2>6, <2>7, <2>8, <2>9, <2>10, <2>11, <2>12 DEF Kind, UnaryKind
<1> QED
  BY <1>6, <1>7

\* A copy of some nodes of a list lowers to the same relations.
LEMMA MirroredLowering ==
    ASSUME NEW ns, ReadsEarlier(ns), NEW vn, ReadsEarlier(vn),
           NEW done, NEW m, Mirrors(ns, done, m, vn), NEW x \in done
    PROVE  Lowered(vn)[m[x]] = Lowered(ns)[x]
<1> DEFINE Bad == {y \in done : Lowered(vn)[m[y]] # Lowered(ns)[y]}
<1> SUFFICES ASSUME Bad # {} PROVE FALSE
  OBVIOUS
<1>1. Bad \in SUBSET Nat
  <2>1. Bad \subseteq done
    OBVIOUS
  <2> HIDE DEF Bad
  <2> QED
    BY <2>1 DEF Mirrors
<1> HIDE DEF Bad
<1>2. PICK y \in Bad : \A z \in Bad : y <= z
  BY <1>1, ByPosition!LeastNumber
<1> DEFINE n == ns[y]
           v == vn[m[y]]
           a == n.inputs[1]
           b == n.inputs[2]
           c == ns[a].inputs[1]
<1>3. /\ y \in done /\ y \in 1..Len(ns) /\ m[y] \in 1..Len(vn)
      /\ v.kind = n.kind /\ v.payload = n.payload /\ n.kind \in Kind
      /\ n.kind # "ReadNamedTable" => a \in done /\ a \in 1..(y - 1) /\ v.inputs[1] = m[a]
      /\ n.kind = "Join" => b \in done /\ b \in 1..(y - 1) /\ v.inputs[2] = m[b]
  <2>1. y \in done /\ y \in 1..Len(ns)
    BY DEF Bad, Mirrors
  <2>2. /\ m[y] \in 1..Len(vn) /\ v.kind = n.kind /\ v.payload = n.payload
        /\ n.kind # "ReadNamedTable" => a \in done /\ v.inputs[1] = m[a]
        /\ n.kind = "Join" => b \in done /\ v.inputs[2] = m[b]
    BY <2>1 DEF Mirrors
  <2>3. /\ n.kind \in Kind
        /\ n.kind # "ReadNamedTable" => a \in 1..(y - 1)
        /\ n.kind = "Join" => b \in 1..(y - 1)
    BY <2>1 DEF ReadsEarlier
  <2> QED
    BY <2>1, <2>2, <2>3
<1>4. ASSUME NEW z \in done, z \in 1..(y - 1)
      PROVE  /\ Lowered(vn)[m[z]] = Lowered(ns)[z]
             /\ PlannedColumns(vn)[m[z]] = PlannedColumns(ns)[z]
             /\ vn[m[z]].kind = ns[z].kind /\ vn[m[z]].payload = ns[z].payload
  <2>1. z < y /\ z \in Nat /\ y \in Nat
    BY <1>1, <1>4
  <2>2. z \notin Bad
    BY <1>2, <2>1
  <2>3. Lowered(vn)[m[z]] = Lowered(ns)[z]
    BY <2>2 DEF Bad
  <2>4. PlannedColumns(vn)[m[z]] = PlannedColumns(ns)[z]
    BY MirroredColumns
  <2>5. vn[m[z]].kind = ns[z].kind /\ vn[m[z]].payload = ns[z].payload
    BY DEF Mirrors
  <2> QED
    BY <2>3, <2>4, <2>5
<1>5. n.kind = "Aggregate" /\ ns[a].kind = "GroupBy" =>
          /\ c \in done /\ c \in 1..(y - 1) /\ vn[m[a]].inputs[1] = m[c]
  <2> SUFFICES ASSUME n.kind = "Aggregate", ns[a].kind = "GroupBy"
               PROVE  c \in done /\ c \in 1..(y - 1) /\ vn[m[a]].inputs[1] = m[c]
    OBVIOUS
  <2>1. a \in done /\ a \in 1..(y - 1) /\ a \in 1..Len(ns)
    BY <1>3 DEF Mirrors
  <2>2. c \in done /\ vn[m[a]].inputs[1] = m[c] /\ c \in 1..(a - 1)
    BY <2>1 DEF Mirrors, ReadsEarlier
  <2>3. c \in 1..(y - 1)
    BY <1>3, <2>1, <2>2
  <2> QED
    BY <2>2, <2>3
<1> DEFINE cn == PlannedColumns(ns)
           cv == PlannedColumns(vn)
           ln == Lowered(ns)
           lv == Lowered(vn)
<1>6. ln[y] = LoweredNode(ns, cn, ln, y) /\ lv[m[y]] = LoweredNode(vn, cv, lv, m[y])
  BY <1>3, LoweringUnfolds
<1>7. n.kind # "ReadNamedTable" =>
          /\ lv[v.inputs[1]] = ln[a] /\ cv[v.inputs[1]] = cn[a]
          /\ vn[v.inputs[1]].kind = ns[a].kind /\ vn[v.inputs[1]].payload = ns[a].payload
  BY <1>3, <1>4
<1>8. n.kind = "Join" => lv[v.inputs[2]] = ln[b] /\ cv[v.inputs[2]] = cn[b]
  BY <1>3, <1>4
<1>9. n.kind = "Aggregate" /\ ns[a].kind = "GroupBy" =>
          /\ lv[vn[v.inputs[1]].inputs[1]] = ln[ns[a].inputs[1]]
          /\ cv[vn[v.inputs[1]].inputs[1]] = cn[ns[a].inputs[1]]
  <2> SUFFICES ASSUME n.kind = "Aggregate", ns[a].kind = "GroupBy"
               PROVE  /\ lv[vn[v.inputs[1]].inputs[1]] = ln[c]
                      /\ cv[vn[v.inputs[1]].inputs[1]] = cn[c]
    OBVIOUS
  <2>1. v.inputs[1] = m[a]
    BY <1>3
  <2>2. c \in done /\ c \in 1..(y - 1) /\ vn[m[a]].inputs[1] = m[c]
    BY <1>5
  <2>3. lv[m[c]] = ln[c] /\ cv[m[c]] = cn[c]
    BY <1>4, <2>2
  <2> HIDE DEF lv, ln, cv, cn, v, a, c
  <2> QED
    BY <2>1, <2>2, <2>3
<1> HIDE DEF cn, cv, ln, lv
<1>10. LoweredNode(vn, cv, lv, m[y]) = LoweredNode(ns, cn, ln, y)
  BY <1>3, <1>7, <1>8, <1>9 DEF LoweredNode, Kind, UnaryKind
<1> QED
  BY <1>2, <1>6, <1>10 DEF Bad, ln, lv

\* A list with another node at its end lowers to the same relations before it.
LEMMA AppendedLowering ==
    ASSUME NEW ns, ReadsEarlier(ns), NEW new, ReadsEarlier(new),
           Len(new) = Len(ns) + 1, \A i \in 1..Len(ns) : new[i] = ns[i],
           NEW i \in 1..Len(ns)
    PROVE  Lowered(new)[i] = Lowered(ns)[i]
<1> DEFINE m == [j \in 1..Len(ns) |-> j]
           done == 1..Len(ns)
<1>1. Mirrors(ns, done, m, new)
  BY AppendedMirrors
<1>2. i \in done /\ m[i] = i
  OBVIOUS
<1> HIDE DEF m, done
<1> QED
  BY <1>1, <1>2, MirroredLowering

-----------------------------------------------------------------------------
(* The columns of adjacent windows.                                        *)

\* The node kept for x is x or one before it.
LEMMA KeptBelow ==
    ASSUME NEW A, ReadsEarlier(A), NEW x \in 1..Len(A)
    PROVE  Kept(A)[x] \in 1..x
<1> DEFINE Bad == {j \in 1..Len(A) : Kept(A)[j] \notin 1..j}
<1> SUFFICES ASSUME Bad # {} PROVE FALSE
  OBVIOUS
<1>1. Bad \in SUBSET Nat
  OBVIOUS
<1> HIDE DEF Bad
<1>2. PICK j \in Bad : \A k \in Bad : j <= k
  BY <1>1, ByPosition!LeastNumber
<1>3. j \in 1..Len(A) /\ Kept(A)[j] \notin 1..j /\ j \in Nat
  BY <1>2 DEF Bad
<1> DEFINE y == A[j].inputs[1]
<1>4. CASE Erased(A, j)
  <2>1. Kept(A)[j] = Kept(A)[y]
    BY <1>3, <1>4, KeptOf
  <2>2. y \in 1..(j - 1)
    BY <1>3, <1>4 DEF Erased, ReadsEarlier
  <2>3. y \in 1..Len(A) /\ ~(j <= y)
    BY <1>3, <2>2 DEF ReadsEarlier
  <2>4. Kept(A)[y] \in 1..y
    BY <1>2, <2>3 DEF Bad
  <2> QED
    BY <1>3, <2>1, <2>2, <2>4
<1>5. CASE ~Erased(A, j)
  <2>1. Kept(A)[j] = j
    BY <1>3, <1>5, KeptOf
  <2> QED
    BY <1>3, <2>1
<1> QED
  BY <1>4, <1>5

OwnNames(n) == {n.payload.windows[k].name : k \in 1..Len(n.payload.windows)}

\* WindowNames computes its equation.
LEMMA WindowNamesUnfold ==
    ASSUME NEW ns, ReadsEarlier(ns), NEW i \in 1..Len(ns)
    PROVE  WindowNames(ns)[i] = NamesStep(ns, WindowNames(ns), i)
<1>1. ReadsBefore(ns, "names")
  <2> SUFFICES ASSUME NEW j \in 1..Len(ns), NEW g, NEW h, \A k \in 1..(j - 1) : g[k] = h[k]
               PROVE  NamesStep(ns, g, j) = NamesStep(ns, h, j)
    BY PositionSteps DEF ReadsBefore
  <2> DEFINE kept == Kept(ns)
  <2>1. ns[j].kind = "Window" => kept[ns[j].inputs[1]] \in 1..(j - 1)
    <3> SUFFICES ASSUME ns[j].kind = "Window"
                 PROVE  kept[ns[j].inputs[1]] \in 1..(j - 1)
      OBVIOUS
    <3>1. ns[j].inputs[1] \in 1..(j - 1) /\ ns[j].inputs[1] \in 1..Len(ns) /\ j \in Nat
      BY DEF ReadsEarlier
    <3>2. kept[ns[j].inputs[1]] \in 1..ns[j].inputs[1]
      BY <3>1, KeptBelow
    <3> HIDE DEF kept
    <3> QED
      BY <3>1, <3>2
  <2> QED
    BY <2>1, Zenon DEF NamesStep
<1>2. \E f : f = [j \in 1..Len(ns) |-> NamesStep(ns, f, j)]
  <2>1. \E f : f = [j \in 1..Len(ns) |-> PositionStep(ns, "names", f, j)]
    BY <1>1, PositionSolution DEF ReadsEarlier
  <2> QED
    BY <2>1, PositionSteps
<1>3. WindowNames(ns) = [j \in 1..Len(ns) |-> NamesStep(ns, WindowNames(ns), j)]
  BY <1>2, Zenon DEF WindowNames, NamesStep
<1> QED
  BY <1>3

\* The names of a window are its own and those of the window it follows.
LEMMA WindowNamesOf ==
    ASSUME NEW ns, ReadsEarlier(ns), NEW i \in 1..Len(ns), ns[i].kind = "Window"
    PROVE  WindowNames(ns)[i]
               = OwnNames(ns[i]) \cup WindowNames(ns)[Kept(ns)[ns[i].inputs[1]]]
<1> DEFINE names == WindowNames(ns)
<1>1. names[i] = NamesStep(ns, names, i)
  BY WindowNamesUnfold
<1> HIDE DEF names
<1>2. names[i] = OwnNames(ns[i]) \cup names[Kept(ns)[ns[i].inputs[1]]]
  BY <1>1, Zenon DEF NamesStep, OwnNames
<1> QED
  BY <1>2 DEF names

-----------------------------------------------------------------------------
(* What one iteration of the first loop makes the draft mean.              *)

\* The node that stands for x in ns refines what x lowers to; where it is a
\* window, its columns are those of the windows that x follows or is.
Means(A, done, m, ns) ==
    \A z \in done :
        /\ Refines(Lowered(ns)[m[z]], Lowered(A)[z])
        /\ ns[m[z]].kind = "Window" => OwnNames(ns[m[z]]) \subseteq WindowNames(A)[Kept(A)[z]]

\* An erased filter is stood for by what stands for its input.
LEMMA EraseMeans ==
    ASSUME NEW A, ReadsEarlier(A), AuthoredTidy(A), AllLowerable(A),
           NEW done, NEW m, NEW ns, Means(A, done, m, ns),
           NEW x \in 1..Len(A), Erased(A, x), A[x].inputs[1] \in done,
           NEW mnew, \A z \in done : mnew[z] = m[z], mnew[x] = m[A[x].inputs[1]]
    PROVE  Means(A, done \cup {x}, mnew, ns)
<1> DEFINE y == A[x].inputs[1]
           cols == PlannedColumns(A)[y]
           e == A[x].payload.predicate
<1>1. A[x].kind = "Filter" /\ e = TrueLiteral
  BY DEF Erased
<1>2. y \in 1..Len(A) /\ Kept(A)[x] = Kept(A)[y]
  BY <1>1, KeptOf DEF ReadsEarlier
<1>3. Lowered(A)[x] = FilterRel(Lowered(A)[y], cols, e)
  <2>1. ~TakesGroups(A, x)
    BY <1>1 DEF TakesGroups
  <2>2. LoweredAs(A, x, Lowered(A)[y], cols)
    BY <2>1, OwnRelation
  <2> QED
    BY <1>1, <2>2, Zenon DEF LoweredAs
<1>4. IsRelation(Lowered(A)[y])
  BY <1>2, LoweredTyped DEF AuthoredTidy
<1>5. e.op = "true"
  BY <1>1, MeaningAssumption
<1>6. Refines(Lowered(A)[y], Lowered(A)[x])
  <2>1. Refines(Lowered(A)[y], FilterRel(Lowered(A)[y], cols, e))
    BY <1>4, <1>5, FilterTrueRefined
  <2> QED
    BY <1>3, <2>1
<1>7. Refines(Lowered(ns)[m[y]], Lowered(A)[y])
  BY DEF Means
<1>8. Refines(Lowered(ns)[m[y]], Lowered(A)[x])
  BY <1>6, <1>7, RefinesTransitively
<1>9. ns[m[y]].kind = "Window" => OwnNames(ns[m[y]]) \subseteq WindowNames(A)[Kept(A)[x]]
  BY <1>2 DEF Means
<1> QED
  BY <1>8, <1>9 DEF Means

\* A node put at the end changes the meaning of no other.
LEMMA EmitMeans ==
    ASSUME NEW A, NEW done, NEW m, NEW ns, NEW x, NEW new, Emitting(A, done, m, ns, x, new),
           Means(A, done, m, ns),
           NEW mnew, \A z \in done : mnew[z] = m[z], mnew[x] = Len(ns) + 1,
           Refines(Lowered(new)[Len(ns) + 1], Lowered(A)[x]),
           A[x].kind = "Window" => OwnNames(new[Len(ns) + 1]) \subseteq WindowNames(A)[x]
    PROVE  Means(A, done \cup {x}, mnew, new)
<1>1. Kept(A)[x] = x
  BY KeptOf DEF Emitting
<1>2. ASSUME NEW z \in done
      PROVE  /\ Refines(Lowered(new)[mnew[z]], Lowered(A)[z])
             /\ new[mnew[z]].kind = "Window" =>
                   OwnNames(new[mnew[z]]) \subseteq WindowNames(A)[Kept(A)[z]]
  <2>1. m[z] \in 1..Len(ns)
    BY DEF Emitting, Follows, Stands
  <2>2. new[m[z]] = ns[m[z]] /\ Lowered(new)[m[z]] = Lowered(ns)[m[z]]
    BY <2>1, AppendedLowering DEF Emitting
  <2>3. mnew[z] = m[z]
    OBVIOUS
  <2> QED
    BY <2>2, <2>3 DEF Means
<1>3. new[Len(ns) + 1].kind = A[x].kind
  BY DEF Emitting
<1> QED
  BY <1>1, <1>2, <1>3 DEF Means

\* The iteration of the first loop for x, where what was emitted so far means
\* what was authored.
EmittingMeaning(A, done, m, ns, x, new) ==
    /\ Emitting(A, done, m, ns, x, new) /\ Tidy(new)
    /\ AllLowerable(A) /\ AllLowerable(ns) /\ Means(A, done, m, ns)

\* What the new node lowers to over the draft, where it reads draft nodes.
LEMMA EmittedLowering ==
    ASSUME NEW A, NEW done, NEW m, NEW ns, NEW x, NEW new, Emitting(A, done, m, ns, x, new),
           Tidy(new), NEW q, new[Len(ns) + 1].inputs[1] = q, q \in 1..Len(ns)
    PROVE  LoweredAs(new, Len(ns) + 1, Lowered(ns)[q], PlannedColumns(ns)[q])
<1>1. Len(ns) + 1 \in 1..Len(new) /\ ReadsEarlier(new)
  BY DEF Emitting, ReadsEarlier
<1>2. LoweredAs(new, Len(ns) + 1, Lowered(new)[q], PlannedColumns(new)[q])
  BY <1>1, RelationOf
<1>3. PlannedColumns(new)[q] = PlannedColumns(ns)[q]
  BY AppendedColumns DEF Emitting
<1>4. Lowered(new)[q] = Lowered(ns)[q]
  BY AppendedLowering DEF Emitting
<1> QED
  BY <1>2, <1>3, <1>4

\* The payload p of a merged node holds what lowering its parent and then it reads.
MergedRows(kind, parent, own, p) ==
    /\ Merged(kind, parent, own, p)
    /\ kind = "Limit" =>
          p.limit = IF parent.limit < own.limit THEN parent.limit ELSE own.limit
    /\ kind = "OrderBy" => p.sorts = own.sorts
    /\ kind = "Window" => OneBoundary(parent.windows, own.windows)

LEMMA ListIsSequence ==
    ASSUME NEW w, IsList(w)
    PROVE  IsSequence(w) /\ DOMAIN w = 1..Len(w)
<1> DEFINE S == {w[k] : k \in DOMAIN w}
<1>1. DOMAIN w = 1..Len(w) /\ Len(w) \in Nat /\ w = [k \in 1..Len(w) |-> w[k]]
  BY DEF IsList
<1>2. \A k \in 1..Len(w) : w[k] \in S
  BY <1>1
<1> HIDE DEF S
<1>3. w \in Seq(S)
  BY <1>1, <1>2
<1> QED
  BY <1>1, <1>3 DEF S, IsSequence

\* The items of w are those of a and those of b.
ItemsOfBoth(w, a, b) ==
    /\ IsList(w)
    /\ \A i \in 1..Len(w) :
          (\E j \in 1..Len(a) : w[i] = a[j]) \/ (\E j \in 1..Len(b) : w[i] = b[j])

LEMMA JoinedItems ==
    ASSUME NEW a, IsList(a), NEW b, IsList(b)
    PROVE  ItemsOfBoth(a \o b, a, b)
<1> DEFINE w == a \o b
<1>1. /\ Len(w) = Len(a) + Len(b) /\ Len(a) \in Nat /\ Len(b) \in Nat
      /\ \A k \in 1..Len(a) : w[k] = a[k]
      /\ \A k \in 1..Len(b) : w[Len(a) + k] = b[k]
  BY ConcatAt
<1>2. IsList(w)
  BY ListsJoin
<1> HIDE DEF w
<1>3. ASSUME NEW i \in 1..Len(w)
      PROVE  (\E j \in 1..Len(a) : w[i] = a[j]) \/ (\E j \in 1..Len(b) : w[i] = b[j])
  <2>1. CASE i \in 1..Len(a)
    BY <1>1, <2>1
  <2>2. CASE i \notin 1..Len(a)
    <3>1. i - Len(a) \in 1..Len(b) /\ i = Len(a) + (i - Len(a))
      BY <1>1, <2>2
    <3> QED
      BY <1>1, <3>1
  <2> QED
    BY <2>1, <2>2
<1> QED
  BY <1>2, <1>3 DEF ItemsOfBoth, w

\* What lowering reads of a merged payload it read of one of the two.
LEMMA MergedLowerable ==
    ASSUME NEW kind \in {"Limit", "OrderBy", "Project", "Window"}, NEW parent, NEW own, NEW p,
           Lowerable(kind, parent), Lowerable(kind, own), MergedRows(kind, parent, own, p),
           AllNumeric(p.groups)
    PROVE  Lowerable(kind, p)
<1>1. CASE kind = "Limit"
  <2>1. p.limit \in Nat
    BY <1>1 DEF Lowerable, MergedRows
  <2> QED
    BY <1>1, <2>1 DEF Lowerable
<1>2. CASE kind = "OrderBy"
  BY <1>2 DEF Lowerable, MergedRows
<1>3. CASE kind = "Project"
  <2> DEFINE a == parent.assignments
             b == own.assignments
             w == p.assignments
  <2>1. IsList(a) /\ IsList(b) /\ AssignmentsNumeric(a) /\ AssignmentsNumeric(b) /\ w = a \o b
    BY <1>3 DEF Lowerable, MergedRows, Merged
  <2> HIDE DEF a, b, w
  <2>2. ItemsOfBoth(w, a, b)
    BY <2>1, JoinedItems
  <2>3. AssignmentsNumeric(w) /\ IsList(w)
    BY <2>1, <2>2 DEF AssignmentsNumeric, ItemsOfBoth
  <2> QED
    BY <1>3, <2>3 DEF Lowerable, w
<1>4. CASE kind = "Window"
  <2> DEFINE a == parent.windows
             b == own.windows
             w == p.windows
  <2>1. /\ MeasuresNumeric(a) /\ MeasuresNumeric(b) /\ w = a \o b
        /\ \A k \in 1..Len(a) : AllNumeric(a[k].spec)
        /\ \A k \in 1..Len(b) : AllNumeric(b[k].spec)
    BY <1>4 DEF Lowerable, MergedRows, Merged
  <2> HIDE DEF a, b, w
  <2>2. IsList(a) /\ IsList(b)
    BY <2>1 DEF MeasuresNumeric, IsSequence, IsList
  <2>3. ItemsOfBoth(w, a, b)
    BY <2>1, <2>2, JoinedItems
  <2>4. /\ DOMAIN a = 1..Len(a) /\ DOMAIN b = 1..Len(b)
        /\ IsSequence(w) /\ DOMAIN w = 1..Len(w)
    BY <2>2, <2>3, ListIsSequence DEF ItemsOfBoth
  <2>5. MeasuresNumeric(w)
    BY <2>1, <2>3, <2>4 DEF MeasuresNumeric, ItemsOfBoth
  <2>6. \A k \in 1..Len(w) : AllNumeric(w[k].spec)
    BY <2>1, <2>3 DEF ItemsOfBoth
  <2> QED
    BY <1>4, <2>5, <2>6 DEF Lowerable, w
<1> QED
  BY <1>1, <1>2, <1>3, <1>4
=============================================================================
