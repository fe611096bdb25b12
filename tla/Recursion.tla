----------------------------- MODULE Recursion -----------------------------
(***************************************************************************)
(* What the proofs need to know of recursive definitions: that there is a  *)
(* function that satisfies the recursive equation, and what a fold over a  *)
(* list or a set does with each element.  No code is modelled here.        *)
(*                                                                         *)
(* Step(c, d, x, y) is one step of the recursion: of a recursive function, *)
(* its value at y given its other values x; of a fold, the result for the  *)
(* element y given the result x so far.  c and d are whatever else it      *)
(* reads.  A proof instantiates this module with the step of its own       *)
(* definition, which is how an induction is carried out without a theorem  *)
(* that takes an operator as its parameter.                                *)
(***************************************************************************)
EXTENDS Integers, Sequences, FiniteSets, FiniteSetsExt, FiniteSetTheorems,
        WellFoundedInduction, TLAPS

CONSTANT Step(_, _, _, _)

-----------------------------------------------------------------------------
(* Least elements: every induction below, and in the proofs that use this   *)
(* module, looks at the least counterexample.                               *)

\* A non-empty set of natural numbers has a least element.
LEMMA LeastNumber ==
    ASSUME NEW S \in SUBSET Nat, S # {}
    PROVE  \E m \in S : \A x \in S : m <= x
<1>1. PICK m \in S : \A x \in S : ~(<<x, m>> \in OpToRel(<, Nat))
    BY NatLessThanWellFounded, WFMin
<1>2. \A x \in S : ~(x < m)
    BY <1>1 DEF OpToRel
<1> QED
    BY <1>2

\* So has a set whose elements are ranked by natural numbers.
LEMMA LeastRanked ==
    ASSUME NEW D, NEW rank \in [D -> Nat], NEW S \in SUBSET D, S # {}
    PROVE  \E x \in S : \A y \in S : rank[x] <= rank[y]
<1> DEFINE R == {rank[x] : x \in S}
<1>1. R \in SUBSET Nat /\ R # {}
    OBVIOUS
<1>2. PICK m \in R : \A r \in R : m <= r
    BY <1>1, LeastNumber
<1>3. PICK x \in S : rank[x] = m
    OBVIOUS
<1> QED
    BY <1>2, <1>3

\* Induction up to a number: G holds what is so of 0 and passes from one number to
\* the next.
LEMMA CountingUp ==
    ASSUME NEW N \in Nat, NEW G, 0 \in G, \A n \in 1..N : n - 1 \in G => n \in G
    PROVE  \A n \in 0..N : n \in G
<1> DEFINE Bad == (0..N) \ G
<1> SUFFICES ASSUME Bad # {} PROVE FALSE
    OBVIOUS
<1> Bad \in SUBSET Nat
    OBVIOUS
<1>1. PICK n \in Bad : \A x \in Bad : n <= x
  <2> HIDE DEF Bad
  <2> QED
    BY LeastNumber
<1>2. n \in 1..N /\ n - 1 \in 0..N /\ ~(n <= n - 1)
    BY <1>1
<1>3. n - 1 \in G
    BY <1>1, <1>2
<1> QED
    BY <1>1, <1>2, <1>3

-----------------------------------------------------------------------------
(* Recursive functions.                                                    *)

\* The value at x depends on no value but those of a lower rank.
Backward(c, d, D, rank) ==
    \A x \in D : \A g, h :
        (\A y \in D : rank[y] < rank[x] => g[y] = h[y]) => Step(c, d, g, x) = Step(c, d, h, x)

\* f satisfies the recursive equation on D.
Solves(c, d, D, f) == f = [x \in D |-> Step(c, d, f, x)]

LEMMA SolvesAt ==
    ASSUME NEW c, NEW d, NEW D, NEW f, Solves(c, d, D, f), NEW x \in D
    PROVE  f[x] = Step(c, d, f, x)
<1>1. [y \in D |-> Step(c, d, f, y)][x] = Step(c, d, f, x)
    OBVIOUS
<1> QED
    BY <1>1, Zenon DEF Solves

\* A recursion whose steps go backward defines a function.
THEOREM SolutionExists ==
    ASSUME NEW c, NEW d, NEW D, NEW N \in Nat, NEW rank \in [D -> 0..N],
           Backward(c, d, D, rank)
    PROVE  \E f : Solves(c, d, D, f)
<1> DEFINE Below(n) == {x \in D : rank[x] < n}
           Bad == {n \in Nat : n <= N + 1 /\ ~\E f : Solves(c, d, Below(n), f)}
<1>1. SUFFICES ASSUME Bad # {} PROVE FALSE
  <2>1. SUFFICES ASSUME Bad = {} PROVE \E f : Solves(c, d, D, f)
    OBVIOUS
  <2>2. \E f : Solves(c, d, Below(N + 1), f)
    <3> HIDE DEF Below
    <3> QED
      BY <2>1
  <2>3. Below(N + 1) = D
    OBVIOUS
  <2> QED
    BY <2>2, <2>3
<1>2. PICK m \in Bad : \A n \in Bad : m <= n
    BY <1>1, LeastNumber
<1>3. m # 0
  <2> SUFFICES ASSUME m = 0 PROVE FALSE
    OBVIOUS
  <2>1. Below(0) = {}
    OBVIOUS
  <2>2. [x \in {} |-> 0] = [x \in {} |-> Step(c, d, [y \in {} |-> 0], x)]
    OBVIOUS
  <2>3. Solves(c, d, Below(0), [x \in {} |-> 0])
    BY <2>1, <2>2, Zenon DEF Solves
  <2> QED
    BY <2>3
<1>4. m - 1 \in Nat /\ m - 1 \notin Bad /\ m <= N + 1
  <2> HIDE DEF Below
  <2> QED
    BY <1>2, <1>3
<1>5. PICK f : Solves(c, d, Below(m - 1), f)
    BY <1>4
<1> DEFINE g == [x \in Below(m) |-> Step(c, d, f, x)]
<1>6. \A x \in Below(m - 1) : g[x] = f[x]
  <2> SUFFICES ASSUME NEW x \in Below(m - 1) PROVE g[x] = f[x]
    OBVIOUS
  <2>1. f[x] = Step(c, d, f, x)
    <3> HIDE DEF Below
    <3> QED
      BY <1>5, SolvesAt
  <2>2. x \in Below(m)
    BY <1>4
  <2> QED
    BY <2>1, <2>2
<1>7. ASSUME NEW x \in Below(m) PROVE Step(c, d, f, x) = Step(c, d, g, x)
  <2> HIDE DEF g
  <2>1. \A y \in D : rank[y] < rank[x] => f[y] = g[y]
    BY <1>4, <1>6
  <2> QED
    BY <2>1 DEF Backward
<1>8. g = [x \in Below(m) |-> Step(c, d, g, x)]
  <2> DEFINE h == [x \in Below(m) |-> Step(c, d, g, x)]
  <2>1. g = h
    <3> HIDE DEF Below
    <3> QED
      BY <1>7
  <2> QED
    BY <2>1, Zenon
<1>9. Solves(c, d, Below(m), g)
    BY <1>8, Zenon DEF Solves
<1> QED
    BY <1>2, <1>9

\* So does one over the positions of a list, each of which reads earlier ones.
THEOREM SolutionByPosition ==
    ASSUME NEW c, NEW d, NEW N \in Nat,
           \A i \in 1..N : \A g, h :
               (\A j \in 1..(i - 1) : g[j] = h[j]) => Step(c, d, g, i) = Step(c, d, h, i)
    PROVE  \E f : Solves(c, d, 1..N, f)
<1> DEFINE D == 1..N
           rank == [i \in D |-> i]
<1>1. rank \in [D -> 0..N]
    OBVIOUS
<1>2. Backward(c, d, D, rank)
  <2> SUFFICES ASSUME NEW i \in D, NEW g, NEW h, \A k \in D : rank[k] < rank[i] => g[k] = h[k]
               PROVE  Step(c, d, g, i) = Step(c, d, h, i)
    BY DEF Backward
  <2>1. \A j \in 1..(i - 1) : g[j] = h[j]
    OBVIOUS
  <2> HIDE DEF rank
  <2> QED
    BY <2>1
<1>3. \E f : Solves(c, d, D, f)
  <2> HIDE DEF D, rank
  <2> QED
    BY <1>1, <1>2, SolutionExists
<1> QED
    BY <1>3

-----------------------------------------------------------------------------
(* Folds over a list.                                                      *)

\* The fold of a list from the left, as SequencesExt defines FoldLeft.
Fold(c, d, base, s) ==
    MapThenFoldSet(LAMBDA y, x : Step(c, d, x, y), base, LAMBDA k : s[k],
                   LAMBDA S : Max(S), DOMAIN s)

\* The largest number of a set of positions.
LEMMA MaxOfTop ==
    ASSUME NEW n \in Nat, NEW T \in SUBSET (1..n), n \in T
    PROVE  Max(T) = n
<1>1. n \in T /\ \A y \in T : n >= y
    OBVIOUS
<1>2. \A x \in T : (\A y \in T : x >= y) => x = n
    OBVIOUS
<1> QED
    BY <1>1, <1>2 DEF Max

\* What FoldLeft's definition calls iter: the fold of every set of positions.
FoldsTo(c, d, base, s, n, it) ==
    it = [T \in SUBSET (1..n) |->
            IF T = {} THEN base ELSE Step(c, d, it[T \ {Max(T)}], s[Max(T)])]

LEMMA FoldsToExists ==
    ASSUME NEW c, NEW d, NEW base, NEW s, NEW N \in Nat
    PROVE  \E it : FoldsTo(c, d, base, s, N, it)
<1> DEFINE Bad == {n \in Nat : ~\E it : FoldsTo(c, d, base, s, n, it)}
<1> SUFFICES ASSUME Bad # {} PROVE FALSE
    OBVIOUS
<1>1. PICK n \in Bad : \A k \in Bad : n <= k
    BY LeastNumber
<1>2. n # 0
  <2> DEFINE it == [T \in SUBSET (1..0) |-> base]
  <2>1. it = [T \in SUBSET (1..0) |->
                IF T = {} THEN base ELSE Step(c, d, it[T \ {Max(T)}], s[Max(T)])]
    OBVIOUS
  <2>2. FoldsTo(c, d, base, s, 0, it)
    BY <2>1, Zenon DEF FoldsTo
  <2> QED
    BY <1>1, <2>2
<1>3. n - 1 \in Nat /\ n - 1 \notin Bad
    BY <1>1, <1>2
<1>4. PICK it : FoldsTo(c, d, base, s, n - 1, it)
    BY <1>3
<1> DEFINE F(T) == IF T = {} THEN base ELSE Step(c, d, it[T \ {Max(T)}], s[Max(T)])
           ot == [T \in SUBSET (1..n) |-> F(T)]
<1>5. \A T \in SUBSET (1..(n - 1)) : it[T] = F(T)
  <2> DEFINE h == [T \in SUBSET (1..(n - 1)) |-> F(T)]
  <2>1. it = h
    BY <1>4, Zenon DEF FoldsTo
  <2> SUFFICES ASSUME NEW T \in SUBSET (1..(n - 1)) PROVE it[T] = F(T)
    OBVIOUS
  <2>2. h[T] = F(T)
    OBVIOUS
  <2> QED
    BY <2>1, <2>2, Zenon
<1>6. ASSUME NEW T \in SUBSET (1..n), T # {}
      PROVE  T \ {Max(T)} \in SUBSET (1..(n - 1))
  <2>1. n \in T => Max(T) = n
    BY MaxOfTop
  <2>2. ASSUME NEW x \in T, x # Max(T)
        PROVE  x \in 1..(n - 1)
    <3>1. x \in 1..n /\ x # n
      BY <2>1, <2>2
    <3> QED
      BY <3>1
  <2> QED
    BY <2>2
<1>7. ASSUME NEW T \in SUBSET (1..n)
      PROVE  F(T) = IF T = {} THEN base ELSE Step(c, d, ot[T \ {Max(T)}], s[Max(T)])
  <2>1. CASE T = {}
    BY <2>1
  <2>2. CASE T # {}
    <3> DEFINE U == T \ {Max(T)}
    <3>1. U \in SUBSET (1..(n - 1)) /\ U \in SUBSET (1..n)
      BY <1>6, <2>2
    <3>2. ot[U] = F(U) /\ it[U] = F(U)
      <4> HIDE DEF U, F
      <4> QED
        BY <3>1, <1>5
    <3> HIDE DEF ot
    <3> QED
      BY <2>2, <3>2
  <2> QED
    BY <2>1, <2>2
<1>8. ot = [T \in SUBSET (1..n) |->
              IF T = {} THEN base ELSE Step(c, d, ot[T \ {Max(T)}], s[Max(T)])]
  <2> DEFINE G(T) == IF T = {} THEN base ELSE Step(c, d, ot[T \ {Max(T)}], s[Max(T)])
             h == [T \in SUBSET (1..n) |-> G(T)]
  <2>1. ot = h
    <3>1. \A T \in SUBSET (1..n) : F(T) = G(T)
      BY <1>7
    <3> HIDE DEF F, G
    <3> QED
      BY <3>1
  <2> QED
    BY <2>1, Zenon
<1>9. FoldsTo(c, d, base, s, n, ot)
    BY <1>8, Zenon DEF FoldsTo
<1> QED
    BY <1>1, <1>9

\* A fold goes through the list one element at a time: there is the result after
\* none, after one, and so on, and the last is the fold.
THEOREM FoldSteps ==
    ASSUME NEW c, NEW d, NEW base, NEW S, NEW s \in Seq(S)
    PROVE  \E f : /\ DOMAIN f = 0..Len(s)
                  /\ f[0] = base
                  /\ \A n \in 1..Len(s) : f[n] = Step(c, d, f[n - 1], s[n])
                  /\ f[Len(s)] = Fold(c, d, base, s)
<1> DEFINE N == Len(s)
           it == CHOOSE i : FoldsTo(c, d, base, s, N, i)
           F(T) == IF T = {} THEN base ELSE Step(c, d, it[T \ {Max(T)}], s[Max(T)])
           f == [n \in 0..N |-> it[1..n]]
<1>1. N \in Nat /\ DOMAIN s = 1..N
    OBVIOUS
<1>2. FoldsTo(c, d, base, s, N, it)
  <2> HIDE DEF N
  <2> QED
    BY <1>1, FoldsToExists
<1>3. it[DOMAIN s] = Fold(c, d, base, s)
  <2> HIDE DEF N
  <2>1. it[DOMAIN s] = (CHOOSE i : FoldsTo(c, d, base, s, N, i))[DOMAIN s]
    OBVIOUS
  <2>2. 1..N = DOMAIN s
    BY <1>1
  <2> QED
    BY <2>1, <2>2, Zenon DEF Fold, MapThenFoldSet, FoldsTo
<1>4. ASSUME NEW T \in SUBSET (1..N)
      PROVE  it[T] = F(T)
  <2> DEFINE h == [U \in SUBSET (1..N) |-> F(U)]
  <2> HIDE DEF N
  <2>1. it = h
    <3> HIDE DEF it
    <3> QED
      BY <1>2, Zenon DEF FoldsTo
  <2>2. h[T] = F(T)
    <3> HIDE DEF F
    <3> QED
      OBVIOUS
  <2> QED
    BY <2>1, <2>2, Zenon
<1>5. f[0] = base
  <2> HIDE DEF N, it
  <2>1. 1..0 = {} /\ 1..0 \in SUBSET (1..N) /\ 0 \in 0..N
    BY <1>1
  <2>2. it[{}] = F({})
    BY <2>1, <1>4
  <2>3. F({}) = base
    OBVIOUS
  <2> QED
    BY <2>1, <2>2, <2>3
<1>6. ASSUME NEW n \in 1..N
      PROVE  f[n] = Step(c, d, f[n - 1], s[n])
  <2> HIDE DEF N, it
  <2>1. 1..n \in SUBSET (1..N) /\ n \in 1..n /\ n \in Nat /\ n \in 0..N /\ n - 1 \in 0..N
    BY <1>1
  <2>2. Max(1..n) = n
    BY <2>1, MaxOfTop
  <2>3. (1..n) \ {n} = 1..(n - 1) /\ 1..n # {}
    <3>1. \A k \in Nat : k \in 1..n /\ k # n <=> k \in 1..(n - 1)
      BY <2>1
    <3>2. \A k \in 1..n : k \in Nat
      BY <2>1
    <3>3. \A k \in 1..(n - 1) : k \in Nat
      BY <2>1
    <3> QED
      BY <3>1, <3>2, <3>3, <2>1
  <2>4. it[1..n] = Step(c, d, it[1..(n - 1)], s[n])
    BY <2>1, <2>2, <2>3, <1>4
  <2> QED
    BY <2>1, <2>4
<1>7. f[N] = Fold(c, d, base, s)
  <2> HIDE DEF it
  <2> QED
    BY <1>1, <1>3
<1> QED
  <2> HIDE DEF it
  <2>1. DOMAIN f = 0..N
    OBVIOUS
  <2> HIDE DEF f
  <2> QED
    BY <2>1, <1>5, <1>6, <1>7

\* f goes through the first N elements of s from where it starts.
StepsThrough(c, d, s, N, f) == \A n \in 1..N : f[n] = Step(c, d, f[n - 1], s[n])

\* There is one way to go through a list.
LEMMA StepsAgree ==
    ASSUME NEW c, NEW d, NEW s, NEW t, NEW N \in Nat, NEW f, NEW g,
           StepsThrough(c, d, s, N, f), StepsThrough(c, d, t, N, g),
           f[0] = g[0], \A n \in 1..N : s[n] = t[n]
    PROVE  f[N] = g[N]
<1> DEFINE G == {n \in 0..N : f[n] = g[n]}
<1>1. 0 \in G
    OBVIOUS
<1>2. ASSUME NEW n \in 1..N, n - 1 \in G
      PROVE  n \in G
  <2>1. f[n - 1] = g[n - 1] /\ n \in 0..N
    BY <1>2
  <2>2. f[n] = Step(c, d, f[n - 1], s[n]) /\ g[n] = Step(c, d, g[n - 1], t[n])
    BY DEF StepsThrough
  <2> QED
    BY <2>1, <2>2
<1> HIDE DEF G
<1>3. N \in G
    BY <1>1, <1>2, CountingUp
<1> QED
    BY <1>3 DEF G

FoldsAlong(c, d, base, s, f) ==
    /\ DOMAIN f = 0..Len(s)
    /\ f[0] = base
    /\ \A n \in 1..Len(s) : f[n] = Step(c, d, f[n - 1], s[n])
    /\ f[Len(s)] = Fold(c, d, base, s)

LEMMA FoldGoesAlong ==
    ASSUME NEW c, NEW d, NEW base, NEW S, NEW s, s \in Seq(S)
    PROVE  \E f : FoldsAlong(c, d, base, s, f)
BY FoldSteps DEF FoldsAlong

\* What a fold gives for longer and longer beginnings of a list.
FoldsPrefixes(c, d, base, s) ==
    /\ Fold(c, d, base, <<>>) = base
    /\ \A n \in 1..Len(s) :
          Fold(c, d, base, SubSeq(s, 1, n))
              = Step(c, d, Fold(c, d, base, SubSeq(s, 1, n - 1)), s[n])
    /\ SubSeq(s, 1, 0) = <<>> /\ SubSeq(s, 1, Len(s)) = s

\* The fold of a longer and longer beginning of a list.
THEOREM FoldPrefixes ==
    ASSUME NEW c, NEW d, NEW base, NEW S, NEW s \in Seq(S)
    PROVE  FoldsPrefixes(c, d, base, s)
<1>1. s \in Seq(S)
    OBVIOUS
<1>2. PICK f : FoldsAlong(c, d, base, s, f)
    BY <1>1, FoldGoesAlong, Zenon
<1>3. ASSUME NEW n \in 0..Len(s)
      PROVE  Fold(c, d, base, SubSeq(s, 1, n)) = f[n]
  <2> DEFINE t == SubSeq(s, 1, n)
  <2>1. t \in Seq(S)
    OBVIOUS
  <2>2. n \in Nat /\ Len(t) = n /\ \A k \in 1..n : s[k] = t[k]
    OBVIOUS
  <2>3. StepsThrough(c, d, s, n, f)
    BY <1>2 DEF StepsThrough, FoldsAlong
  <2> HIDE DEF t
  <2>4. PICK g : FoldsAlong(c, d, base, t, g)
    BY <2>1, FoldGoesAlong, Zenon
  <2>5. StepsThrough(c, d, t, n, g)
    BY <2>2, <2>4 DEF StepsThrough, FoldsAlong
  <2>6. f[0] = g[0]
    BY <1>2, <2>4 DEF FoldsAlong
  <2>7. f[n] = g[n]
    BY ONLY <2>2, <2>3, <2>5, <2>6, StepsAgree
  <2> QED
    BY <2>2, <2>4, <2>7 DEF FoldsAlong, t
<1>6. SubSeq(s, 1, 0) = <<>> /\ SubSeq(s, 1, Len(s)) = s
    OBVIOUS
<1>4. Fold(c, d, base, <<>>) = base
  <2>1. 0 \in 0..Len(s)
    OBVIOUS
  <2> QED
    BY <1>2, <1>3, <1>6, <2>1 DEF FoldsAlong
<1>5. ASSUME NEW n \in 1..Len(s)
      PROVE  Fold(c, d, base, SubSeq(s, 1, n))
                 = Step(c, d, Fold(c, d, base, SubSeq(s, 1, n - 1)), s[n])
  <2>1. n \in 0..Len(s) /\ n - 1 \in 0..Len(s)
    OBVIOUS
  <2>2. f[n] = Step(c, d, f[n - 1], s[n])
    BY <1>2 DEF FoldsAlong
  <2>3. Fold(c, d, base, SubSeq(s, 1, n)) = f[n]
    BY <1>3, <2>1
  <2>4. Fold(c, d, base, SubSeq(s, 1, n - 1)) = f[n - 1]
    BY <1>3, <2>1
  <2> QED
    BY <2>2, <2>3, <2>4
<1> QED
    BY <1>4, <1>5, <1>6 DEF FoldsPrefixes

\* Folding two lists one after the other is folding them joined.
THEOREM FoldTwice ==
    ASSUME NEW c, NEW d, NEW base, NEW S, NEW a \in Seq(S), NEW b \in Seq(S)
    PROVE  Fold(c, d, Fold(c, d, base, a), b) = Fold(c, d, base, a \o b)
<1> DEFINE ab == a \o b
           N == Len(a)
           M == Len(b)
<1>1. /\ N \in Nat /\ M \in Nat /\ Len(ab) = N + M
      /\ \A k \in 1..N : ab[k] = a[k]
      /\ \A k \in 1..M : ab[N + k] = b[k]
    OBVIOUS
<1>2. a \in Seq(S) /\ b \in Seq(S) /\ ab \in Seq(S)
    OBVIOUS
<1> HIDE DEF ab, N, M
<1>3. PICK f : FoldsAlong(c, d, base, ab, f)
    BY <1>2, FoldGoesAlong, Zenon
<1>4. PICK g : FoldsAlong(c, d, base, a, g)
    BY <1>2, FoldGoesAlong, Zenon
<1>5. PICK h : FoldsAlong(c, d, Fold(c, d, base, a), b, h)
    BY <1>2, FoldGoesAlong, Zenon
<1>6. f[N] = h[0]
  <2>1. StepsThrough(c, d, ab, N, f) /\ StepsThrough(c, d, a, N, g) /\ f[0] = g[0]
    BY <1>1, <1>3, <1>4 DEF StepsThrough, FoldsAlong, N
  <2>2. f[N] = g[N]
    BY <1>1, <2>1, StepsAgree
  <2> QED
    BY <2>2, <1>4, <1>5 DEF FoldsAlong, N
<1> DEFINE e == [n \in 0..M |-> f[N + n]]
<1>7. StepsThrough(c, d, b, M, e)
  <2> SUFFICES ASSUME NEW n \in 1..M
               PROVE  e[n] = Step(c, d, e[n - 1], b[n])
    BY DEF StepsThrough
  <2>1. /\ N + n \in 1..Len(ab) /\ (N + n) - 1 = N + (n - 1)
        /\ n \in 0..M /\ n - 1 \in 0..M
    <3>1. N \in Nat /\ M \in Nat /\ Len(ab) = N + M /\ n \in 1..M
      BY <1>1
    <3> QED
      BY ONLY <3>1
  <2>2. f[N + n] = Step(c, d, f[(N + n) - 1], ab[N + n])
    BY <1>3, <2>1 DEF FoldsAlong
  <2>3. e[n] = f[N + n] /\ e[n - 1] = f[N + (n - 1)]
    BY <2>1
  <2> HIDE DEF e
  <2> QED
    BY <1>1, <2>1, <2>2, <2>3
<1>8. e[0] = f[N] /\ e[M] = f[N + M]
    BY <1>1
<1> HIDE DEF e
<1>9. StepsThrough(c, d, b, M, h)
    BY <1>5 DEF StepsThrough, FoldsAlong, M
<1>10. e[M] = h[M]
  <2>1. e[0] = h[0] /\ \A n \in 1..M : b[n] = b[n]
    BY <1>6, <1>8
  <2> QED
    BY <1>1, <1>7, <1>9, <2>1, StepsAgree
<1> QED
    BY <1>1, <1>3, <1>5, <1>8, <1>10 DEF FoldsAlong, ab, M

-----------------------------------------------------------------------------
(* Folds over a finite set, in whatever order.                             *)

SetFold(c, d, base, S) == FoldSet(LAMBDA y, x : Step(c, d, x, y), base, S)

\* The element FoldSet takes from a set.
Taken(T) == CHOOSE x \in T : TRUE

SmallSubsets(S, n) == {T \in SUBSET S : Cardinality(T) <= n}

SetFoldsTo(c, d, base, D, it) ==
    it = [T \in D |->
            IF T = {} THEN base ELSE Step(c, d, it[T \ {Taken(T)}], Taken(T))]

LEMMA SetFoldsToAt ==
    ASSUME NEW c, NEW d, NEW base, NEW D, NEW it, SetFoldsTo(c, d, base, D, it),
           NEW T \in D
    PROVE  it[T] = IF T = {} THEN base ELSE Step(c, d, it[T \ {Taken(T)}], Taken(T))
<1> DEFINE F(U) == IF U = {} THEN base ELSE Step(c, d, it[U \ {Taken(U)}], Taken(U))
           h == [U \in D |-> F(U)]
<1>1. it = h
    BY Zenon DEF SetFoldsTo
<1>2. h[T] = F(T)
  <2> HIDE DEF F
  <2> QED
    OBVIOUS
<1> QED
    BY <1>1, <1>2, Zenon

\* Taking an element makes a finite set smaller.
LEMMA TakingShrinks ==
    ASSUME NEW S, IsFiniteSet(S), NEW x \in S
    PROVE  /\ IsFiniteSet(S \ {x})
           /\ Cardinality(S) \in Nat /\ Cardinality(S \ {x}) \in Nat
           /\ Cardinality(S \ {x}) = Cardinality(S) - 1
    BY FS_RemoveElement, FS_CardinalityType

LEMMA SetFoldsToExists ==
    ASSUME NEW c, NEW d, NEW base, NEW S, IsFiniteSet(S), NEW N \in Nat
    PROVE  \E it : SetFoldsTo(c, d, base, SmallSubsets(S, N), it)
<1> DEFINE Bad == {n \in Nat : ~\E it : SetFoldsTo(c, d, base, SmallSubsets(S, n), it)}
<1> SUFFICES ASSUME Bad # {} PROVE FALSE
    OBVIOUS
<1>1. PICK n \in Bad : \A k \in Bad : n <= k
    BY LeastNumber
<1>2. \A T \in SUBSET S : IsFiniteSet(T) /\ Cardinality(T) \in Nat
    BY FS_Subset, FS_CardinalityType
<1>3. n # 0
  <2> SUFFICES ASSUME n = 0 PROVE FALSE
    OBVIOUS
  <2> DEFINE it == [T \in SmallSubsets(S, 0) |-> base]
             h == [T \in SmallSubsets(S, 0) |->
                      IF T = {} THEN base ELSE Step(c, d, it[T \ {Taken(T)}], Taken(T))]
  <2>1. \A T \in SmallSubsets(S, 0) : T = {}
    <3> SUFFICES ASSUME NEW T \in SmallSubsets(S, 0) PROVE T = {}
      OBVIOUS
    <3>1. IsFiniteSet(T) /\ Cardinality(T) = 0
      BY <1>2 DEF SmallSubsets
    <3> QED
      BY <3>1, FS_EmptySet
  <2>2. it = h
    BY <2>1
  <2>3. SetFoldsTo(c, d, base, SmallSubsets(S, 0), it)
    BY <2>2, Zenon DEF SetFoldsTo
  <2> QED
    BY <2>3
<1>4. n - 1 \in Nat /\ n - 1 \notin Bad
    BY <1>1, <1>3
<1>5. PICK it : SetFoldsTo(c, d, base, SmallSubsets(S, n - 1), it)
    BY <1>4
<1> DEFINE F(T) == IF T = {} THEN base ELSE Step(c, d, it[T \ {Taken(T)}], Taken(T))
           ot == [T \in SmallSubsets(S, n) |-> F(T)]
           G(T) == IF T = {} THEN base ELSE Step(c, d, ot[T \ {Taken(T)}], Taken(T))
           h == [T \in SmallSubsets(S, n) |-> G(T)]
<1>6. ASSUME NEW T \in SmallSubsets(S, n)
      PROVE  F(T) = G(T)
  <2> SUFFICES ASSUME T # {} PROVE F(T) = G(T)
    OBVIOUS
  <2> DEFINE U == T \ {Taken(T)}
  <2>1. Taken(T) \in T
    BY DEF Taken
  <2>2. U \in SUBSET S /\ Cardinality(U) = Cardinality(T) - 1 /\ Cardinality(T) <= n
    BY <2>1, <1>2, TakingShrinks DEF SmallSubsets
  <2>3. U \in SmallSubsets(S, n - 1) /\ U \in SmallSubsets(S, n)
    BY <2>2, <1>2 DEF SmallSubsets
  <2>4. it[U] = F(U)
    <3> HIDE DEF U
    <3> QED
      BY <2>3, <1>5, SetFoldsToAt
  <2>5. ot[U] = F(U)
    <3> HIDE DEF U, F
    <3> QED
      BY <2>3
  <2> HIDE DEF ot
  <2> QED
    BY <2>4, <2>5
<1>7. ot = h
  <2> HIDE DEF F, G
  <2> QED
    BY <1>6
<1>8. SetFoldsTo(c, d, base, SmallSubsets(S, n), ot)
    BY <1>7, Zenon DEF SetFoldsTo
<1> QED
    BY <1>1, <1>8

\* The order of two elements does not matter.
Commutes(c, d, V, S) ==
    /\ \A v \in V, x \in S : Step(c, d, v, x) \in V
    /\ \A v \in V, x, y \in S :
          Step(c, d, Step(c, d, v, x), y) = Step(c, d, Step(c, d, v, y), x)

\* it gives a set what it gives the set without any one of its elements, and then
\* that element.
TakesAny(c, d, base, S, it) ==
    /\ it[{}] = base
    /\ \A T \in SUBSET S : \A x \in T : it[T] = Step(c, d, it[T \ {x}], x)

\* When the order does not matter, the fold of a set may take any element last.
THEOREM SetFoldSteps ==
    ASSUME NEW c, NEW d, NEW V, NEW base \in V, NEW S, IsFiniteSet(S),
           Commutes(c, d, V, S)
    PROVE  /\ \E it : TakesAny(c, d, base, S, it) /\ it[S] = SetFold(c, d, base, S)
           /\ SetFold(c, d, base, S) \in V
<1> DEFINE it == CHOOSE i : SetFoldsTo(c, d, base, SUBSET S, i)
           size == [T \in SUBSET S |-> Cardinality(T)]
<1>1. \A T \in SUBSET S : IsFiniteSet(T) /\ Cardinality(T) \in Nat
    BY FS_Subset, FS_CardinalityType
<1>2. /\ \A v \in V, x \in S : Step(c, d, v, x) \in V
      /\ \A v \in V, x, y \in S :
            Step(c, d, Step(c, d, v, x), y) = Step(c, d, Step(c, d, v, y), x)
    BY DEF Commutes
<1>3. \E i : SetFoldsTo(c, d, base, SUBSET S, i)
  <2>1. SmallSubsets(S, Cardinality(S)) = SUBSET S
    <3>1. \A T \in SUBSET S : Cardinality(T) <= Cardinality(S)
      BY FS_Subset
    <3> QED
      BY <3>1 DEF SmallSubsets
  <2>2. Cardinality(S) \in Nat
    BY <1>1
  <2>3. \E i : SetFoldsTo(c, d, base, SmallSubsets(S, Cardinality(S)), i)
    BY <2>2, SetFoldsToExists
  <2> QED
    BY <2>1, <2>3, Zenon
<1>4. SetFoldsTo(c, d, base, SUBSET S, it)
    BY <1>3, Zenon
<1>5. it[S] = SetFold(c, d, base, S)
    BY Zenon DEF SetFold, FoldSet, MapThenFoldSet, SetFoldsTo, Taken
<1> HIDE DEF it
<1>6. \A T \in SUBSET S :
          it[T] = IF T = {} THEN base ELSE Step(c, d, it[T \ {Taken(T)}], Taken(T))
  <2> DEFINE D == SUBSET S
  <2>1. SetFoldsTo(c, d, base, D, it)
    BY <1>4
  <2> HIDE DEF D
  <2>2. ASSUME NEW T \in D
        PROVE  it[T] = IF T = {} THEN base ELSE Step(c, d, it[T \ {Taken(T)}], Taken(T))
    BY ONLY T \in D, <2>1, SetFoldsToAt
  <2> QED
    BY <2>2 DEF D
<1>7. it[{}] = base
  <2> {} \in SUBSET S
    OBVIOUS
  <2> QED
    BY <1>6
<1>8. ASSUME NEW T \in SUBSET S, T # {}
      PROVE  /\ Taken(T) \in T
             /\ it[T] = Step(c, d, it[T \ {Taken(T)}], Taken(T))
  <2>1. it[T] = IF T = {} THEN base ELSE Step(c, d, it[T \ {Taken(T)}], Taken(T))
    BY <1>6
  <2>2. Taken(T) \in T
    BY <1>8 DEF Taken
  <2> QED
    BY <1>8, <2>1, <2>2
<1>9. size \in [SUBSET S -> Nat]
    BY <1>1
<1>10. \A T \in SUBSET S : \A x \in T : size[T \ {x}] < size[T]
  <2> SUFFICES ASSUME NEW T \in SUBSET S, NEW x \in T PROVE size[T \ {x}] < size[T]
    OBVIOUS
  <2>1. Cardinality(T \ {x}) = Cardinality(T) - 1 /\ Cardinality(T) \in Nat
    BY <1>1, TakingShrinks
  <2> QED
    BY <2>1
<1> HIDE DEF size
<1>11. \A T \in SUBSET S : it[T] \in V
  <2> DEFINE Bad == {T \in SUBSET S : it[T] \notin V}
  <2> SUFFICES ASSUME Bad # {} PROVE FALSE
    OBVIOUS
  <2>1. PICK T \in Bad : \A U \in Bad : size[T] <= size[U]
    BY ONLY <1>9, LeastRanked, Bad # {}, Bad \in SUBSET (SUBSET S)
  <2>2. T # {}
    BY <1>7, <2>1
  <2>3. /\ Taken(T) \in T /\ T \ {Taken(T)} \in SUBSET S
        /\ it[T] = Step(c, d, it[T \ {Taken(T)}], Taken(T))
    BY <2>1, <2>2, <1>8
  <2>4. size[T \ {Taken(T)}] < size[T] /\ size[T] \in Nat /\ size[T \ {Taken(T)}] \in Nat
    BY <2>1, <2>3, <1>10, <1>9
  <2>5. T \ {Taken(T)} \notin Bad
    BY <2>1, <2>4
  <2>6. it[T \ {Taken(T)}] \in V
    BY <2>3, <2>5
  <2>7. it[T] \in V
    BY <1>2, <2>3, <2>6
  <2> QED
    BY <2>7, <2>1
<1>12. \A T \in SUBSET S : \A x \in T : it[T] = Step(c, d, it[T \ {x}], x)
  <2> DEFINE Bad == {T \in SUBSET S : \E x \in T : it[T] # Step(c, d, it[T \ {x}], x)}
  <2> SUFFICES ASSUME Bad # {} PROVE FALSE
    OBVIOUS
  <2>1. PICK T \in Bad : \A U \in Bad : size[T] <= size[U]
    BY ONLY <1>9, LeastRanked, Bad # {}, Bad \in SUBSET (SUBSET S)
  <2>2. PICK x \in T : it[T] # Step(c, d, it[T \ {x}], x)
    BY <2>1
  <2> DEFINE z == Taken(T)
             A == it[(T \ {x}) \ {z}]
  <2>3. z \in T /\ it[T] = Step(c, d, it[T \ {z}], z) /\ z # x /\ x \in S /\ z \in S
    BY <2>1, <2>2, <1>8
  <2> HIDE DEF z
  <2>4. T \ {x} \in SUBSET S /\ T \ {z} \in SUBSET S /\ (T \ {x}) \ {z} \in SUBSET S
    OBVIOUS
  <2>5. T \ {x} \notin Bad /\ T \ {z} \notin Bad
    <3>1. size[T \ {x}] < size[T] /\ size[T \ {z}] < size[T]
      BY <2>1, <2>2, <2>3, <1>10
    <3>2. size[T] \in Nat /\ size[T \ {x}] \in Nat /\ size[T \ {z}] \in Nat
      BY <2>1, <2>4, <1>9
    <3>3. ASSUME NEW U \in Bad, size[U] < size[T], size[U] \in Nat
          PROVE  FALSE
      BY <2>1, <3>2, <3>3
    <3> HIDE DEF Bad
    <3> QED
      BY <3>1, <3>2, <3>3
  <2>6. (T \ {z}) \ {x} = (T \ {x}) \ {z}
    OBVIOUS
  <2>7. it[T \ {z}] = Step(c, d, A, x) /\ it[T \ {x}] = Step(c, d, A, z)
    BY <2>2, <2>3, <2>4, <2>5, <2>6
  <2>8. A \in V
    BY <1>11, <2>4
  <2>9. Step(c, d, Step(c, d, A, x), z) = Step(c, d, Step(c, d, A, z), x)
    <3> HIDE DEF A
    <3> QED
      BY <1>2, <2>3, <2>8
  <2> QED
    BY <2>2, <2>3, <2>7, <2>9
<1>13. TakesAny(c, d, base, S, it)
    BY <1>7, <1>12 DEF TakesAny
<1> QED
    BY <1>5, <1>11, <1>13
=============================================================================
