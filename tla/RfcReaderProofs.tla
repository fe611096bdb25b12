--------------------------- MODULE RfcReaderProofs ---------------------------
(***************************************************************************)
(* Proofs about the RFC reader, for every catalogue, every set of queries  *)
(* and links and every length of history.  The heart of it is that reading *)
(* back what writeParams wrote gives the state again, and that applying    *)
(* the filters settles the selection; every handler ends in one or both.   *)
(***************************************************************************)
EXTENDS RfcReader, SequenceTheorems, WellFoundedInduction, TLAPS

\* What applyFilters leaves behind.
Settled(s) ==
    /\ s \in State
    /\ s.status # "" => s.scope = "all"
    /\ IF Visible(s) = {} THEN s.selected = 0 ELSE s.selected \in Visible(s)
    /\ s.explicit => s.selected \in Visible(s)

ReaderInv ==
    /\ TypeOK
    /\ Settled(state)
    /\ PaneMatchesSelection
    /\ UrlRestores
    /\ MarkedEntriesArePushed

-----------------------------------------------------------------------------
(* A non-empty list has a first record, in each of the three orders.       *)

LEMMA LeastNat ==
    ASSUME NEW S \in SUBSET Nat, S # {}
    PROVE  \E m \in S : \A x \in S : m <= x
<1>1. PICK m \in S : \A x \in S : ~(<<x, m>> \in OpToRel(<, Nat))
    BY NatLessThanWellFounded, WFMin
<1>2. \A x \in S : ~(x < m)
    BY <1>1 DEF OpToRel
<1> QED
    BY <1>2

LEMMA GreatestNat ==
    ASSUME NEW n \in Nat, NEW S \in SUBSET (0..n), S # {}
    PROVE  \E m \in S : \A x \in S : x <= m
<1> DEFINE T == {n - x : x \in S}
<1>1. T \in SUBSET Nat /\ T # {}
    <2>1. \A x \in S : x \in 0..n /\ n - x \in Nat
        OBVIOUS
    <2> QED
        BY <2>1
<1> HIDE DEF T
<1>2. PICK t \in T : \A y \in T : t <= y
    BY <1>1, LeastNat
<1>3. PICK m \in S : t = n - m
    BY <1>2 DEF T
<1>4. \A x \in S : n - m <= n - x
    BY <1>2, <1>3 DEF T
<1>5. \A x \in S : x \in Nat /\ m \in Nat
    OBVIOUS
<1> QED
    BY <1>4, <1>5

LEMMA RankType ==
    ASSUME NEW r \in Records
    PROVE  /\ r \in Nat
           /\ StatusRank[Catalog[r].status] \in Nat
           /\ StatusRank[Catalog[r].status] <= Len(Catalog)
<1>1. Catalog[r].status \in Statuses
    BY DEF Statuses
<1>2. StatusRank[Catalog[r].status] \in 1..Len(Catalog) /\ Len(Catalog) \in Nat
    BY <1>1, CatalogAssumption
<1> QED
    BY <1>2 DEF Records

\* Among the records of one rank, the first is the one with the least id.
LEMMA LeastOfRank ==
    ASSUME NEW V \in SUBSET Records, NEW k, NEW v \in V,
           StatusRank[Catalog[v].status] = k
    PROVE  \E r \in V : /\ StatusRank[Catalog[r].status] = k
                        /\ \A x \in V : StatusRank[Catalog[x].status] = k => r <= x
<1> DEFINE S == {x \in V : StatusRank[Catalog[x].status] = k}
<1>1. S \in SUBSET Nat /\ S # {}
    <2>1. \A x \in V : x \in Nat
        BY RankType
    <2> QED
        BY <2>1
<1> HIDE DEF S
<1>2. PICK r \in S : \A x \in S : r <= x
    BY <1>1, LeastNat
<1> QED
    BY <1>2 DEF S

LEMMA FirstExists ==
    ASSUME NEW V \in SUBSET Records, V # {}, NEW sort \in Sorts
    PROVE  FirstOf(V, sort) \in V
<1> DEFINE rank(r) == StatusRank[Catalog[r].status]
<1>0. \A r \in V : r \in Nat /\ rank(r) \in Nat /\ rank(r) <= Len(Catalog)
    BY RankType
<1>1. CASE sort = ""
    <2>1. V \in SUBSET Nat
        BY <1>0
    <2>2. PICK r \in V : \A x \in V : r <= x
        BY <2>1, LeastNat
    <2>3. \A x \in V \ {r} : r < x
        BY <1>0, <2>2
    <2>4. \A x \in V \ {r} : Precedes(r, x, sort)
        BY <1>1, <2>3 DEF Precedes
    <2> QED
        BY <2>4 DEF FirstOf
<1> DEFINE R == {rank(r) : r \in V}
<1>5. \A r \in V : rank(r) \in R
    OBVIOUS
<1>2. R \in SUBSET Nat /\ R # {}
    BY <1>0
<1>3. CASE sort = "status-asc"
    <2>1. PICK k \in R : \A y \in R : k <= y
        BY <1>2, LeastNat
    <2>2. PICK v \in V : rank(v) = k
        BY <2>1
    <2>3. PICK r \in V : rank(r) = k /\ (\A x \in V : rank(x) = k => r <= x)
        <3>1. StatusRank[Catalog[v].status] = k
            BY <2>2
        <3> HIDE DEF R
        <3> QED
            BY ONLY <3>1, LeastOfRank, V \in SUBSET Records, v \in V
    <2>4. \A x \in V : k <= rank(x)
        BY <2>1
    <2>5. \A x \in V \ {r} : rank(r) < rank(x) \/ (rank(r) = rank(x) /\ r < x)
        BY <1>0, <2>3, <2>4
    <2>6. \A x \in V \ {r} : Precedes(r, x, sort)
        BY <1>3, <2>5 DEF Precedes
    <2> QED
        BY <2>6 DEF FirstOf
<1>4. CASE sort = "status-desc"
    <2>1. R \in SUBSET (0..Len(Catalog)) /\ Len(Catalog) \in Nat
        <3>1. Len(Catalog) \in Nat
            BY CatalogAssumption
        <3>2. \A r \in V : rank(r) \in 0..Len(Catalog)
            BY <1>0, <3>1
        <3> QED
            BY <3>1, <3>2
    <2>2. PICK k \in R : \A y \in R : y <= k
        BY <1>2, <2>1, GreatestNat
    <2>3. PICK v \in V : rank(v) = k
        BY <2>2
    <2>4. PICK r \in V : rank(r) = k /\ (\A x \in V : rank(x) = k => r <= x)
        <3>1. StatusRank[Catalog[v].status] = k
            BY <2>3
        <3> HIDE DEF R
        <3> QED
            BY ONLY <3>1, LeastOfRank, V \in SUBSET Records, v \in V
    <2>5. \A x \in V : rank(x) <= k
        BY <2>2
    <2>6. \A x \in V \ {r} : rank(r) > rank(x) \/ (rank(r) = rank(x) /\ r < x)
        BY <1>0, <2>4, <2>5
    <2>7. \A x \in V \ {r} : Precedes(r, x, sort)
        BY <1>4, <2>6 DEF Precedes
    <2> QED
        BY <2>7 DEF FirstOf
<1> QED
    BY <1>1, <1>3, <1>4 DEF Sorts

-----------------------------------------------------------------------------
(* Filters, and the address.                                               *)

\* Two states with the same filters.
SameFilters(s, t) ==
    /\ s.query = t.query
    /\ s.scope = t.scope
    /\ s.status = t.status
    /\ s.sort = t.sort
    /\ s.tags = t.tags

LEMMA SameFiltersSameList ==
    ASSUME NEW s, NEW t, SameFilters(s, t)
    PROVE  Visible(s) = Visible(t)
BY DEF SameFilters, Visible, Matches

LEMMA RecordsType == 1 \in Records /\ 0 \notin Records
<1>1. Len(Catalog) \in Nat /\ Len(Catalog) # 0
    BY CatalogAssumption
<1> QED
    BY <1>1 DEF Records

LEMMA VisibleType ==
    ASSUME NEW s
    PROVE  /\ Visible(s) \in SUBSET Records
           /\ 0 \notin Visible(s)
BY RecordsType DEF Visible

LEMMA ApplySettles ==
    ASSUME NEW s \in State, s.status # "" => s.scope = "all"
    PROVE  /\ Settled(ApplyFilters(s))
           /\ SameFilters(ApplyFilters(s), s)
           /\ ApplyFilters(s).explicit => s.explicit
           /\ s.selected \in Visible(s) => ApplyFilters(s) = s
           /\ ~s.explicit => ~ApplyFilters(s).explicit
<1>1. Visible(s) \in SUBSET Records /\ 0 \notin Visible(s)
    BY VisibleType
<1>2. CASE s.selected \in Visible(s)
    BY <1>1, <1>2 DEF ApplyFilters, Settled, SameFilters
<1>3. CASE s.selected \notin Visible(s)
    <2> DEFINE r == ResolvedRecord(s)
               t == [s EXCEPT !.selected = r, !.explicit = FALSE]
    <2>1. ApplyFilters(s) = t
        BY <1>3 DEF ApplyFilters
    <2>2. IF Visible(s) = {} THEN r = 0 ELSE r \in Visible(s)
        BY <1>1, <1>3, FirstExists DEF ResolvedRecord, State
    <2>3. t \in State /\ t.selected = r /\ t.explicit = FALSE /\ SameFilters(t, s)
        BY <1>1, <2>2 DEF State, SameFilters
    <2>4. t.status # "" => t.scope = "all"
        BY <2>3 DEF SameFilters
    <2>5. Visible(t) = Visible(s)
        BY <2>3, SameFiltersSameList
    <2> HIDE DEF t, r
    <2>6. Settled(t)
        BY <2>2, <2>3, <2>4, <2>5 DEF Settled
    <2> QED
        BY <1>3, <2>1, <2>3, <2>6
<1> QED
    BY <1>2, <1>3

LEMMA ReadType ==
    ASSUME NEW p \in Params
    PROVE  /\ ReadParams(p) \in State
           /\ ReadParams(p).status # "" => ReadParams(p).scope = "all"
<1>1. 1 \in Records
    BY RecordsType
<1> QED
    BY <1>1 DEF ReadParams, Params, State, DefaultState, Scopes

LEMMA WriteType ==
    ASSUME NEW s \in State
    PROVE  WriteParams(s) \in Params
BY DEF WriteParams, Params, State, Scopes

\* Equal up to a selection that was not chosen, field by field.
LEMMA LinkFields ==
    ASSUME NEW s \in State, NEW t \in State, SameFilters(s, t), s.explicit = t.explicit,
           s.explicit => s.selected = t.selected
    PROVE  SameForLink(s, t)
BY DEF SameForLink, SameFilters, State

LEMMA RoundTrip ==
    ASSUME NEW s, Settled(s)
    PROVE  SameForLink(s, ApplyFilters(ReadParams(WriteParams(s))))
<1> DEFINE read == ReadParams(WriteParams(s))
           t == ApplyFilters(read)
<1>1. s \in State /\ (s.status # "" => s.scope = "all")
    BY DEF Settled
<1>2. read \in State /\ (read.status # "" => read.scope = "all")
    BY <1>1, ReadType, WriteType
<1>3. s.explicit => s.selected # 0
    BY VisibleType DEF Settled
<1>4. SameFilters(read, s)
    BY <1>1 DEF ReadParams, WriteParams, SameFilters, State, Scopes
<1>5. read.explicit = s.explicit /\ (s.explicit => read.selected = s.selected)
    BY <1>1, <1>3 DEF ReadParams, WriteParams, State
<1> HIDE DEF read
<1>6. t \in State /\ SameFilters(t, read)
    BY <1>2, ApplySettles DEF Settled
<1>7. Visible(read) = Visible(s)
    BY <1>4, SameFiltersSameList
<1>8. CASE s.explicit
    <2>1. read.selected \in Visible(read)
        BY <1>5, <1>7, <1>8 DEF Settled
    <2>2. t = read
        BY <1>2, <2>1, ApplySettles
    <2> QED
        BY <1>1, <1>2, <1>4, <1>5, <2>2, LinkFields DEF SameFilters, read
<1>9. CASE ~s.explicit
    <2>1. ~t.explicit
        BY <1>2, <1>5, <1>9, ApplySettles
    <2>2. t.explicit = s.explicit
        BY <1>1, <1>6, <1>9, <2>1 DEF State
    <2>3. SameFilters(s, t)
        BY <1>4, <1>6 DEF SameFilters
    <2> HIDE DEF t
    <2>4. SameForLink(s, t)
        BY <1>1, <1>6, <1>9, <2>2, <2>3, LinkFields
    <2> QED
        BY <2>4 DEF t, read
<1> QED
    BY <1>8, <1>9

-----------------------------------------------------------------------------
(* The history and the address after a handler wrote them.                 *)

AddressInv ==
    /\ history \in Seq(Entry)
    /\ pos \in 1..Len(history)
    /\ Len(history) <= MaxHistory
    /\ UrlRestores
    /\ MarkedEntriesArePushed

LEMMA WriteStep ==
    ASSUME ReaderInv, NEW s, Settled(s), state' = s, NEW detail \in BOOLEAN,
           \/ Replace(s, detail) /\ ~detail
           \/ Push(s, detail) /\ (detail => s.explicit)
    PROVE  AddressInv'
<1> DEFINE e == [params |-> WriteParams(s), detail |-> detail]
<1>1. s \in State /\ SameForLink(s, ApplyFilters(ReadParams(WriteParams(s))))
    BY RoundTrip DEF Settled
<1>2. e \in Entry
    BY <1>1, WriteType DEF Entry
<1>3. detail => WriteParams(s).rfc # 0
    BY VisibleType DEF Settled, WriteParams
<1>0. MaxHistory \in Nat /\ history \in Seq(Entry) /\ pos \in 1..Len(history)
      /\ Len(history) <= MaxHistory
    BY BoundAssumption DEF ReaderInv, TypeOK
<1>4. CASE Replace(s, detail) /\ ~detail
    <2>1. history' = [history EXCEPT ![pos] = e] /\ pos' = pos
        BY <1>4 DEF Replace
    <2>2. /\ history' \in Seq(Entry)
          /\ Len(history') = Len(history)
          /\ history'[pos'] = e
          /\ \A k \in 1..Len(history) : k # pos => history'[k] = history[k]
        BY <1>0, <1>2, <2>1
    <2> HIDE DEF e
    <2>3. e.params = WriteParams(s) /\ e.detail = FALSE
        BY <1>4 DEF e
    <2>4. UrlRestores'
        BY <1>1, <2>2, <2>3 DEF UrlRestores
    <2>5. MarkedEntriesArePushed'
        BY <1>0, <2>1, <2>2, <2>3 DEF ReaderInv, MarkedEntriesArePushed
    <2> QED
        BY <1>0, <2>1, <2>2, <2>4, <2>5 DEF AddressInv
<1>5. CASE Push(s, detail) /\ (detail => s.explicit)
    <2> DEFINE kept == SubSeq(history, 1, pos)
    <2>1. history' = Append(kept, e) /\ pos' = pos + 1 /\ pos < MaxHistory
        BY <1>5 DEF Push
    <2>2. /\ kept \in Seq(Entry)
          /\ Len(kept) = pos
          /\ \A k \in 1..pos : kept[k] = history[k]
        BY <1>0
    <2> HIDE DEF kept, e
    <2>3. /\ history' \in Seq(Entry)
          /\ Len(history') = pos + 1
          /\ history'[pos + 1] = e
          /\ \A k \in 1..pos : history'[k] = history[k]
        BY <1>0, <1>2, <2>1, <2>2
    <2>4. e.params = WriteParams(s) /\ e.detail = detail
        BY DEF e
    <2>5. UrlRestores'
        BY <1>1, <2>1, <2>3, <2>4 DEF UrlRestores
    <2>6. MarkedEntriesArePushed'
        <3> SUFFICES ASSUME NEW k \in 1..Len(history'), history'[k].detail
                     PROVE  k > 1 /\ history'[k].params.rfc # 0
            BY DEF MarkedEntriesArePushed
        <3>1. CASE k \in 1..pos
            BY <1>0, <2>3, <3>1 DEF ReaderInv, MarkedEntriesArePushed
        <3>2. CASE k = pos + 1
            <4>1. detail
                BY <2>3, <2>4, <3>2
            <4> QED
                BY <1>0, <1>3, <1>5, <2>3, <2>4, <3>2, <4>1
        <3> QED
            BY <1>0, <2>3, <3>1, <3>2
    <2> QED
        BY <1>0, <2>1, <2>3, <2>5, <2>6 DEF AddressInv
<1> QED
    BY <1>4, <1>5

LEMMA Together ==
    ASSUME AddressInv', Settled(state)', PaneMatchesSelection',
           view' \in {"results", "detail"}, timer' \in BOOLEAN, backs' \in 0..MaxBacks,
           media' \in [narrow : BOOLEAN, reported : BOOLEAN]
    PROVE  ReaderInv'
BY DEF AddressInv, Settled, ReaderInv, TypeOK

\* The handlers that end in applyFilters and a push.
LEMMA FilterStep ==
    ASSUME ReaderInv, NEW s \in State, s.status # "" => s.scope = "all", FilterWith(s),
           \/ view' = PreparedView /\ (media.narrow => ~s.explicit)
           \/ view' = "results" /\ ~s.explicit
           \/ view' = view /\ IndexShown /\ s.explicit = state.explicit
    PROVE  ReaderInv'
<1> USE DEF FilterWith
<1>1. /\ state' = ApplyFilters(s)
      /\ Settled(ApplyFilters(s))
      /\ ~s.explicit => ~ApplyFilters(s).explicit
    BY ApplySettles
<1>2. AddressInv'
    BY <1>1, WriteStep
<1>3. view' \in {"results", "detail"}
    BY DEF PreparedView, ReaderInv, TypeOK
<1>4. PaneMatchesSelection'
    BY <1>1 DEF PaneMatchesSelection, PreparedView, IndexShown, ReaderInv, TypeOK
<1>5. Settled(state)'
    BY <1>1 DEF Settled, Visible, Matches
<1> QED
    BY <1>2, <1>3, <1>4, <1>5, Together DEF ReaderInv, TypeOK

LEMMA PreparedType ==
    ASSUME ReaderInv, NEW s \in State
    PROVE  /\ Prepared(s) \in State
           /\ SameFilters(Prepared(s), s)
           /\ media.narrow => ~Prepared(s).explicit
BY DEF Prepared, State, SameFilters

LEMMA TypeStep ==
    ASSUME ReaderInv, NEW q \in Queries \cup {""}, Type(q)
    PROVE  ReaderInv'
<1> USE DEF Type
<1> DEFINE t == [state EXCEPT !.query = q]
           s == Prepared(t)
<1>1. t \in State /\ (t.status # "" => t.scope = "all")
    BY DEF ReaderInv, Settled, State
<1>2. s \in State /\ SameFilters(s, t) /\ (media.narrow => ~s.explicit)
    BY <1>1, PreparedType
<1>3. s.status # "" => s.scope = "all"
    BY <1>1, <1>2 DEF SameFilters
<1> HIDE DEF t, s
<1>4. /\ Settled(ApplyFilters(s))
      /\ ~s.explicit => ~ApplyFilters(s).explicit
    BY <1>2, <1>3, ApplySettles
<1>5. state' = ApplyFilters(s) /\ view' = PreparedView
    BY DEF s, t
<1>6. Settled(state)'
    BY <1>4, <1>5 DEF Settled, Visible, Matches
<1>7. AddressInv'
    BY DEF AddressInv, ReaderInv, TypeOK, UrlRestores, MarkedEntriesArePushed
<1>8. PaneMatchesSelection' /\ view' \in {"results", "detail"}
    BY <1>2, <1>4, <1>5 DEF PaneMatchesSelection, PreparedView, ReaderInv, TypeOK
<1> QED
    BY <1>6, <1>7, <1>8, Together DEF ReaderInv, TypeOK

LEMMA TimerStep ==
    ASSUME ReaderInv, UrlTimerFires
    PROVE  ReaderInv'
<1> USE DEF UrlTimerFires
<1>1. AddressInv'
    BY WriteStep DEF ReaderInv
<1>2. Settled(state)'
    BY DEF ReaderInv, Settled, Visible, Matches
<1>3. PaneMatchesSelection'
    BY DEF ReaderInv, PaneMatchesSelection
<1> QED
    BY <1>1, <1>2, <1>3, Together DEF ReaderInv, TypeOK

\* A control that changes the state to t before it prepares and filters.
LEMMA ControlStep ==
    ASSUME ReaderInv, NEW t \in State, t.status # "" => t.scope = "all",
           FilterWith(Prepared(t)), view' = PreparedView
    PROVE  ReaderInv'
<1>1. /\ Prepared(t) \in State
      /\ SameFilters(Prepared(t), t)
      /\ media.narrow => ~Prepared(t).explicit
    BY PreparedType
<1>2. Prepared(t).status # "" => Prepared(t).scope = "all"
    BY <1>1 DEF SameFilters
<1> QED
    BY <1>1, <1>2, FilterStep

LEMMA FacetStep ==
    ASSUME ReaderInv,
           \/ \E v \in Scopes : ChooseScope(v)
           \/ \E v \in Statuses \cup {""} : ChooseStatus(v)
           \/ \E v \in Sorts : ChooseSort(v)
           \/ \E t \in Tags : ChooseTag(t) \/ DetailTag(t)
           \/ ClearTags
    PROVE  ReaderInv'
<1>1. state \in State /\ (state.status # "" => state.scope = "all")
    BY DEF ReaderInv, Settled
<1>2. ASSUME NEW v \in Scopes, ChooseScope(v) PROVE ReaderInv'
    <2> DEFINE t == [state EXCEPT !.scope = v, !.status = IF v = "all" THEN @ ELSE ""]
    <2>1. t \in State /\ (t.status # "" => t.scope = "all")
        BY <1>1 DEF State, Scopes
    <2> QED
        BY <1>2, <2>1, ControlStep DEF ChooseScope
<1>3. ASSUME NEW v \in Statuses \cup {""}, ChooseStatus(v) PROVE ReaderInv'
    <2> DEFINE t == [state EXCEPT !.status = v, !.scope = IF v = "" THEN @ ELSE "all"]
    <2>1. t \in State /\ (t.status # "" => t.scope = "all")
        BY <1>1 DEF State, Scopes
    <2> QED
        BY <1>3, <2>1, ControlStep DEF ChooseStatus
<1>4. ASSUME NEW v \in Sorts, ChooseSort(v) PROVE ReaderInv'
    <2> DEFINE t == [state EXCEPT !.sort = v]
    <2>1. t \in State /\ (t.status # "" => t.scope = "all")
        BY <1>1 DEF State
    <2> QED
        BY <1>4, <2>1, ControlStep DEF ChooseSort
<1>5. ASSUME NEW g \in Tags, ChooseTag(g) \/ DetailTag(g) PROVE ReaderInv'
    <2> DEFINE t == [state EXCEPT !.tags = Toggled(@, g)]
    <2>1. t \in State /\ (t.status # "" => t.scope = "all")
        BY <1>1 DEF State, Toggled
    <2> QED
        BY <1>5, <2>1, ControlStep DEF ChooseTag, DetailTag
<1>6. CASE ClearTags
    <2> DEFINE t == [state EXCEPT !.tags = {}]
    <2>1. t \in State /\ (t.status # "" => t.scope = "all")
        BY <1>1 DEF State
    <2> QED
        BY <1>6, <2>1, ControlStep DEF ClearTags
<1> QED
    BY <1>2, <1>3, <1>4, <1>5, <1>6

LEMMA ChipStep ==
    ASSUME ReaderInv, NEW g \in Tags, RemoveChip(g)
    PROVE  ReaderInv'
<1> DEFINE t == [state EXCEPT !.tags = @ \ {g}]
<1>1. t \in State /\ (t.status # "" => t.scope = "all") /\ t.explicit = state.explicit
    BY DEF ReaderInv, Settled, State
<1> QED
    BY <1>1, FilterStep DEF RemoveChip

LEMMA ResetStep ==
    ASSUME ReaderInv, Reset
    PROVE  ReaderInv'
<1> DEFINE t == [DefaultState EXCEPT !.selected = state.selected]
<1>1. state.selected \in Records \cup {0}
    BY DEF ReaderInv, Settled, State
<1>2. t \in State /\ (t.status # "" => t.scope = "all") /\ ~t.explicit
    BY <1>1, RecordsType DEF DefaultState, State, Scopes, Sorts
<1> QED
    BY <1>2, FilterStep DEF Reset

LEMMA SelectStep ==
    ASSUME ReaderInv, NEW r, NEW open \in BOOLEAN, SelectRecord(r, open)
    PROVE  ReaderInv'
<1> USE DEF SelectRecord
<1> DEFINE s == [state EXCEPT !.selected = r, !.explicit = ~media.narrow \/ open]
<1>1. state \in State /\ (state.status # "" => state.scope = "all")
      /\ media.narrow \in BOOLEAN /\ media.reported \in BOOLEAN
    BY DEF ReaderInv, Settled, TypeOK
<1>2. r \in Visible(state) /\ r \in Records
    BY VisibleType
<1>3. /\ s \in State
      /\ SameFilters(s, state)
      /\ s.selected = r
      /\ s.explicit = (~media.narrow \/ open)
    BY <1>1, <1>2 DEF State, SameFilters
<1>4. Settled(s)
    <2>1. Visible(s) = Visible(state)
        BY <1>3, SameFiltersSameList
    <2> QED
        BY <1>1, <1>2, <1>3, <2>1 DEF Settled, SameFilters
<1>5. state' = s
    OBVIOUS
<1>6. Settled(state)'
    BY <1>4, <1>5 DEF Settled, Visible, Matches
<1> HIDE DEF s
<1>7. CASE media.narrow /\ open
    <2>1. view' = "detail" /\ Push(s, TRUE) /\ s.explicit
        BY <1>3, <1>5, <1>7
    <2>2. AddressInv'
        BY <1>4, <1>5, <2>1, WriteStep
    <2>3. PaneMatchesSelection'
        BY <1>3, <1>5, <1>7, <2>1 DEF PaneMatchesSelection
    <2> QED
        BY <1>6, <2>1, <2>2, <2>3, Together DEF ReaderInv, TypeOK
<1>8. CASE ~(media.narrow /\ open)
    <2>1. view' = view /\ Replace(s, FALSE)
        BY <1>5, <1>8
    <2>2. AddressInv'
        BY <1>4, <1>5, <2>1, WriteStep
    <2>3. PaneMatchesSelection'
        BY <1>3, <1>5, <1>8, <2>1 DEF PaneMatchesSelection, IndexShown, ReaderInv
    <2> QED
        BY <1>6, <2>1, <2>2, <2>3, Together DEF ReaderInv, TypeOK
<1> QED
    BY <1>7, <1>8

LEMMA BackButtonStep ==
    ASSUME ReaderInv, BackButton
    PROVE  ReaderInv'
<1> USE DEF BackButton
<1>1. CASE history[pos].detail
    <2>1. AddressInv' /\ Settled(state)'
        BY <1>1 DEF AddressInv, ReaderInv, TypeOK, UrlRestores, MarkedEntriesArePushed,
            Settled, Visible, Matches
    <2>2. PaneMatchesSelection'
        BY <1>1 DEF ReaderInv, PaneMatchesSelection
    <2>3. backs \in 0..MaxBacks /\ MaxBacks \in Nat
        BY BoundAssumption DEF ReaderInv, TypeOK
    <2>4. backs' \in 0..MaxBacks
        BY <1>1, <2>3
    <2> QED
        BY <1>1, <2>1, <2>2, <2>4, Together DEF ReaderInv, TypeOK
<1>2. CASE ~history[pos].detail
    <2> DEFINE s == [state EXCEPT !.explicit = FALSE]
    <2>1. s \in State /\ SameFilters(s, state) /\ ~s.explicit /\ s.selected = state.selected
        BY DEF ReaderInv, Settled, State, SameFilters
    <2>2. Visible(s) = Visible(state)
        BY <2>1, SameFiltersSameList
    <2>3. Settled(s)
        BY <2>1, <2>2 DEF ReaderInv, Settled, SameFilters
    <2>4. state' = s /\ view' = "results" /\ Replace(s, FALSE) /\ backs' = backs
        BY <1>2
    <2>5. AddressInv'
        BY <2>3, <2>4, WriteStep
    <2>6. Settled(state)' /\ PaneMatchesSelection'
        BY <2>1, <2>3, <2>4 DEF Settled, Visible, Matches, PaneMatchesSelection
    <2> QED
        BY <2>4, <2>5, <2>6, Together DEF ReaderInv, TypeOK
<1> QED
    BY <1>1, <1>2

-----------------------------------------------------------------------------
(* Reading the address back.                                               *)

LEMMA MaxBacksType == MaxBacks \in Nat /\ 0 \in 0..MaxBacks
<1>1. MaxBacks \in Nat
    BY BoundAssumption
<1> QED
    BY <1>1

LEMMA ReadUrlStep ==
    ASSUME ReaderInv, NEW at \in 1..Len(history), NEW preserve \in Records \cup {0},
           ReadUrl(history, at, preserve), media' = media
    PROVE  /\ AddressInv'
           /\ Settled(state)'
           /\ PaneMatchesSelection'
           /\ view' \in {"results", "detail"}
<1> DEFINE p == history[at].params
           read == ReadParams(p)
           asked == IF ~read.explicit /\ preserve # 0
                    THEN [read EXCEPT !.selected = preserve] ELSE read
           s == ApplyFilters(asked)
           corrected == Redundant(p) \/ (asked.explicit /\ ~s.explicit)
           e == [params |-> WriteParams(s), detail |-> FALSE]
<1>1. /\ state' = s
      /\ view' = IF media.narrow /\ s.explicit THEN "detail" ELSE "results"
      /\ history' = IF corrected THEN [history EXCEPT ![at] = e] ELSE history
      /\ pos' = at
    BY DEF ReadUrl
<1>2. history \in Seq(Entry) /\ Len(history) <= MaxHistory /\ p \in Params
    <2>1. history \in Seq(Entry) /\ Len(history) <= MaxHistory
        BY DEF ReaderInv, TypeOK
    <2>2. history[at] \in Entry
        BY <2>1
    <2> QED
        BY <2>1, <2>2 DEF Entry
<1>3. read \in State /\ (read.status # "" => read.scope = "all")
    BY <1>2, ReadType
<1> HIDE DEF read
<1>4. /\ asked \in State
      /\ SameFilters(asked, read)
      /\ asked.explicit = read.explicit
      /\ asked = read \/ ~read.explicit
    BY <1>3 DEF State, SameFilters
<1>5. asked.status # "" => asked.scope = "all"
    BY <1>3, <1>4 DEF SameFilters
<1> HIDE DEF asked
<1>6. /\ Settled(s)
      /\ SameFilters(s, asked)
      /\ ~asked.explicit => ~s.explicit
    BY <1>4, <1>5, ApplySettles
<1>7. /\ Settled(ApplyFilters(read))
      /\ SameFilters(ApplyFilters(read), read)
      /\ ~read.explicit => ~ApplyFilters(read).explicit
    BY <1>3, ApplySettles
<1>8. SameForLink(s, ApplyFilters(read))
    <2>1. CASE asked = read
        BY <2>1 DEF SameForLink
    <2>2. CASE ~read.explicit
        <3> DEFINE t == ApplyFilters(read)
        <3>1. ~s.explicit /\ ~t.explicit
            BY <1>4, <1>6, <1>7, <2>2
        <3>2. SameFilters(s, t)
            BY <1>4, <1>6, <1>7 DEF SameFilters
        <3>3. s \in State /\ t \in State
            BY <1>6, <1>7 DEF Settled
        <3>4. s.explicit = t.explicit
            BY <3>1, <3>3 DEF State
        <3> HIDE DEF s, t
        <3>5. SameForLink(s, t)
            BY <3>1, <3>2, <3>3, <3>4, LinkFields
        <3> QED
            BY <3>5 DEF t
    <2> QED
        BY <1>4, <2>1, <2>2
<1>9. Settled(state)'
    BY <1>1, <1>6 DEF Settled, Visible, Matches
<1>10. SameForLink(s, ApplyFilters(ReadParams(WriteParams(s)))) /\ WriteParams(s) \in Params
    BY <1>6, RoundTrip, WriteType DEF Settled
<1> HIDE DEF s
<1>11. e \in Entry /\ e.params = WriteParams(s) /\ e.detail = FALSE
    BY <1>10 DEF Entry
<1> HIDE DEF e
<1>12. /\ history' \in Seq(Entry)
       /\ Len(history') = Len(history)
       /\ history'[at] = IF corrected THEN e ELSE history[at]
       /\ \A k \in 1..Len(history) : k # at => history'[k] = history[k]
    BY <1>1, <1>2, <1>11
<1>13. UrlRestores'
    BY <1>1, <1>8, <1>10, <1>11, <1>12 DEF UrlRestores, read
<1>14. MarkedEntriesArePushed'
    BY <1>1, <1>11, <1>12 DEF MarkedEntriesArePushed, ReaderInv
<1>15. AddressInv'
    BY <1>1, <1>2, <1>12, <1>13, <1>14 DEF AddressInv
<1>16. PaneMatchesSelection' /\ view' \in {"results", "detail"}
    BY <1>1 DEF PaneMatchesSelection
<1> QED
    BY <1>9, <1>15, <1>16

LEMMA PopStateStep ==
    ASSUME ReaderInv, NEW at \in 1..Len(history), PopState(at), backs' \in 0..MaxBacks
    PROVE  ReaderInv'
<1> DEFINE preserve == IF media.narrow /\ view = "detail" THEN state.selected ELSE 0
<1>1. preserve \in Records \cup {0}
    BY DEF ReaderInv, Settled, State
<1>2. ReadUrl(history, at, preserve) /\ media' = media /\ timer' = timer
    BY DEF PopState
<1> HIDE DEF preserve
<1>3. AddressInv' /\ Settled(state)' /\ PaneMatchesSelection'
      /\ view' \in {"results", "detail"}
    BY <1>1, <1>2, ReadUrlStep
<1> QED
    BY <1>2, <1>3, Together DEF ReaderInv, TypeOK

LEMMA TraversalStep ==
    ASSUME ReaderInv, BackCarriedOut \/ BrowserBack \/ BrowserForward
    PROVE  ReaderInv'
<1>1. pos \in 1..Len(history) /\ backs \in 0..MaxBacks /\ MaxBacks \in Nat
      /\ Len(history) \in Nat
    <2>1. history \in Seq(Entry) /\ pos \in 1..Len(history) /\ backs \in 0..MaxBacks
        BY DEF ReaderInv, TypeOK
    <2> QED
        BY <2>1, MaxBacksType
<1>2. CASE BackCarriedOut
    BY <1>1, <1>2, PopStateStep DEF BackCarriedOut
<1>3. CASE BrowserBack
    BY <1>1, <1>3, PopStateStep DEF BrowserBack
<1>4. CASE BrowserForward
    BY <1>1, <1>4, PopStateStep DEF BrowserForward
<1> QED
    BY <1>2, <1>3, <1>4

LEMMA ReloadStep ==
    ASSUME ReaderInv, Reload
    PROVE  ReaderInv'
<1>1. pos \in 1..Len(history) /\ 0 \in 0..MaxBacks
    BY MaxBacksType DEF ReaderInv, TypeOK
<1>2. AddressInv' /\ Settled(state)' /\ PaneMatchesSelection'
      /\ view' \in {"results", "detail"}
    BY <1>1, ReadUrlStep DEF Reload
<1> QED
    BY <1>1, <1>2, Together DEF Reload, ReaderInv, TypeOK

LEMMA ViewportStep ==
    ASSUME ReaderInv, ViewportResized \/ ViewportReported
    PROVE  ReaderInv'
<1> USE DEF ViewportResized, ViewportReported
<1>1. media \in [narrow : BOOLEAN, reported : BOOLEAN]
    BY DEF ReaderInv, TypeOK
<1>2. media' \in [narrow : BOOLEAN, reported : BOOLEAN]
    <2>1. CASE ViewportResized
        BY <1>1, <2>1
    <2>2. CASE ViewportReported
        BY <1>1, <2>2
    <2> QED
        BY <2>1, <2>2
<1>3. AddressInv' /\ Settled(state)'
    BY DEF AddressInv, ReaderInv, TypeOK, UrlRestores, MarkedEntriesArePushed,
        Settled, Visible, Matches
<1>4. PaneMatchesSelection' /\ view' \in {"results", "detail"}
    <2>1. CASE ViewportResized
        BY <1>1, <2>1 DEF PaneMatchesSelection, ReaderInv, TypeOK
    <2>2. CASE ViewportReported
        <3>1. media'.narrow = media.narrow /\ state' = state
            BY <1>1, <2>2
        <3> QED
            BY <2>2, <3>1 DEF PaneMatchesSelection
    <2> QED
        BY <2>1, <2>2
<1>5. timer' \in BOOLEAN /\ backs' \in 0..MaxBacks
    BY DEF ReaderInv, TypeOK
<1> QED
    BY <1>2, <1>3, <1>4, <1>5, Together

-----------------------------------------------------------------------------
(* The theorems.                                                           *)

LEMMA InitSettles ==
    ASSUME Init
    PROVE  ReaderInv
<1>1. PICK p \in Links :
        LET s == ApplyFilters(ReadParams(p))
            corrected == Redundant(p) \/ (p.rfc # 0 /\ ~s.explicit)
        IN  /\ state = s
            /\ view = IF media.narrow /\ s.explicit THEN "detail" ELSE "results"
            /\ history = <<[params |-> IF corrected THEN WriteParams(s) ELSE p,
                            detail |-> FALSE]>>
    BY DEF Init
<1> DEFINE s == ApplyFilters(ReadParams(p))
           w == IF Redundant(p) \/ (p.rfc # 0 /\ ~s.explicit) THEN WriteParams(s) ELSE p
           e == [params |-> w, detail |-> FALSE]
<1>2. p \in Params
    BY LinkAssumption
<1>3. Settled(s)
    BY <1>2, ReadType, ApplySettles
<1>4. SameForLink(s, ApplyFilters(ReadParams(w))) /\ w \in Params
    <2>1. SameForLink(s, ApplyFilters(ReadParams(WriteParams(s)))) /\ WriteParams(s) \in Params
        BY <1>3, RoundTrip, WriteType DEF Settled
    <2>2. SameForLink(s, s)
        BY DEF SameForLink
    <2> QED
        BY <1>2, <2>1, <2>2
<1> HIDE DEF w
<1>5. e \in Entry /\ e.params = w /\ e.detail = FALSE
    BY <1>4 DEF Entry
<1>6. history = <<e>> /\ state = s /\ pos = 1
    BY <1>1 DEF w, Init
<1> HIDE DEF e, s
<1>7. history \in Seq(Entry) /\ Len(history) = 1 /\ history[1] = e
    BY <1>5, <1>6
<1>8. UrlRestores /\ MarkedEntriesArePushed
    BY <1>4, <1>5, <1>6, <1>7 DEF UrlRestores, MarkedEntriesArePushed
<1>9. PaneMatchesSelection /\ view \in {"results", "detail"}
    BY <1>1 DEF PaneMatchesSelection
<1>10. media \in [narrow : BOOLEAN, reported : BOOLEAN] /\ timer = FALSE /\ backs = 0
    BY DEF Init
<1>11. 1 <= MaxHistory /\ 0 \in 0..MaxBacks
    BY BoundAssumption, MaxBacksType
<1>12. pos \in 1..Len(history) /\ Len(history) <= MaxHistory
    BY <1>6, <1>7, <1>11
<1>13. Settled(state)
    BY <1>3, <1>6 DEF s
<1>14. TypeOK
    BY <1>7, <1>9, <1>10, <1>11, <1>12, <1>13 DEF TypeOK, Settled
<1> QED
    BY <1>8, <1>9, <1>13, <1>14 DEF ReaderInv

LEMMA ReaderNext ==
    ASSUME ReaderInv, [Next]_vars
    PROVE  ReaderInv'
<1>1. CASE Reload
    BY <1>1, ReloadStep
<1>2. ASSUME NEW q \in Queries \cup {""}, Type(q) PROVE ReaderInv'
    BY <1>2, TypeStep
<1>3. CASE UrlTimerFires
    BY <1>3, TimerStep
<1>4. CASE \/ \E v \in Scopes : ChooseScope(v)
           \/ \E v \in Statuses \cup {""} : ChooseStatus(v)
           \/ \E v \in Sorts : ChooseSort(v)
           \/ \E t \in Tags : ChooseTag(t) \/ DetailTag(t)
           \/ ClearTags
    BY <1>4, FacetStep
<1>5. ASSUME NEW t \in Tags, RemoveChip(t) PROVE ReaderInv'
    BY <1>5, ChipStep
<1>6. CASE Reset
    BY <1>6, ResetStep
<1>7. media.narrow \in BOOLEAN
    BY DEF ReaderInv, TypeOK
<1>8. ASSUME NEW r \in Records, ClickRow(r) PROVE ReaderInv'
    BY <1>7, <1>8, SelectStep DEF ClickRow
<1>9. CASE EnterOpens
    BY <1>9, SelectStep DEF EnterOpens
<1>10. ASSUME NEW key \in ListKeys, ListKey(key) PROVE ReaderInv'
    BY <1>10, SelectStep DEF ListKey
<1>11. CASE BackButton
    BY <1>11, BackButtonStep
<1>12. CASE BackCarriedOut \/ BrowserBack \/ BrowserForward
    BY <1>12, TraversalStep
<1>13. CASE ViewportResized \/ ViewportReported
    BY <1>13, ViewportStep
<1>14. CASE UNCHANGED vars
    BY <1>14 DEF vars, ReaderInv, TypeOK, Settled, Visible, Matches, PaneMatchesSelection,
        UrlRestores, MarkedEntriesArePushed
<1> QED
    BY <1>1, <1>2, <1>3, <1>4, <1>5, <1>6, <1>8, <1>9, <1>10, <1>11, <1>12, <1>13, <1>14
        DEF Next

THEOREM ReaderInductive == Spec => []ReaderInv
BY InitSettles, ReaderNext, PTL DEF Spec

\* The reader's state, address and history keep their shape, and a status
\* filter is never combined with a scope.
THEOREM ReaderTypeCorrect == Spec => []TypeOK
<1>1. ReaderInv => TypeOK
    BY DEF ReaderInv
<1> QED
    BY <1>1, ReaderInductive, PTL

\* The current record of the list is always a listed one.
THEOREM SelectionStaysVisible == Spec => []SelectionVisible
<1>1. ReaderInv => SelectionVisible
    BY DEF ReaderInv, Settled, SelectionVisible
<1> QED
    BY <1>1, ReaderInductive, PTL

\* Unless a typed query is still on its way, the address in the bar gives back
\* what the reader sees.
THEOREM AddressRestores == Spec => []UrlRestores
<1>1. ReaderInv => UrlRestores
    BY DEF ReaderInv
<1> QED
    BY <1>1, ReaderInductive, PTL

\* A narrow viewport shows the pane that belongs to the selection.
THEOREM PaneFollowsSelection == Spec => []PaneMatchesSelection
<1>1. ReaderInv => PaneMatchesSelection
    BY DEF ReaderInv
<1> QED
    BY <1>1, ReaderInductive, PTL

\* Every entry marked as a detail view was pushed, after another, for a record.
THEOREM MarksAreSound == Spec => []MarkedEntriesArePushed
<1>1. ReaderInv => MarkedEntriesArePushed
    BY DEF ReaderInv
<1> QED
    BY <1>1, ReaderInductive, PTL

-----------------------------------------------------------------------------
(* Going back.  An entry that names a record names one its own filters     *)
(* list, so reading it never falls back on another record.                 *)

Sound(p) == p.rfc # 0 => p.rfc \in Visible(ReadParams(p))

EntriesSound == \A k \in 1..Len(history) : Sound(history[k].params)

LEMMA WrittenSound ==
    ASSUME NEW s, Settled(s)
    PROVE  Sound(WriteParams(s))
<1> DEFINE read == ReadParams(WriteParams(s))
<1>1. s \in State /\ (s.status # "" => s.scope = "all")
    BY DEF Settled
<1>2. SameFilters(read, s)
    BY <1>1 DEF ReadParams, WriteParams, SameFilters, State, Scopes
<1> HIDE DEF read
<1>3. Visible(read) = Visible(s)
    BY <1>2, SameFiltersSameList
<1>4. CASE s.explicit
    <2>1. WriteParams(s).rfc = s.selected
        BY <1>4 DEF WriteParams
    <2> QED
        BY <1>3, <1>4, <2>1 DEF Sound, Settled, read
<1>5. CASE ~s.explicit
    BY <1>5 DEF Sound, WriteParams
<1> QED
    BY <1>4, <1>5

\* What a handler may do to the history: every entry it leaves is an entry it
\* found, or holds the address of the state it leaves.
Written ==
    \A k \in 1..Len(history') :
        \/ history'[k].params = WriteParams(state')
        \/ \E j \in 1..Len(history) : history'[k].params = history[j].params

LEMMA UnwrittenKeeps ==
    ASSUME history' = history
    PROVE  Written
BY DEF Written

LEMMA ReplaceWrites ==
    ASSUME ReaderInv, NEW detail \in BOOLEAN, Replace(state', detail), Settled(state)'
    PROVE  Written
<1> DEFINE e == [params |-> WriteParams(state'), detail |-> detail]
<1>1. e \in Entry
    BY WriteType DEF Entry, Settled
<1>2. history \in Seq(Entry) /\ pos \in 1..Len(history)
    BY DEF ReaderInv, TypeOK
<1>3. history' = [history EXCEPT ![pos] = e]
    BY DEF Replace
<1>4. e.params = WriteParams(state')
    OBVIOUS
<1> HIDE DEF e
<1>5. /\ Len(history') = Len(history)
      /\ history'[pos] = e
      /\ \A k \in 1..Len(history) : k # pos => history'[k] = history[k]
    BY <1>1, <1>2, <1>3
<1> QED
    BY <1>4, <1>5 DEF Written

LEMMA PushWrites ==
    ASSUME ReaderInv, NEW detail \in BOOLEAN, Push(state', detail), Settled(state)'
    PROVE  Written
<1> DEFINE e == [params |-> WriteParams(state'), detail |-> detail]
           kept == SubSeq(history, 1, pos)
<1>1. e \in Entry
    BY WriteType DEF Entry, Settled
<1>2. history \in Seq(Entry) /\ pos \in 1..Len(history)
    BY DEF ReaderInv, TypeOK
<1>3. history' = Append(kept, e)
    BY DEF Push
<1>4. e.params = WriteParams(state')
    OBVIOUS
<1>5. kept \in Seq(Entry) /\ Len(kept) = pos /\ (\A k \in 1..pos : kept[k] = history[k])
    BY <1>2
<1> HIDE DEF e, kept
<1>6. /\ Len(history') = pos + 1
      /\ history'[pos + 1] = e
      /\ \A k \in 1..pos : history'[k] = history[k]
    BY <1>1, <1>2, <1>3, <1>5
<1>7. \A k \in 1..(pos + 1) : k = pos + 1 \/ k \in 1..pos
    BY <1>2
<1>8. \A k \in 1..pos : k \in 1..Len(history)
    BY <1>2
<1> QED
    BY <1>4, <1>6, <1>7, <1>8 DEF Written

LEMMA ReadWrites ==
    ASSUME ReaderInv, NEW at \in 1..Len(history), NEW preserve, Settled(state)',
           ReadUrl(history, at, preserve)
    PROVE  Written
<1> DEFINE e == [params |-> WriteParams(state'), detail |-> FALSE]
<1>1. e \in Entry
    BY WriteType DEF Entry, Settled
<1>2. history \in Seq(Entry)
    BY DEF ReaderInv, TypeOK
<1>3. e.params = WriteParams(state')
    OBVIOUS
<1>4. history' = history \/ history' = [history EXCEPT ![at] = e]
    BY DEF ReadUrl
<1> HIDE DEF e
<1>5. CASE history' = [history EXCEPT ![at] = e]
    <2>1. /\ Len(history') = Len(history)
          /\ history'[at] = e
          /\ \A k \in 1..Len(history) : k # at => history'[k] = history[k]
        BY <1>1, <1>2, <1>5
    <2> QED
        BY <1>3, <2>1 DEF Written
<1> QED
    BY <1>4, <1>5, UnwrittenKeeps

LEMMA NextWrites ==
    ASSUME ReaderInv, ReaderInv', [Next]_vars
    PROVE  Written
<1>1. Settled(state)'
    BY DEF ReaderInv
<1>2. pos \in 1..Len(history) /\ Len(history) \in Nat /\ media.narrow \in BOOLEAN
    <2>1. history \in Seq(Entry) /\ pos \in 1..Len(history)
          /\ media \in [narrow : BOOLEAN, reported : BOOLEAN]
        BY DEF ReaderInv, TypeOK
    <2> QED
        BY <2>1
<1>3. ASSUME NEW s, FilterWith(s) PROVE Written
    BY <1>1, <1>3, PushWrites DEF FilterWith
<1>4. ASSUME NEW r, NEW open \in BOOLEAN, SelectRecord(r, open) PROVE Written
    BY <1>1, <1>4, PushWrites, ReplaceWrites DEF SelectRecord
<1>5. ASSUME NEW at \in 1..Len(history), PopState(at) PROVE Written
    BY <1>1, <1>5, ReadWrites DEF PopState
<1>6. CASE Reload
    BY <1>1, <1>2, <1>6, ReadWrites DEF Reload
<1>7. ASSUME NEW q \in Queries \cup {""}, Type(q) PROVE Written
    BY <1>7, UnwrittenKeeps DEF Type
<1>8. CASE UrlTimerFires
    BY <1>1, <1>8, ReplaceWrites DEF UrlTimerFires
<1>9. CASE \/ \E v \in Scopes : ChooseScope(v)
           \/ \E v \in Statuses \cup {""} : ChooseStatus(v)
           \/ \E v \in Sorts : ChooseSort(v)
    BY <1>3, <1>9 DEF ChooseScope, ChooseStatus, ChooseSort
<1>10. CASE \/ \E t \in Tags : ChooseTag(t) \/ RemoveChip(t) \/ DetailTag(t)
            \/ ClearTags
            \/ Reset
    BY <1>3, <1>10 DEF ChooseTag, RemoveChip, DetailTag, ClearTags, Reset
<1>11. CASE \/ \E r \in Records : ClickRow(r)
            \/ EnterOpens
            \/ \E key \in ListKeys : ListKey(key)
    BY <1>2, <1>4, <1>11 DEF ClickRow, EnterOpens, ListKey
<1>12. CASE BackButton
    <2>1. history' = history \/ Replace(state', FALSE)
        BY <1>12 DEF BackButton
    <2> QED
        BY <1>1, <2>1, UnwrittenKeeps, ReplaceWrites
<1>13. CASE BackCarriedOut \/ BrowserBack \/ BrowserForward
    <2>1. PICK at \in 1..Len(history) : PopState(at)
        BY <1>2, <1>13 DEF BackCarriedOut, BrowserBack, BrowserForward
    <2> QED
        BY <1>5, <2>1
<1>14. CASE ViewportResized \/ ViewportReported \/ UNCHANGED vars
    BY <1>14, UnwrittenKeeps DEF ViewportResized, ViewportReported, vars
<1> QED
    BY <1>6, <1>7, <1>8, <1>9, <1>10, <1>11, <1>12, <1>13, <1>14 DEF Next

LEMMA EntriesNext ==
    ASSUME ReaderInv, ReaderInv', EntriesSound, [Next]_vars
    PROVE  EntriesSound'
<1>1. Written
    BY NextWrites
<1>2. Sound(WriteParams(state'))
    BY WrittenSound DEF ReaderInv, Settled
<1>3. SUFFICES ASSUME NEW k \in 1..Len(history')
               PROVE  Sound(history'[k].params)
    BY DEF EntriesSound, Sound, Visible, Matches, ReadParams, DefaultState
<1> QED
    BY <1>1, <1>2 DEF Written, EntriesSound

\* A record that stays chosen was listed.
LEMMA ChosenWasListed ==
    ASSUME NEW s \in State, ApplyFilters(s).explicit
    PROVE  s.selected \in Visible(s)
BY DEF ApplyFilters, State

LEMMA InitSound ==
    ASSUME Init
    PROVE  EntriesSound
<1>1. PICK p \in Links :
        LET s == ApplyFilters(ReadParams(p))
            corrected == Redundant(p) \/ (p.rfc # 0 /\ ~s.explicit)
        IN  history = <<[params |-> IF corrected THEN WriteParams(s) ELSE p,
                         detail |-> FALSE]>>
    BY DEF Init
<1> DEFINE s == ApplyFilters(ReadParams(p))
<1>2. p \in Params
    BY LinkAssumption
<1>3. Settled(s) /\ ReadParams(p) \in State
    BY <1>2, ReadType, ApplySettles
<1>4. Sound(WriteParams(s))
    BY <1>3, WrittenSound
<1>5. p.rfc = 0 \/ s.explicit => Sound(p)
    <2>1. s.explicit => ReadParams(p).selected \in Visible(ReadParams(p))
        BY <1>3, ChosenWasListed
    <2>2. p.rfc # 0 => ReadParams(p).selected = p.rfc
        BY DEF ReadParams
    <2> QED
        BY <2>1, <2>2 DEF Sound
<1>6. Len(history) = 1 /\ (history[1].params = WriteParams(s)
                           \/ (history[1].params = p /\ (p.rfc = 0 \/ s.explicit)))
    BY <1>1
<1> HIDE DEF s
<1> QED
    BY <1>4, <1>5, <1>6 DEF EntriesSound

\* Reading a sound entry from the narrow detail pane of a settled state.
LEMMA PopKeepsPlace ==
    ASSUME ReaderInv, EntriesSound, NEW at \in 1..Len(history), PopState(at),
           media.narrow, view = "detail", ~state'.explicit,
           state.selected \in Visible(state')
    PROVE  state'.selected = state.selected
<1> DEFINE p == history[at].params
           read == ReadParams(p)
           preserve == state.selected
           asked == IF ~read.explicit /\ preserve # 0
                    THEN [read EXCEPT !.selected = preserve] ELSE read
<1>1. state' = ApplyFilters(asked)
    BY DEF PopState, ReadUrl
<1>2. p \in Params
    <2>1. history \in Seq(Entry)
        BY DEF ReaderInv, TypeOK
    <2>2. history[at] \in Entry
        BY <2>1
    <2> QED
        BY <2>2 DEF Entry
<1>3. read \in State /\ (read.status # "" => read.scope = "all")
    BY <1>2, ReadType
<1>4. preserve \in Records /\ preserve # 0
    BY VisibleType
<1>5. read.explicit => p.rfc # 0 /\ read.selected = p.rfc
    BY DEF ReadParams
<1>6. Sound(p)
    BY DEF EntriesSound
<1> HIDE DEF p
<1>7. CASE read.explicit
    <2>1. read.selected \in Visible(read)
        BY <1>5, <1>6, <1>7 DEF Sound
    <2>2. asked = read
        BY <1>7
    <2>3. state' = read
        BY <1>1, <1>3, <2>1, <2>2, ApplySettles
    <2> QED
        BY <1>7, <2>3
<1> HIDE DEF read
<1>8. CASE ~read.explicit
    <2>1. /\ asked \in State
          /\ asked.status # "" => asked.scope = "all"
          /\ asked.selected = preserve
        BY <1>3, <1>4, <1>8 DEF State
    <2> HIDE DEF asked
    <2>2. Visible(state') = Visible(asked)
        BY <1>1, <2>1, ApplySettles, SameFiltersSameList
    <2>3. state' = asked
        BY <1>1, <2>1, <2>2, ApplySettles
    <2> QED
        BY <2>1, <2>3
<1> QED
    BY <1>7, <1>8

\* Every history entry that names a record names one that its own filters
\* list, so a move in the history never selects what is not shown.
THEOREM EntriesStaySound == Spec => []EntriesSound
BY InitSound, EntriesNext, ReaderInductive, PTL DEF Spec

\* Going back from the narrow detail pane to results that still list its
\* record keeps the reader's place in the list.
THEOREM GoingBackKeepsPlace == Spec => BackKeepsPlace
<1> DEFINE Step ==
        (BackCarriedOut \/ BrowserBack)
          /\ media.narrow /\ view = "detail" /\ ~state'.explicit
          /\ state.selected \in Visible(state')
        => state'.selected = state.selected
<1>1. ASSUME ReaderInv, EntriesSound PROVE Step
    <2> SUFFICES ASSUME BackCarriedOut \/ BrowserBack,
                        media.narrow, view = "detail", ~state'.explicit,
                        state.selected \in Visible(state')
                 PROVE  state'.selected = state.selected
        OBVIOUS
    <2>1. pos \in 1..Len(history) /\ Len(history) \in Nat
        <3>1. history \in Seq(Entry) /\ pos \in 1..Len(history)
            BY <1>1 DEF ReaderInv, TypeOK
        <3> QED
            BY <3>1
    <2>2. pos - 1 \in 1..Len(history) /\ PopState(pos - 1)
        BY <2>1 DEF BackCarriedOut, BrowserBack
    <2> QED
        BY <1>1, <2>2, PopKeepsPlace
<1>2. ReaderInv /\ EntriesSound => [Step]_vars
    BY <1>1
<1>3. Spec => [][Step]_vars
    BY <1>2, ReaderInductive, EntriesStaySound, PTL
<1> QED
    BY <1>3 DEF BackKeepsPlace
=============================================================================
