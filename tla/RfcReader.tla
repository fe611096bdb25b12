------------------------------ MODULE RfcReader ------------------------------
(***************************************************************************)
(* The RFC catalogue of the documentation site: a list of records with     *)
(* filters, a detail pane, and a URL that follows them                     *)
(* (docs/javascripts/prismplane.js, initializeRfcReader).                  *)
(*                                                                         *)
(* The reader keeps its state in three places that must agree: the         *)
(* variable state, the address of the current history entry, and, on a     *)
(* narrow viewport, which of the two panes is on display.  Handlers run    *)
(* one at a time, but a typed query reaches the address 150 ms later, a    *)
(* history.back() is carried out later, and a change of the viewport is    *)
(* reported later.                                                         *)
(*                                                                         *)
(* Records are numbered in the order of their ids; 0 stands for the empty  *)
(* id.  A query is an opaque value up to surrounding blanks; Found says    *)
(* which records contain all of its words.  Rendering, focus, scrolling    *)
(* and the two popovers are left out.                                      *)
(***************************************************************************)
EXTENDS Naturals, Sequences, FiniteSets

CONSTANTS
    Catalog,     \* the records: a sequence of [lifecycle, status, tags]
    Queries,     \* texts a reader may type, besides ""
    Found,       \* query -> the records whose search text matches it
    StatusRank,  \* status -> its place in the alphabet of labels
    Links,       \* addresses under which the page may be opened
    MaxHistory,  \* bound: history entries of this page
    MaxBacks     \* bound: history.back() calls not yet carried out

Records == 1..Len(Catalog)
Tags == UNION {Catalog[r].tags : r \in Records}
Statuses == {Catalog[r].status : r \in Records}
Scopes == {"all", "active", "implemented"}
Sorts == {"", "status-asc", "status-desc"}

ASSUME CatalogAssumption ==
    /\ Len(Catalog) \in Nat \ {0}
    /\ "" \notin Queries /\ "" \notin Statuses
    /\ Tags \subseteq Nat
    /\ Found \in [Queries \cup {""} -> SUBSET Records]
    /\ Found[""] = Records
    /\ StatusRank \in [Statuses -> 1..Len(Catalog)]

ASSUME BoundAssumption == MaxHistory \in Nat \ {0} /\ MaxBacks \in Nat

\* The reader's state, and the address parameters it is written to.  An absent
\* parameter is "", {} or 0.
State == [query : Queries \cup {""}, scope : Scopes, status : Statuses \cup {""},
          sort : Sorts, tags : SUBSET Tags, selected : Records \cup {0},
          explicit : BOOLEAN]

Params == [q : Queries \cup {""}, scope : {"", "active", "implemented"},
           status : Statuses \cup {""}, sort : Sorts, tags : SUBSET Tags,
           rfc : Records \cup {0}]

ASSUME LinkAssumption == Links \subseteq Params /\ Links # {}

Entry == [params : Params, detail : BOOLEAN]

VARIABLES
    state,    \* the reader's state
    view,     \* data-mobile-view: the pane a narrow viewport shows
    media,    \* whether the viewport is narrow, and its change was reported
    history,  \* the page's history entries: address and ppRfcDetail
    pos,      \* the current one
    timer,    \* the URL timeout is pending
    backs     \* history.back() calls not yet carried out

vars == <<state, view, media, history, pos, timer, backs>>

-----------------------------------------------------------------------------
(* rfcReaderContract.                                                      *)

Matches(r, s) ==
    /\ r \in Found[s.query]
    /\ s.scope = "all" \/ Catalog[r].lifecycle = s.scope
    /\ s.status = "" \/ Catalog[r].status = s.status
    /\ s.tags \subseteq Catalog[r].tags

Visible(s) == {r \in Records : Matches(r, s)}

\* sortRecords: a comes before b.
Precedes(a, b, sort) ==
    LET ra == StatusRank[Catalog[a].status]
        rb == StatusRank[Catalog[b].status]
    IN  CASE sort = "" -> a < b
          [] sort = "status-asc" -> ra < rb \/ (ra = rb /\ a < b)
          [] sort = "status-desc" -> ra > rb \/ (ra = rb /\ a < b)

FirstOf(S, sort) == CHOOSE r \in S : \A x \in S \ {r} : Precedes(r, x, sort)
LastOf(S, sort) == CHOOSE r \in S : \A x \in S \ {r} : Precedes(x, r, sort)

ResolvedRecord(s) ==
    IF s.selected \in Visible(s) THEN s.selected
    ELSE IF Visible(s) = {} THEN 0 ELSE FirstOf(Visible(s), s.sort)

\* adjacentRecordId, for the two arrow keys.
AdjacentRecord(s, key) ==
    LET V == Visible(s)
        after == {r \in V : Precedes(s.selected, r, s.sort)}
        before == {r \in V : Precedes(r, s.selected, s.sort)}
    IN  IF s.selected \notin V THEN FirstOf(V, s.sort)
        ELSE CASE key = "ArrowDown" -> IF after = {} THEN s.selected ELSE FirstOf(after, s.sort)
               [] key = "ArrowUp" -> IF before = {} THEN s.selected ELSE LastOf(before, s.sort)
               [] key = "Home" -> FirstOf(V, s.sort)
               [] key = "End" -> LastOf(V, s.sort)

DefaultState ==
    [query |-> "", scope |-> "all", status |-> "", sort |-> "", tags |-> {},
     selected |-> 1, explicit |-> FALSE]

\* Faulty variant: a link with both a status and a scope keeps both.
ReadParamsUnreconciled(p) ==
    [query |-> p.q, scope |-> IF p.scope = "" THEN "all" ELSE p.scope,
     status |-> p.status, sort |-> p.sort, tags |-> p.tags,
     selected |-> IF p.rfc = 0 THEN 1 ELSE p.rfc, explicit |-> p.rfc # 0]

ReadParams(p) ==
    [query |-> p.q,
     scope |-> IF p.scope = "" \/ p.status # "" THEN "all" ELSE p.scope,
     status |-> p.status, sort |-> p.sort, tags |-> p.tags,
     selected |-> IF p.rfc = 0 THEN DefaultState.selected ELSE p.rfc,
     explicit |-> p.rfc # 0]

WriteParams(s) ==
    [q |-> s.query, scope |-> IF s.scope = "all" THEN "" ELSE s.scope,
     status |-> s.status, sort |-> s.sort, tags |-> s.tags,
     rfc |-> IF s.explicit THEN s.selected ELSE 0]

-----------------------------------------------------------------------------
(* The closure's helpers, on the state a handler is about to leave.        *)

\* Faulty variant: a selection that was filtered out stays.
ApplyFiltersKeepSelected(s) == s

\* applyFilters.
ApplyFilters(s) ==
    IF s.selected \in Visible(s) THEN s
    ELSE [s EXCEPT !.selected = ResolvedRecord(s), !.explicit = FALSE]

\* prepareFilterChange: a narrow viewport goes back to the results.
Prepared(s) == IF media.narrow THEN [s EXCEPT !.explicit = FALSE] ELSE s
PreparedView == IF media.narrow THEN "results" ELSE view

\* writeUrl("replace") and writeUrl("push").
Replace(s, detail) ==
    /\ history' = [history EXCEPT ![pos] = [params |-> WriteParams(s), detail |-> detail]]
    /\ UNCHANGED pos

Push(s, detail) ==
    /\ pos < MaxHistory
    /\ history' = Append(SubSeq(history, 1, pos),
                         [params |-> WriteParams(s), detail |-> detail])
    /\ pos' = pos + 1

\* What the stylesheet leaves on display.
IndexShown == ~(media.narrow /\ view = "detail")
DetailShown == ~(media.narrow /\ view = "results") /\ state.selected # 0

-----------------------------------------------------------------------------
(* Reading the address: readUrl on entry e, the selection to fall back on, *)
(* and the history and position the handler found.                         *)

Redundant(p) == p.status # "" /\ p.scope # ""

ReadUrl(hist, at, preserve) ==
    LET p == hist[at].params
        read == ReadParams(p)
        asked == IF ~read.explicit /\ preserve # 0
                 THEN [read EXCEPT !.selected = preserve] ELSE read
        s == ApplyFilters(asked)
        corrected == Redundant(p) \/ (asked.explicit /\ ~s.explicit)
    IN  /\ state' = s
        /\ view' = IF media.narrow /\ s.explicit THEN "detail" ELSE "results"
        /\ history' = IF corrected
                      THEN [hist EXCEPT ![at] = [params |-> WriteParams(s), detail |-> FALSE]]
                      ELSE hist
        /\ pos' = at

\* The page has been opened under one of the links.
Init ==
    /\ media \in [narrow : BOOLEAN, reported : {TRUE}]
    /\ \E p \in Links :
          LET s == ApplyFilters(ReadParams(p))
              corrected == Redundant(p) \/ (p.rfc # 0 /\ ~s.explicit)
          IN  /\ state = s
              /\ view = IF media.narrow /\ s.explicit THEN "detail" ELSE "results"
              /\ history = <<[params |-> IF corrected THEN WriteParams(s) ELSE p,
                              detail |-> FALSE]>>
    /\ pos = 1
    /\ timer = FALSE
    /\ backs = 0

\* A reload reads the current entry again; what was pending is lost.
Reload ==
    /\ ReadUrl(history, pos, 0)
    /\ timer' = FALSE
    /\ backs' = 0
    /\ UNCHANGED media

-----------------------------------------------------------------------------
(* Filters.  Every control but the search field writes the address itself. *)

\* The tail of those handlers: filter with s, then push.
FilterWith(s) ==
    /\ state' = ApplyFilters(s)
    /\ Push(state', FALSE)
    /\ UNCHANGED <<media, timer, backs>>

\* Faulty variant: typing does not schedule the address.
TypeUnscheduled(q) ==
    /\ IndexShown
    /\ state' = ApplyFilters(Prepared([state EXCEPT !.query = q]))
    /\ view' = PreparedView
    /\ UNCHANGED <<media, history, pos, timer, backs>>

Type(q) ==
    /\ IndexShown
    /\ state' = ApplyFilters(Prepared([state EXCEPT !.query = q]))
    /\ view' = PreparedView
    /\ timer' = TRUE
    /\ UNCHANGED <<media, history, pos, backs>>

UrlTimerFires ==
    /\ timer
    /\ timer' = FALSE
    /\ Replace(state, FALSE)
    /\ UNCHANGED <<state, view, media, backs>>

ChooseScope(v) ==
    /\ IndexShown
    /\ v # state.scope
    /\ FilterWith(Prepared([state EXCEPT !.scope = v,
                                         !.status = IF v = "all" THEN @ ELSE ""]))
    /\ view' = PreparedView

ChooseStatus(v) ==
    /\ IndexShown
    /\ v # state.status
    /\ FilterWith(Prepared([state EXCEPT !.status = v,
                                         !.scope = IF v = "" THEN @ ELSE "all"]))
    /\ view' = PreparedView

ChooseSort(v) ==
    /\ IndexShown
    /\ v # state.sort
    /\ FilterWith(Prepared([state EXCEPT !.sort = v]))
    /\ view' = PreparedView

\* setTag.
Toggled(tags, t) == IF t \in tags THEN tags \ {t} ELSE tags \cup {t}

\* A checkbox of the tag panel.
ChooseTag(t) ==
    /\ IndexShown
    /\ FilterWith(Prepared([state EXCEPT !.tags = Toggled(@, t)]))
    /\ view' = PreparedView

ClearTags ==
    /\ IndexShown
    /\ state.tags # {}
    /\ FilterWith(Prepared([state EXCEPT !.tags = {}]))
    /\ view' = PreparedView

\* The chip of the first selected tag.  It does not prepare.
RemoveChip(t) ==
    /\ IndexShown
    /\ t \in state.tags
    /\ \A u \in state.tags : t <= u
    /\ FilterWith([state EXCEPT !.tags = @ \ {t}])
    /\ UNCHANGED view

\* A tag button of the detail pane.
DetailTag(t) ==
    /\ DetailShown
    /\ t \in Catalog[state.selected].tags
    /\ FilterWith(Prepared([state EXCEPT !.tags = Toggled(@, t)]))
    /\ view' = PreparedView

Reset ==
    /\ IndexShown
    /\ <<state.query, state.scope, state.status, state.sort, state.tags>>
           # <<"", "all", "", "", {}>>
    /\ FilterWith([DefaultState EXCEPT !.selected = state.selected])
    /\ view' = "results"

-----------------------------------------------------------------------------
(* Selection.                                                              *)

\* Faulty variant: a record opened on a narrow viewport replaces the entry.
SelectInPlace(r, showDetail) ==
    /\ IndexShown
    /\ r \in Visible(state)
    /\ state' = [state EXCEPT !.selected = r, !.explicit = ~media.narrow \/ showDetail]
    /\ view' = IF media.narrow /\ showDetail THEN "detail" ELSE view
    /\ Replace(state', media.narrow /\ showDetail)
    /\ UNCHANGED <<media, timer, backs>>

\* selectRecord.
SelectRecord(r, showDetail) ==
    /\ IndexShown
    /\ r \in Visible(state)
    /\ state' = [state EXCEPT !.selected = r, !.explicit = ~media.narrow \/ showDetail]
    /\ IF media.narrow /\ showDetail
       THEN view' = "detail" /\ Push(state', TRUE)
       ELSE UNCHANGED view /\ Replace(state', FALSE)
    /\ UNCHANGED <<media, timer, backs>>

\* A click on a row.
ClickRow(r) == SelectRecord(r, media.narrow)

\* Enter on the list; on a wide viewport it leaves for the record's own page.
EnterOpens == media.narrow /\ SelectRecord(state.selected, TRUE)

ListKey(key) ==
    /\ Visible(state) # {}
    /\ SelectRecord(AdjacentRecord(state, key), FALSE)

\* Faulty variant: the record is put away but stays chosen.
BackButtonKeepsSelection ==
    /\ media.narrow
    /\ DetailShown
    /\ view' = "results"
    /\ Replace(state, FALSE)
    /\ UNCHANGED <<state, media, timer, backs>>

\* The button of the detail pane, on display on a narrow viewport only.
BackButton ==
    /\ media.narrow
    /\ DetailShown
    /\ IF history[pos].detail
       THEN /\ backs < MaxBacks
            /\ backs' = backs + 1
            /\ UNCHANGED <<state, view, history, pos>>
       ELSE /\ state' = [state EXCEPT !.explicit = FALSE]
            /\ view' = "results"
            /\ Replace(state', FALSE)
            /\ UNCHANGED backs
    /\ UNCHANGED <<media, timer>>

-----------------------------------------------------------------------------
(* Events of the browser.                                                  *)

\* Faulty variant: the results start again at the first record.
PopStateForgets(at) == ReadUrl(history, at, 0) /\ UNCHANGED <<media, timer>>

\* popstate: the browser has moved to entry at.  Coming from the narrow detail
\* pane, its record stays the current one of the list.
PopState(at) ==
    /\ ReadUrl(history, at, IF media.narrow /\ view = "detail" THEN state.selected ELSE 0)
    /\ UNCHANGED <<media, timer>>

\* A history.back() of the Back button is carried out.  Before entry 1 lies
\* another page, where the model ends.
BackCarriedOut ==
    /\ backs > 0
    /\ pos > 1
    /\ backs' = backs - 1
    /\ PopState(pos - 1)

\* The browser's own Back and Forward buttons.
BrowserBack == pos > 1 /\ PopState(pos - 1) /\ UNCHANGED backs

BrowserForward == pos < Len(history) /\ PopState(pos + 1) /\ UNCHANGED backs

\* The viewport crosses the breakpoint; the reader is told later.
ViewportResized ==
    /\ media.reported
    /\ media' = [narrow |-> ~media.narrow, reported |-> FALSE]
    /\ UNCHANGED <<state, view, history, pos, timer, backs>>

ViewportReported ==
    /\ ~media.reported
    /\ media' = [media EXCEPT !.reported = TRUE]
    /\ view' = IF media.narrow /\ state.explicit THEN "detail" ELSE "results"
    /\ UNCHANGED <<state, history, pos, timer, backs>>

ListKeys == {"ArrowDown", "ArrowUp", "Home", "End"}

Next ==
    \/ Reload
    \/ \E q \in Queries \cup {""} : Type(q)
    \/ UrlTimerFires
    \/ \E v \in Scopes : ChooseScope(v)
    \/ \E v \in Statuses \cup {""} : ChooseStatus(v)
    \/ \E v \in Sorts : ChooseSort(v)
    \/ \E t \in Tags : ChooseTag(t) \/ RemoveChip(t) \/ DetailTag(t)
    \/ ClearTags
    \/ Reset
    \/ \E r \in Records : ClickRow(r)
    \/ EnterOpens
    \/ \E key \in ListKeys : ListKey(key)
    \/ BackButton
    \/ BackCarriedOut
    \/ BrowserBack
    \/ BrowserForward
    \/ ViewportResized
    \/ ViewportReported

Spec == Init /\ [][Next]_vars

-----------------------------------------------------------------------------
(* Properties.                                                             *)

\* The type invariant.  A status filter excludes a scope, so that a filter has
\* one meaning however it was reached.
TypeOK ==
    /\ state \in State
    /\ state.status # "" => state.scope = "all"
    /\ view \in {"results", "detail"}
    /\ media \in [narrow : BOOLEAN, reported : BOOLEAN]
    /\ history \in Seq(Entry)
    /\ pos \in 1..Len(history)
    /\ Len(history) <= MaxHistory
    /\ timer \in BOOLEAN
    /\ backs \in 0..MaxBacks

\* The list's current record is one of the listed ones, and there is one
\* unless the list is empty: the detail pane never shows a filtered-out RFC.
SelectionVisible ==
    IF Visible(state) = {} THEN state.selected = 0 ELSE state.selected \in Visible(state)

\* Two states a link need not tell apart: the current record of the list is
\* part of a link only when the reader chose it.
SameForLink(s, t) ==
    /\ [s EXCEPT !.selected = 0] = [t EXCEPT !.selected = 0]
    /\ s.explicit => s.selected = t.selected

\* When no typed query is on its way to the address, opening or reloading the
\* address gives the filters and the selection the reader is looking at.
UrlRestores == ~timer => SameForLink(state, ApplyFilters(ReadParams(history[pos].params)))

\* A narrow viewport shows the detail pane exactly while a record is chosen:
\* no sequence of filters, resizes and history moves hides both the results
\* and the record the reader asked for.
PaneMatchesSelection ==
    media.reported => (view = "detail" <=> media.narrow /\ state.explicit)

\* The Back button of the detail pane asks the browser to go back only on an
\* entry that this page pushed for a record, with another one before it.
MarkedEntriesArePushed ==
    \A k \in 1..Len(history) :
        history[k].detail => k > 1 /\ history[k].params.rfc # 0

\* Going back from the narrow detail pane to results that still list its
\* record keeps the reader's place in the list.
BackKeepsPlace ==
    [][ (BackCarriedOut \/ BrowserBack)
          /\ media.narrow /\ view = "detail" /\ ~state'.explicit
          /\ state.selected \in Visible(state')
        => state'.selected = state.selected ]_vars
=============================================================================
