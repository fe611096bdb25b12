-------------------------- MODULE ArchitectureTour --------------------------
(***************************************************************************)
(* The automatic tour over the five layers of the system path, on the      *)
(* architecture page of the documentation site                             *)
(* (docs/javascripts/crystalline.js).                                      *)
(*                                                                         *)
(* Every call of initializeCrystalArchitecture leaves one closure behind:  *)
(* tours[i] holds the variables of the i-th.  The site swaps pages without *)
(* a reload, so a closure that is not disposed of outlives its page.  The  *)
(* handlers run one at a time on the page's thread; between two of them    *)
(* the browser may change what they read: the motion preference, the       *)
(* visibility of the tab, the scroll position.  A motion change and an     *)
(* intersection record reach their handler later than they happen.         *)
(*                                                                         *)
(* A pending window.setTimeout is the closure's index in timers: at most   *)
(* one per closure, since scheduling clears first.  clearTimeout removes   *)
(* the callback, so the generation test of line 238 never decides and is   *)
(* left out.  Texts, ARIA attributes, scrolling and focus are left out;    *)
(* the URL is any value a listener may read from it.                       *)
(***************************************************************************)
EXTENDS Naturals, Sequences

CONSTANTS
    LayerOrder,  \* Object.keys(layers)
    NoLayer,     \* no layer is on display
    Regions,     \* the parts of the path that hold the tour while the pointer is in
    LayerRegions, \* those of them that contain stages or hotspots
    MaxDocs,     \* bound: documents displayed in a run
    MaxTours,    \* bound: closures created in a run
    MaxRecords   \* bound: intersection records not yet delivered

Layers == {LayerOrder[k] : k \in 1..Len(LayerOrder)}

ASSUME LayerAssumption ==
    /\ LayerOrder \in Seq(Layers)
    /\ Len(LayerOrder) > 0
    /\ NoLayer \notin Layers

ASSUME RegionAssumption == LayerRegions \subseteq Regions

ASSUME BoundAssumption == MaxDocs \in Nat /\ MaxTours \in Nat /\ MaxRecords \in Nat

VARIABLES
    doc,       \* number of the document on display
    tours,     \* the closures, in order of creation
    live,      \* the one that has not been disposed of, 0 if none
    timers,    \* closures with a pending timeout
    dom,       \* what the displayed document shows
    media,     \* prefers-reduced-motion, and whether its change was reported
    shown,     \* document.visibilityState = "visible"
    onScreen,  \* the path really intersects the viewport
    records    \* intersection records queued for the observer

env == <<doc, media, shown, onScreen, records>>
vars == <<env, tours, live, timers, dom>>

Tour == [doc : Nat, layer : Layers, requested : BOOLEAN, optIn : BOOLEAN,
         seen : BOOLEAN, hovered : SUBSET Regions]

Status == {"touring", "inspecting", "waiting", "reduced", "paused", "absent"}

Page == [layer : Layers \cup {NoLayer}, touring : BOOLEAN, status : Status]

NoPath == [layer |-> NoLayer, touring |-> FALSE, status |-> "absent"]

-----------------------------------------------------------------------------
(* architectureTourContract.                                               *)

IndexOf(l) == CHOOSE k \in 1..Len(LayerOrder) : LayerOrder[k] = l

\* Faulty variant: the tour stays on the last layer.
NextLayerNoWrap(l) ==
    LayerOrder[IF IndexOf(l) < Len(LayerOrder) THEN IndexOf(l) + 1 ELSE IndexOf(l)]

NextLayer(l) == LayerOrder[(IndexOf(l) % Len(LayerOrder)) + 1]

KeyboardIndex(k, key, length) ==
    CASE key = "ArrowLeft"  -> IF k = 1 THEN length ELSE k - 1
      [] key = "ArrowRight" -> (k % length) + 1
      [] key = "Home"       -> 1
      [] key = "End"        -> length

StartsAutomatically(reduced) == ~reduced

-----------------------------------------------------------------------------
(* The closure's helpers.  c is the closure's state as the handler leaves  *)
(* it, visible the tab's visibility the handler reads.                     *)

CanRunTour(c, visible) ==
    /\ c.requested
    /\ visible
    /\ c.seen
    /\ c.hovered = {}
    /\ ~media.matches \/ c.optIn

StatusOf(c) ==
    CASE c.requested /\ c.hovered # {}           -> "inspecting"
      [] c.requested /\ c.hovered = {} /\ ~c.seen -> "waiting"
      [] c.requested /\ c.hovered = {} /\ c.seen  -> "touring"
      [] ~c.requested /\ media.matches            -> "reduced"
      [] ~c.requested /\ ~media.matches           -> "paused"

Shows(c, touring) == [layer |-> c.layer, touring |-> touring, status |-> StatusOf(c)]

\* Closure i becomes c; its timeout is pending, and its root is-touring, iff on.
\* A closure of a page that was swapped out writes to elements nobody sees.
Put(i, c, on) ==
    /\ tours' = [tours EXCEPT ![i] = c]
    /\ timers' = IF on THEN timers \cup {i} ELSE timers \ {i}
    /\ dom' = IF c.doc = doc THEN Shows(c, on) ELSE dom

\* clearTourTimer and updateTourUi.
Clear(i, c) == Put(i, c, FALSE)

\* Faulty variant: the tour is armed whatever canRunTour says.
ScheduleUnguarded(i, c) == Put(i, c, c.requested)

ScheduleTour(i, c) == Put(i, c, CanRunTour(c, shown))

\* stopTour.
Stopped(c) == [c EXCEPT !.requested = FALSE, !.optIn = FALSE]

NewTour(d, l) ==
    [doc |-> d, layer |-> l, requested |-> StartsAutomatically(media.matches),
     optIn |-> FALSE, seen |-> TRUE, hovered |-> {}]

-----------------------------------------------------------------------------

Init ==
    /\ doc = 1
    /\ media \in [matches : BOOLEAN, reported : {TRUE}]
    /\ shown \in BOOLEAN
    /\ onScreen \in BOOLEAN
    /\ records = <<onScreen>>
    /\ live = 1
    /\ \E l \in Layers :
          LET c == NewTour(1, l)
          IN  /\ tours = <<c>>
              /\ timers = IF CanRunTour(c, shown) THEN {1} ELSE {}
              /\ dom = Shows(c, CanRunTour(c, shown))

\* The timeout of closure i runs out.  It does not look at the page: a closure
\* that was not disposed of would go on.
TimerFires(i) ==
    /\ i \in timers
    /\ IF CanRunTour(tours[i], shown)
       THEN ScheduleTour(i, [tours[i] EXCEPT !.layer = NextLayer(@)])
       ELSE /\ timers' = timers \ {i}
            /\ UNCHANGED <<tours, dom>>
    /\ UNCHANGED <<env, live>>

\* A click on a stage or a hotspot: selectManually.
SelectManually(l) ==
    /\ live # 0
    /\ Clear(live, [Stopped(tours[live]) EXCEPT !.layer = l])
    /\ UNCHANGED <<env, live>>

\* Faulty variant: an arrow key moves the selection but the tour goes on.
PressKeyKeepsTour(k, key) ==
    /\ live # 0
    /\ LET l == LayerOrder[KeyboardIndex(k, key, Len(LayerOrder))]
       IN  ScheduleTour(live, [tours[live] EXCEPT !.layer = l])
    /\ UNCHANGED <<env, live>>

\* A key on the stage button at position k.
PressKey(k, key) == SelectManually(LayerOrder[KeyboardIndex(k, key, Len(LayerOrder))])

\* The pointer enters a stage or a hotspot; it has entered the region around it.
Preview(l) ==
    /\ live # 0
    /\ tours[live].hovered \cap LayerRegions # {}
    /\ tours' = [tours EXCEPT ![live].layer = l]
    /\ dom' = Shows(tours'[live], dom.touring)
    /\ UNCHANGED <<env, live, timers>>

EnterRegion(r) ==
    /\ live # 0
    /\ r \notin tours[live].hovered
    /\ Clear(live, [tours[live] EXCEPT !.hovered = @ \cup {r}])
    /\ UNCHANGED <<env, live>>

LeaveRegion(r) ==
    /\ live # 0
    /\ r \in tours[live].hovered
    /\ ScheduleTour(live, [tours[live] EXCEPT !.hovered = @ \ {r}])
    /\ UNCHANGED <<env, live>>

\* Focus moves to an element of the path other than the toggle.
FocusIn ==
    /\ live # 0
    /\ Clear(live, Stopped(tours[live]))
    /\ UNCHANGED <<env, live>>

Toggle ==
    /\ live # 0
    /\ IF tours[live].requested
       THEN Clear(live, Stopped(tours[live]))
       ELSE ScheduleTour(live, [tours[live] EXCEPT !.requested = TRUE,
                                                  !.optIn = media.matches])
    /\ UNCHANGED <<env, live>>

\* Faulty variant: the tour of a hidden tab is not resumed.
VisibilityNotResumed ==
    /\ shown' = ~shown
    /\ IF live = 0 \/ shown'
       THEN UNCHANGED <<tours, timers, dom>>
       ELSE /\ timers' = timers \ {live}
            /\ dom' = [dom EXCEPT !.touring = FALSE]
            /\ UNCHANGED tours
    /\ UNCHANGED <<doc, media, onScreen, records, live>>

\* visibilitychange.  Hiding clears the timer and leaves the texts alone.
VisibilityChange ==
    /\ shown' = ~shown
    /\ IF live = 0
       THEN UNCHANGED <<tours, timers, dom>>
       ELSE IF shown'
            THEN Put(live, tours[live], CanRunTour(tours[live], TRUE))
            ELSE /\ timers' = timers \ {live}
                 /\ dom' = [dom EXCEPT !.touring = FALSE]
                 /\ UNCHANGED tours
    /\ UNCHANGED <<doc, media, onScreen, records, live>>

\* The motion preference flips; its change event is now pending.
MediaFlips ==
    /\ media.reported
    /\ media' = [matches |-> ~media.matches, reported |-> FALSE]
    /\ UNCHANGED <<doc, shown, onScreen, records, tours, live, timers, dom>>

MediaReported ==
    /\ ~media.reported
    /\ media' = [media EXCEPT !.reported = TRUE]
    /\ IF live = 0
       THEN UNCHANGED <<tours, timers, dom>>
       ELSE IF media.matches
            THEN Clear(live, Stopped(tours[live]))
            ELSE /\ dom' = Shows(tours[live], dom.touring)
                 /\ UNCHANGED <<tours, timers>>
    /\ UNCHANGED <<doc, shown, onScreen, records, live>>

\* Back or Forward reaches an entry of this page whose URL names layer l.
PopState(l) == SelectManually(l)

\* Scrolling takes the path across the observer's threshold.
PathCrossesView ==
    /\ live # 0
    /\ Len(records) < MaxRecords
    /\ onScreen' = ~onScreen
    /\ records' = Append(records, onScreen')
    /\ UNCHANGED <<doc, media, shown, tours, live, timers, dom>>

\* The observer's callback gets every queued record and reads the first.
RecordsDelivered ==
    /\ live # 0
    /\ records # <<>>
    /\ LET c == [tours[live] EXCEPT !.seen = Head(records)]
       IN  IF Head(records) THEN ScheduleTour(live, c) ELSE Clear(live, c)
    /\ records' = <<>>
    /\ UNCHANGED <<doc, media, shown, onScreen, live>>

\* Faulty variant: the timeout of the old closure stays pending.
TimersUndisposed == timers

\* The pending timeouts once the live closure has been disposed of.
TimersDisposed == timers \ {live}

\* Faulty variant: the path is looked for before the old closure is disposed of.
LeavePathUndisposed ==
    /\ dom' = NoPath
    /\ UNCHANGED <<live, timers, records, tours, onScreen>>

\* The document on display has no system path: dispose, and that is all.
LeavePath ==
    /\ live' = 0
    /\ timers' = TimersDisposed
    /\ dom' = NoPath
    /\ records' = <<>>
    /\ UNCHANGED <<tours, onScreen>>

\* It has one: dispose of the old closure, then select, observe and schedule
\* in a new one.
EnterPath(d, l) ==
    LET c == NewTour(d, l)
        on == CanRunTour(c, shown)
    IN  /\ Len(tours) < MaxTours
        /\ tours' = Append(tours, c)
        /\ live' = Len(tours')
        /\ timers' = TimersDisposed \cup (IF on THEN {live'} ELSE {})
        /\ dom' = Shows(c, on)
        /\ onScreen' \in BOOLEAN
        /\ records' = <<onScreen'>>

\* Instant navigation displays another document.
LoadDocument(hasPath, l) ==
    /\ doc < MaxDocs
    /\ doc' = doc + 1
    /\ IF hasPath THEN EnterPath(doc', l) ELSE LeavePath
    /\ UNCHANGED <<media, shown>>

\* document$ emits again for the document on display, which happens before any
\* pointer event can reach it.
Reinitialize(l) ==
    /\ live # 0
    /\ tours[live].hovered = {}
    /\ EnterPath(doc, l)
    /\ UNCHANGED <<doc, media, shown>>

Keys == {"ArrowLeft", "ArrowRight", "Home", "End"}

Next ==
    \/ \E i \in 1..MaxTours : TimerFires(i)
    \/ \E l \in Layers : SelectManually(l) \/ Preview(l) \/ PopState(l) \/ Reinitialize(l)
    \/ \E k \in 1..Len(LayerOrder), key \in Keys : PressKey(k, key)
    \/ \E r \in Regions : EnterRegion(r) \/ LeaveRegion(r)
    \/ FocusIn
    \/ Toggle
    \/ VisibilityChange
    \/ MediaFlips
    \/ MediaReported
    \/ PathCrossesView
    \/ RecordsDelivered
    \/ \E hasPath \in BOOLEAN, l \in Layers : LoadDocument(hasPath, l)

Spec == Init /\ [][Next]_vars

\* A pending timeout runs out unless it is cleared.
FairSpec == Spec /\ \A i \in 1..MaxTours : WF_vars(TimerFires(i))

-----------------------------------------------------------------------------
(* Properties.                                                             *)

\* The type invariant; the live closure, if any, is one of the displayed
\* document.
TypeOK ==
    /\ doc \in Nat
    /\ tours \in Seq(Tour)
    /\ live \in 0..Len(tours)
    /\ timers \subseteq 1..Len(tours)
    /\ dom \in Page
    /\ media \in [matches : BOOLEAN, reported : BOOLEAN]
    /\ shown \in BOOLEAN
    /\ onScreen \in BOOLEAN
    /\ records \in Seq(BOOLEAN)
    /\ live = 0 => dom = NoPath
    /\ live # 0 => tours[live].doc = doc

\* Re-initialization is safe (crystalline.js, the comment before the document$
\* subscription): no timeout of a disposed closure is pending, so no closure of
\* an earlier page or an earlier pass moves the layer of this one.
NoZombieTimer == timers \subseteq {live}

\* Once a motion change has been reported, the tour is armed exactly when all
\* the conditions of canRunTour hold: no handler forgets to stop or resume it.
ArmedIffRunnable ==
    live # 0 /\ media.reported
        => (live \in timers <=> CanRunTour(tours[live], shown))

\* In a visible tab the page tells the truth: it says "Automatic tour", and
\* animates, exactly when a timeout will move it on.
StatusTruthful ==
    live # 0 /\ shown /\ media.reported
        => /\ dom.touring <=> live \in timers
           /\ dom.status = "touring" <=> live \in timers
           /\ dom.layer = tours[live].layer

\* The tour implements the carousel the reader is promised.
Promise ==
    INSTANCE Carousel WITH
        layer <- dom.layer,
        wanted <- live # 0 /\ tours[live].requested,
        playing <- live \in timers,
        visit <- doc + Len(tours)

KeepsPromise == Promise!Spec

LiveCanRun == live # 0 /\ CanRunTour(tours[live], shown)

\* A tour that is free to run, and no longer rescheduled by the observer,
\* visits every layer again and again.
TourKeepsMoving ==
    <>[](LiveCanRun /\ records = <<>> /\ media.reported)
        => \A l \in Layers : []<>(dom.layer = l)
=============================================================================
