----------------------- MODULE ArchitectureTourProofs -----------------------
(***************************************************************************)
(* Proofs about the architecture tour, for every order of layers and every *)
(* bound.  The inductive invariant says, besides the properties, why they  *)
(* hold: the page is what the live closure last painted, and under a       *)
(* reported preference for reduced motion only an explicit start is a      *)
(* request.  Nearly every handler ends in Put with the timer armed exactly *)
(* when canRunTour holds, so one lemma covers them.                        *)
(***************************************************************************)
EXTENDS ArchitectureTour, SequenceTheorems, TLAPS

\* The preference the browser shows has been handled, or asks for nothing.
MotionHandled == media.reported \/ ~media.matches

ArmedCanRun ==
    live # 0 /\ MotionHandled => (live \in timers <=> CanRunTour(tours[live], shown))

ArmedIsWanted ==
    live \in timers => tours[live].requested /\ tours[live].hovered = {}

ReducedMeansOptIn ==
    live # 0 /\ media.reported /\ media.matches /\ tours[live].requested
        => tours[live].optIn

PageIsPainted ==
    live # 0 =>
        /\ dom.layer = tours[live].layer
        /\ dom.status = "touring" <=> /\ tours[live].requested
                                      /\ tours[live].seen
                                      /\ tours[live].hovered = {}
        /\ shown /\ MotionHandled => (dom.touring <=> live \in timers)

TourInv ==
    /\ TypeOK
    /\ NoZombieTimer
    /\ ArmedCanRun
    /\ ArmedIsWanted
    /\ ReducedMeansOptIn
    /\ PageIsPainted

-----------------------------------------------------------------------------

LEMMA IndexType ==
    ASSUME NEW l \in Layers
    PROVE  IndexOf(l) \in 1..Len(LayerOrder)
BY DEF IndexOf, Layers

LEMMA PositionIsLayer ==
    ASSUME NEW k \in 1..Len(LayerOrder)
    PROVE  LayerOrder[k] \in Layers
BY DEF Layers

LEMMA NextLayerType ==
    ASSUME NEW l \in Layers
    PROVE  NextLayer(l) \in Layers
<1> DEFINE n == Len(LayerOrder)
<1>1. n \in Nat /\ n > 0 /\ IndexOf(l) \in 1..n
    BY LayerAssumption, IndexType
<1>2. IndexOf(l) % n \in 0..(n - 1)
    BY <1>1
<1>3. (IndexOf(l) % n) + 1 \in 1..n
    BY <1>1, <1>2
<1> QED
    BY <1>3, PositionIsLayer DEF NextLayer

LEMMA KeyboardIndexType ==
    ASSUME NEW k \in 1..Len(LayerOrder), NEW key \in Keys
    PROVE  LayerOrder[KeyboardIndex(k, key, Len(LayerOrder))] \in Layers
<1> DEFINE n == Len(LayerOrder)
<1>1. n \in Nat /\ n > 0 /\ k \in 1..n
    BY LayerAssumption
<1>2. (k % n) + 1 \in 1..n
    BY <1>1
<1>3. KeyboardIndex(k, key, n) \in 1..n
    BY <1>1, <1>2 DEF KeyboardIndex, Keys
<1> QED
    BY <1>3, PositionIsLayer

LEMMA StatusType ==
    ASSUME NEW c \in Tour, media \in [matches : BOOLEAN, reported : BOOLEAN]
    PROVE  /\ StatusOf(c) \in Status
           /\ StatusOf(c) = "touring" <=> c.requested /\ c.seen /\ c.hovered = {}
BY DEF StatusOf, Status, Tour

LEMMA ShowsType ==
    ASSUME NEW c \in Tour, NEW on \in BOOLEAN,
           media \in [matches : BOOLEAN, reported : BOOLEAN]
    PROVE  /\ Shows(c, on) \in Page
           /\ Shows(c, on).layer = c.layer
           /\ Shows(c, on).touring = on
           /\ Shows(c, on).status = "touring"
                <=> c.requested /\ c.seen /\ c.hovered = {}
BY StatusType DEF Shows, Page, Tour

LEMMA RunType ==
    ASSUME NEW c \in Tour, NEW v \in BOOLEAN,
           media \in [matches : BOOLEAN, reported : BOOLEAN]
    PROVE  CanRunTour(c, v) \in BOOLEAN
BY DEF CanRunTour, Tour

-----------------------------------------------------------------------------
(* The common case: the live closure becomes c, armed iff it can run.      *)

Repainted(c, on) ==
    /\ live # 0
    /\ c \in Tour
    /\ c.doc = doc
    /\ on \in BOOLEAN
    /\ on <=> CanRunTour(c, shown')
    /\ Put(live, c, on)
    /\ UNCHANGED <<doc, live>>
    /\ shown' \in BOOLEAN
    /\ onScreen' \in BOOLEAN
    /\ records' \in Seq(BOOLEAN)
    /\ media' \in [matches : BOOLEAN, reported : BOOLEAN]
    /\ media'.matches = media.matches
    /\ media'.reported /\ media.matches /\ c.requested => c.optIn

LEMMA PutPreserves ==
    ASSUME TourInv, NEW c, NEW on, Repainted(c, on)
    PROVE  TourInv'
<1> USE DEF Repainted, TourInv, Put
<1>1. live \in 1..Len(tours) /\ tours'[live] = c /\ Len(tours') = Len(tours)
    BY DEF TypeOK
<1>2. dom' = Shows(c, on)
    OBVIOUS
<1>3. media \in [matches : BOOLEAN, reported : BOOLEAN]
    BY DEF TypeOK
<1>4. /\ dom' \in Page
      /\ dom'.layer = c.layer
      /\ dom'.touring = on
      /\ dom'.status = "touring" <=> c.requested /\ c.seen /\ c.hovered = {}
    BY <1>2, <1>3, ShowsType
<1>5. live' \in timers' <=> on
    OBVIOUS
<1>6. TypeOK'
    <2>1. tours' \in Seq(Tour)
        BY <1>1 DEF TypeOK
    <2>2. timers' \subseteq 1..Len(tours')
        BY <1>1 DEF TypeOK
    <2> QED
        BY <1>1, <1>4, <2>1, <2>2 DEF TypeOK
<1>7. NoZombieTimer'
    BY DEF NoZombieTimer
<1>8. CanRunTour(tours[live], shown)' <=> on
    BY <1>1 DEF CanRunTour
<1>9. ArmedCanRun'
    BY <1>5, <1>8 DEF ArmedCanRun
<1>10. ArmedIsWanted'
    BY <1>1, <1>5, <1>8 DEF ArmedIsWanted, CanRunTour
<1>11. ReducedMeansOptIn'
    BY <1>1 DEF ReducedMeansOptIn
<1>12. PageIsPainted'
    BY <1>1, <1>4, <1>5 DEF PageIsPainted
<1> QED
    BY <1>6, <1>7, <1>9, <1>10, <1>11, <1>12

-----------------------------------------------------------------------------
(* One lemma per action of another kind.                                   *)

LEMMA LiveClosure ==
    ASSUME TourInv, live # 0
    PROVE  /\ live \in 1..Len(tours)
           /\ tours[live] \in Tour
           /\ tours[live].doc = doc
BY DEF TourInv, TypeOK

LEMMA StoppedType ==
    ASSUME NEW c \in Tour, NEW l \in Layers
    PROVE  /\ Stopped(c) \in Tour
           /\ [Stopped(c) EXCEPT !.layer = l] \in Tour
           /\ Stopped(c).doc = c.doc
           /\ ~Stopped(c).requested
BY DEF Stopped, Tour

LEMMA TimerStep ==
    ASSUME TourInv, NEW i \in 1..MaxTours, TimerFires(i)
    PROVE  TourInv'
<1> USE DEF TimerFires, env
<1>1. i = live /\ live # 0
    BY DEF TourInv, TypeOK, NoZombieTimer
<1>2. tours[live] \in Tour /\ tours[live].doc = doc
    BY <1>1, LiveClosure
<1>3. shown \in BOOLEAN /\ media \in [matches : BOOLEAN, reported : BOOLEAN]
      /\ onScreen \in BOOLEAN /\ records \in Seq(BOOLEAN)
    BY DEF TourInv, TypeOK
<1>4. CASE CanRunTour(tours[i], shown)
    <2> DEFINE c == [tours[live] EXCEPT !.layer = NextLayer(@)]
    <2>1. c \in Tour /\ c.doc = doc
        BY <1>2, NextLayerType DEF Tour
    <2>2. Put(live, c, CanRunTour(c, shown))
        BY <1>1, <1>4 DEF ScheduleTour
    <2>3. media.reported /\ media.matches /\ c.requested => c.optIn
        BY <1>1, <1>2 DEF TourInv, ReducedMeansOptIn, Tour
    <2>4. Repainted(c, CanRunTour(c, shown))
        BY <1>1, <1>3, <2>1, <2>2, <2>3, RunType DEF Repainted
    <2> QED
        BY <2>4, PutPreserves
<1>5. CASE ~CanRunTour(tours[i], shown)
    <2>1. ~MotionHandled
        BY <1>1, <1>5 DEF TourInv, ArmedCanRun
    <2> QED
        BY <1>1, <1>5, <2>1 DEF TourInv, TypeOK, NoZombieTimer, ArmedCanRun, ArmedIsWanted,
            ReducedMeansOptIn, PageIsPainted, MotionHandled
<1> QED
    BY <1>4, <1>5

LEMMA ManualStep ==
    ASSUME TourInv, NEW l \in Layers, SelectManually(l)
    PROVE  TourInv'
<1> USE DEF SelectManually, env
<1> DEFINE c == [Stopped(tours[live]) EXCEPT !.layer = l]
<1>1. tours[live] \in Tour /\ tours[live].doc = doc
    BY LiveClosure
<1>2. c \in Tour /\ c.doc = doc /\ ~c.requested
    BY <1>1, StoppedType DEF Stopped, Tour
<1>3. Repainted(c, FALSE)
    BY <1>2 DEF Repainted, Clear, CanRunTour, TourInv, TypeOK
<1> QED
    BY <1>3, PutPreserves

LEMMA PreviewStep ==
    ASSUME TourInv, NEW l \in Layers, Preview(l)
    PROVE  TourInv'
<1> USE DEF Preview, env
<1> DEFINE c == [tours[live] EXCEPT !.layer = l]
<1>1. live \in 1..Len(tours) /\ tours[live] \in Tour /\ tours[live].doc = doc
    BY LiveClosure
<1>2. c \in Tour /\ c.doc = doc
    BY <1>1 DEF Tour
<1>3. tours'[live] = c /\ tours' \in Seq(Tour) /\ Len(tours') = Len(tours)
    BY <1>1, <1>2 DEF TourInv, TypeOK
<1>4. dom.touring \in BOOLEAN /\ media \in [matches : BOOLEAN, reported : BOOLEAN]
    BY DEF TourInv, TypeOK, Page
<1>5. /\ dom' \in Page
      /\ dom'.layer = c.layer
      /\ dom'.touring = dom.touring
      /\ dom'.status = "touring" <=> c.requested /\ c.seen /\ c.hovered = {}
    BY <1>2, <1>3, <1>4, ShowsType
<1>6. /\ c.requested = tours[live].requested
      /\ c.optIn = tours[live].optIn
      /\ c.seen = tours[live].seen
      /\ c.hovered = tours[live].hovered
    BY <1>1 DEF Tour
<1>7. TypeOK'
    BY <1>2, <1>3, <1>5 DEF TourInv, TypeOK
<1>8. CanRunTour(tours[live], shown)' <=> CanRunTour(tours[live], shown)
    BY <1>3, <1>6 DEF CanRunTour
<1> QED
    BY <1>3, <1>5, <1>6, <1>7, <1>8 DEF TourInv, NoZombieTimer, ArmedCanRun, ArmedIsWanted,
        ReducedMeansOptIn, PageIsPainted, MotionHandled

LEMMA EnterRegionStep ==
    ASSUME TourInv, NEW r \in Regions, EnterRegion(r)
    PROVE  TourInv'
<1> USE DEF EnterRegion, env
<1> DEFINE c == [tours[live] EXCEPT !.hovered = @ \cup {r}]
<1>1. tours[live] \in Tour /\ tours[live].doc = doc
    BY LiveClosure
<1>2. c \in Tour /\ c.doc = doc /\ c.hovered # {}
    BY <1>1 DEF Tour
<1>3. media.reported /\ media.matches /\ c.requested => c.optIn
    BY <1>1 DEF TourInv, ReducedMeansOptIn, Tour
<1>4. Repainted(c, FALSE)
    BY <1>2, <1>3 DEF Repainted, Clear, CanRunTour, TourInv, TypeOK
<1> QED
    BY <1>4, PutPreserves

LEMMA LeaveRegionStep ==
    ASSUME TourInv, NEW r \in Regions, LeaveRegion(r)
    PROVE  TourInv'
<1> USE DEF LeaveRegion, env
<1> DEFINE c == [tours[live] EXCEPT !.hovered = @ \ {r}]
<1>1. tours[live] \in Tour /\ tours[live].doc = doc
    BY LiveClosure
<1>2. c \in Tour /\ c.doc = doc
    BY <1>1 DEF Tour
<1>3. media.reported /\ media.matches /\ c.requested => c.optIn
    BY <1>1 DEF TourInv, ReducedMeansOptIn, Tour
<1>4. Repainted(c, CanRunTour(c, shown))
    BY <1>2, <1>3, RunType DEF Repainted, ScheduleTour, TourInv, TypeOK
<1> QED
    BY <1>4, PutPreserves

LEMMA StopStep ==
    ASSUME TourInv, live # 0, Clear(live, Stopped(tours[live])), UNCHANGED <<env, live>>
    PROVE  TourInv'
<1> USE DEF env
<1>1. tours[live] \in Tour /\ tours[live].doc = doc
    BY LiveClosure
<1>2. Stopped(tours[live]) \in Tour /\ Stopped(tours[live]).doc = doc
      /\ ~Stopped(tours[live]).requested
    BY <1>1 DEF Stopped, Tour
<1>3. Repainted(Stopped(tours[live]), FALSE)
    BY <1>2 DEF Repainted, Clear, CanRunTour, TourInv, TypeOK
<1> QED
    BY <1>3, PutPreserves

LEMMA ToggleStep ==
    ASSUME TourInv, Toggle
    PROVE  TourInv'
<1> USE DEF Toggle
<1>1. CASE tours[live].requested
    BY <1>1, StopStep
<1>2. CASE ~tours[live].requested
    <2> DEFINE c == [tours[live] EXCEPT !.requested = TRUE, !.optIn = media.matches]
    <2>1. tours[live] \in Tour /\ tours[live].doc = doc
        BY LiveClosure
    <2>2. media \in [matches : BOOLEAN, reported : BOOLEAN]
        BY DEF TourInv, TypeOK
    <2>3. c \in Tour /\ c.doc = doc /\ c.optIn = media.matches
        BY <2>1, <2>2 DEF Tour
    <2>4. Repainted(c, CanRunTour(c, shown))
        BY <1>2, <2>2, <2>3, RunType DEF Repainted, ScheduleTour, TourInv, TypeOK, env
    <2> QED
        BY <2>4, PutPreserves
<1> QED
    BY <1>1, <1>2

LEMMA VisibilityStep ==
    ASSUME TourInv, VisibilityChange
    PROVE  TourInv'
<1> USE DEF VisibilityChange
<1>1. CASE live = 0
    BY <1>1 DEF TourInv, TypeOK, NoZombieTimer, ArmedCanRun, ArmedIsWanted,
        ReducedMeansOptIn, PageIsPainted
<1>2. CASE live # 0 /\ shown'
    <2> DEFINE c == tours[live]
    <2>1. c \in Tour /\ c.doc = doc
        BY <1>2, LiveClosure
    <2>2. media.reported /\ media.matches /\ c.requested => c.optIn
        BY <1>2 DEF TourInv, ReducedMeansOptIn
    <2>3. shown' = TRUE
        BY <1>2 DEF TourInv, TypeOK
    <2>4. Repainted(c, CanRunTour(c, TRUE))
        BY <1>2, <2>1, <2>2, <2>3, RunType DEF Repainted, TourInv, TypeOK
    <2> QED
        BY <2>4, PutPreserves
<1>3. CASE live # 0 /\ ~shown'
    <2>1. ~CanRunTour(tours[live], shown)' /\ live \notin timers'
        BY <1>3 DEF CanRunTour
    <2>2. dom' = [dom EXCEPT !.touring = FALSE] /\ tours' = tours
        BY <1>3
    <2>3. dom' \in Page /\ dom'.layer = dom.layer /\ dom'.status = dom.status
        BY <2>2 DEF TourInv, TypeOK, Page
    <2> QED
        BY <1>3, <2>1, <2>2, <2>3 DEF TourInv, TypeOK, NoZombieTimer, ArmedCanRun,
            ArmedIsWanted, ReducedMeansOptIn, PageIsPainted
<1> QED
    BY <1>1, <1>2, <1>3

LEMMA MediaFlipsStep ==
    ASSUME TourInv, MediaFlips
    PROVE  TourInv'
<1> USE DEF MediaFlips
<1>1. /\ media' \in [matches : BOOLEAN, reported : BOOLEAN]
      /\ media'.matches = ~media.matches
      /\ media'.reported = FALSE
    BY DEF TourInv, TypeOK
<1>2. TypeOK' /\ NoZombieTimer' /\ ArmedIsWanted' /\ ReducedMeansOptIn'
    BY <1>1 DEF TourInv, TypeOK, NoZombieTimer, ArmedIsWanted, ReducedMeansOptIn
<1>3. ASSUME live # 0, media.matches
      PROVE  CanRunTour(tours[live], shown)' <=> CanRunTour(tours[live], shown)
    BY <1>1, <1>3 DEF CanRunTour, TourInv, ReducedMeansOptIn
<1>4. ArmedCanRun'
    BY <1>1, <1>3 DEF TourInv, TypeOK, ArmedCanRun, MotionHandled
<1>5. PageIsPainted'
    BY <1>1 DEF TourInv, TypeOK, PageIsPainted, MotionHandled
<1> QED
    BY <1>2, <1>4, <1>5 DEF TourInv

LEMMA MediaReportedStep ==
    ASSUME TourInv, MediaReported
    PROVE  TourInv'
<1> USE DEF MediaReported
<1>1. /\ media' \in [matches : BOOLEAN, reported : BOOLEAN]
      /\ media'.matches = media.matches
      /\ media'.reported = TRUE
    BY DEF TourInv, TypeOK
<1>2. CASE live = 0
    BY <1>1, <1>2 DEF TourInv, TypeOK, NoZombieTimer, ArmedCanRun, ArmedIsWanted,
        ReducedMeansOptIn, PageIsPainted
<1>3. CASE live # 0 /\ media.matches
    <2>1. tours[live] \in Tour /\ tours[live].doc = doc
        BY <1>3, LiveClosure
    <2>2. Stopped(tours[live]) \in Tour /\ Stopped(tours[live]).doc = doc
          /\ ~Stopped(tours[live]).requested
        BY <2>1 DEF Stopped, Tour
    <2>3. Repainted(Stopped(tours[live]), FALSE)
        BY <1>1, <1>3, <2>2 DEF Repainted, Clear, CanRunTour, TourInv, TypeOK
    <2> QED
        BY <2>3, PutPreserves
<1>4. CASE live # 0 /\ ~media.matches
    <2> DEFINE c == tours[live]
    <2>1. c \in Tour /\ c.doc = doc
        BY <1>4, LiveClosure
    <2>2. dom' = Shows(c, dom.touring) /\ UNCHANGED <<tours, timers>>
        BY <1>4
    <2>3. dom.touring \in BOOLEAN /\ media \in [matches : BOOLEAN, reported : BOOLEAN]
        BY DEF TourInv, TypeOK, Page
    <2>4. /\ dom' \in Page
          /\ dom'.layer = c.layer
          /\ dom'.touring = dom.touring
          /\ dom'.status = "touring" <=> c.requested /\ c.seen /\ c.hovered = {}
        BY <2>1, <2>2, <2>3, ShowsType
    <2>5. CanRunTour(tours[live], shown)' <=> CanRunTour(tours[live], shown)
        BY <1>1, <2>2 DEF CanRunTour
    <2> QED
        BY <1>1, <1>4, <2>2, <2>4, <2>5 DEF TourInv, TypeOK, NoZombieTimer, ArmedCanRun,
            ArmedIsWanted, ReducedMeansOptIn, PageIsPainted, MotionHandled
<1> QED
    BY <1>2, <1>3, <1>4 DEF TourInv, TypeOK

LEMMA PathCrossesViewStep ==
    ASSUME TourInv, PathCrossesView
    PROVE  TourInv'
<1>1. onScreen' \in BOOLEAN /\ records' \in Seq(BOOLEAN)
    BY DEF PathCrossesView, TourInv, TypeOK
<1>2. CanRunTour(tours[live], shown)' <=> CanRunTour(tours[live], shown)
    BY DEF PathCrossesView, CanRunTour
<1> QED
    BY <1>1, <1>2 DEF PathCrossesView, TourInv, TypeOK, NoZombieTimer, ArmedCanRun,
        ArmedIsWanted, ReducedMeansOptIn, PageIsPainted, MotionHandled

LEMMA RecordsDeliveredStep ==
    ASSUME TourInv, RecordsDelivered
    PROVE  TourInv'
<1> USE DEF RecordsDelivered
<1> DEFINE c == [tours[live] EXCEPT !.seen = Head(records)]
<1>1. tours[live] \in Tour /\ tours[live].doc = doc
    BY LiveClosure
<1>2. Head(records) \in BOOLEAN
    BY HeadTailProperties DEF TourInv, TypeOK
<1>3. c \in Tour /\ c.doc = doc /\ c.seen = Head(records)
    BY <1>1, <1>2 DEF Tour
<1>4. media.reported /\ media.matches /\ c.requested => c.optIn
    BY <1>1 DEF TourInv, ReducedMeansOptIn, Tour
<1>5. <<>> \in Seq(BOOLEAN)
    BY EmptySeq
<1>6. Put(live, c, CanRunTour(c, shown))
    <2>1. CASE Head(records)
        BY <2>1 DEF ScheduleTour
    <2>2. CASE ~Head(records)
        <3>1. ~CanRunTour(c, shown)
            BY <1>3, <2>2 DEF CanRunTour
        <3>2. CanRunTour(c, shown) = FALSE
            BY <1>3, <3>1, RunType DEF TourInv, TypeOK
        <3>3. Put(live, c, FALSE)
            BY <2>2 DEF Clear
        <3> QED
            BY <3>2, <3>3
    <2> QED
        BY <2>1, <2>2
<1>7. Repainted(c, CanRunTour(c, shown))
    BY <1>3, <1>4, <1>5, <1>6, RunType DEF Repainted, TourInv, TypeOK
<1> QED
    BY <1>7, PutPreserves

LEMMA NewTourType ==
    ASSUME NEW d \in Nat, NEW l \in Layers,
           media \in [matches : BOOLEAN, reported : BOOLEAN]
    PROVE  /\ NewTour(d, l) \in Tour
           /\ NewTour(d, l).doc = d
           /\ media.matches => ~NewTour(d, l).requested
BY DEF NewTour, Tour, StartsAutomatically

LEMMA EnterPathStep ==
    ASSUME TourInv, NEW d \in Nat, NEW l \in Layers, EnterPath(d, l),
           doc' = d, UNCHANGED <<media, shown>>
    PROVE  TourInv'
<1> USE DEF EnterPath
<1> DEFINE c == NewTour(d, l)
           on == CanRunTour(c, shown)
<1>1. media \in [matches : BOOLEAN, reported : BOOLEAN] /\ shown \in BOOLEAN
    BY DEF TourInv, TypeOK
<1>2. c \in Tour /\ c.doc = d /\ (media.matches => ~c.requested)
    BY <1>1, NewTourType
<1>3. on \in BOOLEAN
    BY <1>1, <1>2, RunType
<1>4. /\ tours' \in Seq(Tour)
      /\ Len(tours') = Len(tours) + 1
      /\ tours'[live'] = c
      /\ live' = Len(tours) + 1
    BY <1>2 DEF TourInv, TypeOK
<1>5. timers' = IF on THEN {live'} ELSE {}
    BY <1>4 DEF TourInv, NoZombieTimer, TimersDisposed
<1>6. /\ dom' \in Page
      /\ dom'.layer = c.layer
      /\ dom'.touring = on
      /\ dom'.status = "touring" <=> c.requested /\ c.seen /\ c.hovered = {}
    BY <1>1, <1>2, <1>3, ShowsType
<1>7. records' \in Seq(BOOLEAN) /\ onScreen' \in BOOLEAN
    OBVIOUS
<1>8. CanRunTour(tours[live], shown)' <=> on
    BY <1>4 DEF CanRunTour
<1>9. live' \in timers' <=> on
    BY <1>5
<1>10. TypeOK'
    <2>1. Len(tours) \in Nat
        BY DEF TourInv, TypeOK
    <2>2. live' \in 1..Len(tours')
        BY <1>4, <2>1
    <2>3. timers' \subseteq 1..Len(tours')
        BY <1>5, <2>2
    <2> QED
        BY <1>1, <1>2, <1>4, <1>6, <1>7, <2>2, <2>3 DEF TypeOK
<1>11. NoZombieTimer'
    BY <1>5 DEF NoZombieTimer
<1>12. ArmedCanRun' /\ ArmedIsWanted'
    BY <1>4, <1>8, <1>9 DEF ArmedCanRun, ArmedIsWanted, CanRunTour
<1>13. ReducedMeansOptIn' /\ PageIsPainted'
    BY <1>2, <1>4, <1>6, <1>9 DEF ReducedMeansOptIn, PageIsPainted
<1> QED
    BY <1>10, <1>11, <1>12, <1>13 DEF TourInv

LEMMA LoadStep ==
    ASSUME TourInv, NEW hasPath \in BOOLEAN, NEW l \in Layers, LoadDocument(hasPath, l)
    PROVE  TourInv'
<1> USE DEF LoadDocument
<1>1. doc + 1 \in Nat
    BY DEF TourInv, TypeOK
<1>2. CASE hasPath
    BY <1>1, <1>2, EnterPathStep
<1>3. CASE ~hasPath
    <2>1. /\ live' = 0
          /\ timers' = {}
          /\ dom' = NoPath
          /\ records' = <<>>
        BY <1>3 DEF LeavePath, TimersDisposed, TourInv, NoZombieTimer
    <2>2. NoPath \in Page
        BY DEF NoPath, Page, Status
    <2>3. <<>> \in Seq(BOOLEAN)
        BY EmptySeq
    <2> QED
        BY <1>1, <1>3, <2>1, <2>2, <2>3 DEF LeavePath, TourInv, TypeOK, NoZombieTimer,
            ArmedCanRun, ArmedIsWanted, ReducedMeansOptIn, PageIsPainted
<1> QED
    BY <1>2, <1>3

LEMMA ReinitializeStep ==
    ASSUME TourInv, NEW l \in Layers, Reinitialize(l)
    PROVE  TourInv'
<1>1. doc \in Nat
    BY DEF TourInv, TypeOK
<1> QED
    BY <1>1, EnterPathStep DEF Reinitialize

-----------------------------------------------------------------------------
(* The theorems.                                                           *)

LEMMA InitInv ==
    ASSUME Init
    PROVE  TourInv
<1>1. PICK l \in Layers :
        LET c == NewTour(1, l)
        IN  /\ tours = <<c>>
            /\ timers = IF CanRunTour(c, shown) THEN {1} ELSE {}
            /\ dom = Shows(c, CanRunTour(c, shown))
    BY DEF Init
<1> DEFINE c == NewTour(1, l)
           on == CanRunTour(c, shown)
<1>2. media \in [matches : BOOLEAN, reported : BOOLEAN] /\ shown \in BOOLEAN
      /\ media.reported /\ onScreen \in BOOLEAN /\ live = 1 /\ doc = 1
    BY DEF Init
<1>3. c \in Tour /\ c.doc = 1 /\ (media.matches => ~c.requested)
    BY <1>2, NewTourType
<1>4. on \in BOOLEAN
    BY <1>2, <1>3, RunType
<1>5. tours \in Seq(Tour) /\ Len(tours) = 1 /\ tours[live] = c
    BY <1>1, <1>2, <1>3
<1>6. live \in timers <=> on
    BY <1>1, <1>2
<1>7. /\ dom \in Page
      /\ dom.layer = c.layer
      /\ dom.touring = on
      /\ dom.status = "touring" <=> c.requested /\ c.seen /\ c.hovered = {}
    BY <1>1, <1>2, <1>3, <1>4, ShowsType
<1>8. records \in Seq(BOOLEAN)
    <2>1. records = <<onScreen>>
        BY DEF Init
    <2> QED
        BY <1>2, <2>1
<1>9. timers \subseteq {1}
    BY <1>1
<1>10. TypeOK /\ NoZombieTimer
    BY <1>2, <1>3, <1>5, <1>7, <1>8, <1>9 DEF TypeOK, NoZombieTimer
<1>11. ArmedCanRun /\ ArmedIsWanted
    BY <1>5, <1>6 DEF ArmedCanRun, ArmedIsWanted, CanRunTour
<1>12. ReducedMeansOptIn /\ PageIsPainted
    BY <1>3, <1>5, <1>6, <1>7 DEF ReducedMeansOptIn, PageIsPainted
<1> QED
    BY <1>10, <1>11, <1>12 DEF TourInv

LEMMA StutterInv ==
    ASSUME TourInv, UNCHANGED vars
    PROVE  TourInv'
BY DEF vars, env, TourInv, TypeOK, NoZombieTimer, ArmedCanRun, ArmedIsWanted,
    ReducedMeansOptIn, PageIsPainted, MotionHandled, CanRunTour

LEMMA NextInv ==
    ASSUME TourInv, [Next]_vars
    PROVE  TourInv'
<1>1. ASSUME NEW i \in 1..MaxTours, TimerFires(i) PROVE TourInv'
    BY <1>1, TimerStep
<1>2. ASSUME NEW l \in Layers, SelectManually(l) \/ PopState(l) PROVE TourInv'
    BY <1>2, ManualStep DEF PopState
<1>3. ASSUME NEW l \in Layers, Preview(l) PROVE TourInv'
    BY <1>3, PreviewStep
<1>4. ASSUME NEW l \in Layers, Reinitialize(l) PROVE TourInv'
    BY <1>4, ReinitializeStep
<1>5. ASSUME NEW k \in 1..Len(LayerOrder), NEW key \in Keys, PressKey(k, key)
      PROVE  TourInv'
    BY <1>5, KeyboardIndexType, ManualStep DEF PressKey
<1>6. ASSUME NEW r \in Regions, EnterRegion(r) PROVE TourInv'
    BY <1>6, EnterRegionStep
<1>7. ASSUME NEW r \in Regions, LeaveRegion(r) PROVE TourInv'
    BY <1>7, LeaveRegionStep
<1>8. CASE FocusIn
    BY <1>8, StopStep DEF FocusIn
<1>9. CASE Toggle
    BY <1>9, ToggleStep
<1>10. CASE VisibilityChange
    BY <1>10, VisibilityStep
<1>11. CASE MediaFlips
    BY <1>11, MediaFlipsStep
<1>12. CASE MediaReported
    BY <1>12, MediaReportedStep
<1>13. CASE PathCrossesView
    BY <1>13, PathCrossesViewStep
<1>14. CASE RecordsDelivered
    BY <1>14, RecordsDeliveredStep
<1>15. ASSUME NEW hasPath \in BOOLEAN, NEW l \in Layers, LoadDocument(hasPath, l)
       PROVE  TourInv'
    BY <1>15, LoadStep
<1>16. CASE UNCHANGED vars
    BY <1>16, StutterInv
<1> QED
    BY <1>1, <1>2, <1>3, <1>4, <1>5, <1>6, <1>7, <1>8, <1>9, <1>10, <1>11, <1>12,
       <1>13, <1>14, <1>15, <1>16 DEF Next

THEOREM TourInductive == Spec => []TourInv
BY InitInv, NextInv, PTL DEF Spec

\* The state keeps its shape, and the live closure is one of the displayed
\* document.
THEOREM TourTypeCorrect == Spec => []TypeOK
<1>1. TourInv => TypeOK
    BY DEF TourInv
<1> QED
    BY <1>1, TourInductive, PTL

\* No timeout of a disposed closure is ever pending, however often the page is
\* set up again.
THEOREM DisposeIsComplete == Spec => []NoZombieTimer
<1>1. TourInv => NoZombieTimer
    BY DEF TourInv
<1> QED
    BY <1>1, TourInductive, PTL

\* Whenever no motion change is on its way, the timer is armed exactly when
\* canRunTour holds.
THEOREM ArmedExactlyWhenRunnable == Spec => []ArmedIffRunnable
<1>1. TourInv => ArmedIffRunnable
    BY DEF TourInv, ArmedCanRun, MotionHandled, ArmedIffRunnable
<1> QED
    BY <1>1, TourInductive, PTL

\* What a visible page says about the tour is what the timer will do.
THEOREM PageTellsTheTruth == Spec => []StatusTruthful
<1>1. ASSUME TourInv PROVE StatusTruthful
    <2> SUFFICES ASSUME live # 0, shown, media.reported
                 PROVE  /\ dom.touring <=> live \in timers
                        /\ dom.status = "touring" <=> live \in timers
                        /\ dom.layer = tours[live].layer
        BY DEF StatusTruthful
    <2>1. live \in timers <=> CanRunTour(tours[live], shown)
        BY <1>1 DEF TourInv, ArmedCanRun, MotionHandled
    <2>2. media \in [matches : BOOLEAN, reported : BOOLEAN]
        BY <1>1 DEF TourInv, TypeOK
    <2>3. CanRunTour(tours[live], shown)
            <=> tours[live].requested /\ tours[live].seen /\ tours[live].hovered = {}
        BY <1>1, <2>2 DEF TourInv, ReducedMeansOptIn, CanRunTour
    <2> QED
        BY <1>1, <2>1, <2>3 DEF TourInv, PageIsPainted, MotionHandled
<1> QED
    BY <1>1, TourInductive, PTL

-----------------------------------------------------------------------------
(* The tour implements the carousel: every handler is a step of it.        *)

Wanted == live # 0 /\ tours[live].requested

Playing == live \in timers

PromiseKept == [Promise!Next]_(Promise!vars)

LEMMA PlayingIsWanted ==
    ASSUME TourInv
    PROVE  /\ Playing => Wanted
           /\ Wanted \in BOOLEAN
           /\ Playing \in BOOLEAN
<1>1. 0 \notin timers
    BY DEF TourInv, TypeOK
<1>2. live # 0 => tours[live].requested \in BOOLEAN
    BY LiveClosure DEF Tour
<1> QED
    BY <1>1, <1>2 DEF TourInv, ArmedIsWanted, Playing, Wanted

\* The same of the state after a step.
LEMMA PlayingIsWantedNext ==
    ASSUME TourInv'
    PROVE  /\ Playing' => Wanted'
           /\ Wanted' \in BOOLEAN
           /\ Playing' \in BOOLEAN
<1>1. live' # 0 => live' \in 1..Len(tours') /\ tours' \in Seq(Tour)
    BY DEF TourInv, TypeOK
<1>2. 0 \notin timers'
    BY DEF TourInv, TypeOK
<1>3. live' # 0 => tours'[live'] \in Tour
    BY <1>1
<1>4. live' # 0 => tours'[live'].requested \in BOOLEAN
    BY <1>3 DEF Tour
<1> QED
    BY <1>2, <1>4 DEF TourInv, ArmedIsWanted, Playing, Wanted

LEMMA VisitType ==
    ASSUME TourInv
    PROVE  doc + Len(tours) \in Nat
BY DEF TourInv, TypeOK

\* A step that keeps the layer and the visit switches the tour on or off.
LEMMA ControlStep ==
    ASSUME TourInv, TourInv', dom'.layer = dom.layer, doc' = doc, Len(tours') = Len(tours)
    PROVE  PromiseKept
<1>1. Promise!Control
    BY PlayingIsWantedNext DEF Promise!Control, Playing, Wanted
<1> QED
    BY <1>1 DEF Promise!Next, PromiseKept

LEMMA PickStep ==
    ASSUME TourInv, TourInv', NEW l \in Layers, SelectManually(l)
    PROVE  PromiseKept
<1> USE DEF SelectManually, env
<1> DEFINE c == [Stopped(tours[live]) EXCEPT !.layer = l]
<1>1. tours[live] \in Tour /\ tours[live].doc = doc /\ live \in 1..Len(tours)
    BY LiveClosure
<1>2. c \in Tour /\ c.doc = doc /\ c.layer = l /\ ~c.requested
    BY <1>1, StoppedType DEF Stopped, Tour
<1>3. dom'.layer = l
    BY <1>2 DEF Clear, Put, Shows
<1>4. tours'[live] = c /\ Len(tours') = Len(tours) /\ live' = live
    BY <1>1 DEF Clear, Put, TourInv, TypeOK
<1>5. live' \notin timers'
    BY DEF Clear, Put
<1>6. Wanted' = FALSE /\ Playing' = FALSE
    BY <1>2, <1>4, <1>5, PlayingIsWanted DEF Wanted, Playing
<1>7. Promise!Pick(l)
    BY <1>3, <1>4, <1>6 DEF Promise!Pick, Wanted, Playing
<1> QED
    BY <1>7 DEF Promise!Next, PromiseKept, Promise!Layers, Layers

LEMMA PreviewRefines ==
    ASSUME TourInv, TourInv', NEW l \in Layers, Preview(l)
    PROVE  PromiseKept
<1> USE DEF Preview, env
<1>1. tours[live] \in Tour /\ live \in 1..Len(tours)
    BY LiveClosure
<1>2. tours'[live] = [tours[live] EXCEPT !.layer = l] /\ Len(tours') = Len(tours)
    BY <1>1 DEF TourInv, TypeOK
<1>3. dom'.layer = l /\ tours'[live].requested = tours[live].requested
    BY <1>1, <1>2 DEF Shows, Tour
<1>4. ~Playing
    BY DEF TourInv, ArmedIsWanted, Playing
<1>5. Wanted' = Wanted /\ Playing' = Playing
    BY <1>3 DEF Wanted, Playing
<1>6. Promise!Preview(l)
    BY <1>2, <1>3, <1>4, <1>5 DEF Promise!Preview, Wanted, Playing
<1> QED
    BY <1>6 DEF Promise!Next, PromiseKept, Promise!Layers, Layers

LEMMA AdvanceRefines ==
    ASSUME TourInv, TourInv', NEW i \in 1..MaxTours, TimerFires(i)
    PROVE  PromiseKept
<1> USE DEF TimerFires, env
<1>1. i = live /\ live # 0 /\ Playing
    BY DEF TourInv, TypeOK, NoZombieTimer, Playing
<1>2. tours[live] \in Tour /\ tours[live].doc = doc /\ live \in 1..Len(tours)
    BY <1>1, LiveClosure
<1>3. CASE CanRunTour(tours[i], shown)
    <2> DEFINE c == [tours[live] EXCEPT !.layer = NextLayer(@)]
    <2>1. Put(live, c, CanRunTour(c, shown))
        BY <1>1, <1>3 DEF ScheduleTour
    <2>2. c.doc = doc /\ c.layer = NextLayer(tours[live].layer)
          /\ c.requested = tours[live].requested
        BY <1>2 DEF Tour
    <2>3. CanRunTour(c, shown)
        BY <1>1, <1>2, <1>3 DEF CanRunTour, Tour
    <2>4. dom'.layer = NextLayer(dom.layer)
        BY <1>1, <2>1, <2>2 DEF Put, Shows, TourInv, PageIsPainted
    <2>5. tours'[live] = c /\ Len(tours') = Len(tours)
        BY <1>2, <2>1 DEF Put, TourInv, TypeOK
    <2>6. live' \in timers'
        BY <2>1, <2>3 DEF Put
    <2>7. Wanted' = Wanted /\ Playing' = Playing
        BY <1>1, <2>2, <2>5, <2>6, PlayingIsWanted DEF Wanted, Playing
    <2>8. Promise!NextLayer(dom.layer) = NextLayer(dom.layer)
        BY DEF Promise!NextLayer, NextLayer, Promise!IndexOf, IndexOf
    <2>9. Promise!Advance
        BY <1>1, <2>4, <2>5, <2>7, <2>8 DEF Promise!Advance, Wanted, Playing
    <2> QED
        BY <2>9 DEF Promise!Next, PromiseKept
<1>4. CASE ~CanRunTour(tours[i], shown)
    BY <1>4, ControlStep
<1> QED
    BY <1>3, <1>4

LEMMA SetUpRefines ==
    ASSUME TourInv, TourInv', doc' >= doc, Len(tours') >= Len(tours),
           doc' + Len(tours') > doc + Len(tours), live' = 0 => dom' = NoPath,
           live' # 0 => dom'.layer \in Layers
    PROVE  PromiseKept
<1>1. dom'.layer \in Layers \cup {NoLayer}
    BY DEF NoPath
<1>2. dom'.layer = NoLayer => ~Wanted'
    BY LayerAssumption DEF Wanted
<1>3. doc' + Len(tours') \in Nat
    BY DEF TourInv, TypeOK
<1>4. Promise!SetUp
    BY <1>1, <1>2, <1>3, PlayingIsWantedNext
        DEF Promise!SetUp, Promise!Layers, Layers, Wanted, Playing
<1> QED
    BY <1>4 DEF Promise!Next, PromiseKept

LEMMA EnterPathRefines ==
    ASSUME TourInv, TourInv', NEW d \in Nat, NEW l \in Layers, EnterPath(d, l),
           doc' = d, d >= doc
    PROVE  PromiseKept
<1>1. Len(tours') = Len(tours) + 1 /\ Len(tours) \in Nat /\ doc \in Nat
    BY DEF EnterPath, TourInv, TypeOK
<1>2. live' # 0
    BY <1>1 DEF EnterPath
<1>3. dom'.layer \in Layers
    BY DEF EnterPath, Shows, NewTour
<1> QED
    BY <1>1, <1>2, <1>3, SetUpRefines

LEMMA LoadRefines ==
    ASSUME TourInv, TourInv', NEW hasPath \in BOOLEAN, NEW l \in Layers,
           LoadDocument(hasPath, l)
    PROVE  PromiseKept
<1>1. doc + 1 \in Nat /\ doc + 1 >= doc /\ doc \in Nat /\ Len(tours) \in Nat
    BY DEF TourInv, TypeOK
<1>2. CASE hasPath
    BY <1>1, <1>2, EnterPathRefines DEF LoadDocument
<1>3. CASE ~hasPath
    BY <1>1, <1>3, SetUpRefines DEF LoadDocument, LeavePath
<1> QED
    BY <1>2, <1>3

LEMMA ReinitializeRefines ==
    ASSUME TourInv, TourInv', NEW l \in Layers, Reinitialize(l)
    PROVE  PromiseKept
<1>1. doc \in Nat /\ doc >= doc
    BY DEF TourInv, TypeOK
<1> QED
    BY <1>1, EnterPathRefines DEF Reinitialize

\* The remaining handlers keep the layer.
LEMMA HandlerRefines ==
    ASSUME TourInv, TourInv',
           \/ \E r \in Regions : EnterRegion(r) \/ LeaveRegion(r)
           \/ FocusIn \/ Toggle \/ RecordsDelivered
    PROVE  PromiseKept
<1>1. live # 0 /\ doc' = doc
    BY DEF EnterRegion, LeaveRegion, FocusIn, Toggle, RecordsDelivered, env
<1>2. live \in 1..Len(tours) /\ tours[live] \in Tour /\ tours[live].doc = doc
    BY <1>1, LiveClosure
<1>3. \E on : \E c \in [doc : {doc}, layer : {tours[live].layer}, requested : BOOLEAN,
                       optIn : BOOLEAN, seen : {tours[live].seen, Head(records)},
                       hovered : SUBSET Regions] : Put(live, c, on)
    BY <1>2 DEF EnterRegion, LeaveRegion, FocusIn, Toggle, RecordsDelivered, Clear,
        ScheduleTour, Stopped, Tour, TourInv, TypeOK
<1>4. Len(tours') = Len(tours)
    BY <1>2, <1>3 DEF Put, TourInv, TypeOK
<1>5. dom'.layer = dom.layer
    BY <1>1, <1>3 DEF Put, Shows, TourInv, PageIsPainted
<1> QED
    BY <1>1, <1>4, <1>5, ControlStep

LEMMA BrowserRefines ==
    ASSUME TourInv, TourInv',
           VisibilityChange \/ MediaFlips \/ MediaReported \/ PathCrossesView
    PROVE  PromiseKept
<1>1. doc' = doc /\ live' = live
    BY DEF VisibilityChange, MediaFlips, MediaReported, PathCrossesView
<1>2. CASE live = 0
    BY <1>1, <1>2, ControlStep
        DEF VisibilityChange, MediaFlips, MediaReported, PathCrossesView
<1>3. CASE live # 0
    <2>1. live \in 1..Len(tours) /\ tours[live] \in Tour /\ tours[live].doc = doc
        BY <1>3, LiveClosure
    <2>2. dom.layer = tours[live].layer
        BY <1>3 DEF TourInv, PageIsPainted
    <2>3. \/ dom' = [dom EXCEPT !.touring = FALSE] /\ tours' = tours
          \/ dom' = dom /\ tours' = tours
          \/ \E on : dom' = Shows(tours[live], on) /\ tours' = tours
          \/ \E c, on : Put(live, c, on) /\ c \in {tours[live], Stopped(tours[live])}
        <3>1. CASE VisibilityChange
            BY <1>3, <3>1 DEF VisibilityChange
        <3>2. CASE MediaReported
            BY <1>3, <3>2 DEF MediaReported, Clear
        <3>3. CASE MediaFlips \/ PathCrossesView
            BY <3>3 DEF MediaFlips, PathCrossesView
        <3> QED
            BY <3>1, <3>2, <3>3
    <2>4. Len(tours') = Len(tours)
        BY <2>3 DEF Put, TourInv, TypeOK
    <2>5. Stopped(tours[live]).layer = tours[live].layer /\ Stopped(tours[live]).doc = doc
        BY <2>1 DEF Stopped, Tour
    <2>6. dom'.layer = dom.layer
        BY <2>1, <2>2, <2>3, <2>5 DEF Put, Shows, TourInv, TypeOK, Page
    <2> QED
        BY <1>1, <2>4, <2>6, ControlStep
<1> QED
    BY <1>2, <1>3

LEMMA StepRefines ==
    ASSUME TourInv, TourInv', [Next]_vars
    PROVE  PromiseKept
<1>1. ASSUME NEW i \in 1..MaxTours, TimerFires(i) PROVE PromiseKept
    BY <1>1, AdvanceRefines
<1>2. ASSUME NEW l \in Layers, SelectManually(l) \/ PopState(l) PROVE PromiseKept
    BY <1>2, PickStep DEF PopState
<1>3. ASSUME NEW l \in Layers, Preview(l) PROVE PromiseKept
    BY <1>3, PreviewRefines
<1>4. ASSUME NEW l \in Layers, Reinitialize(l) PROVE PromiseKept
    BY <1>4, ReinitializeRefines
<1>5. ASSUME NEW k \in 1..Len(LayerOrder), NEW key \in Keys, PressKey(k, key)
      PROVE  PromiseKept
    BY <1>5, KeyboardIndexType, PickStep DEF PressKey
<1>6. CASE \/ \E r \in Regions : EnterRegion(r) \/ LeaveRegion(r)
           \/ FocusIn \/ Toggle \/ RecordsDelivered
    BY <1>6, HandlerRefines
<1>7. CASE VisibilityChange \/ MediaFlips \/ MediaReported \/ PathCrossesView
    BY <1>7, BrowserRefines
<1>8. ASSUME NEW hasPath \in BOOLEAN, NEW l \in Layers, LoadDocument(hasPath, l)
      PROVE  PromiseKept
    BY <1>8, LoadRefines
<1>9. CASE UNCHANGED vars
    BY <1>9, ControlStep DEF vars, env
<1> QED
    BY <1>1, <1>2, <1>3, <1>4, <1>5, <1>6, <1>7, <1>8, <1>9 DEF Next

LEMMA InitRefines ==
    ASSUME Init
    PROVE  Promise!Init
<1>1. TourInv
    BY InitInv
<1>2. live = 1
    BY DEF Init
<1>3. tours[live] \in Tour /\ dom.layer = tours[live].layer
    BY <1>1, <1>2, LiveClosure DEF TourInv, PageIsPainted
<1>4. dom.layer \in Layers
    BY <1>3 DEF Tour
<1> QED
    BY <1>1, <1>4, PlayingIsWanted, VisitType
        DEF Promise!Init, Promise!Layers, Layers, Wanted, Playing

\* Layers advance only while the tour plays and one by one; a choice is shown
\* and ends the tour; no other step moves the layer on display.
THEOREM TourKeepsPromise == Spec => KeepsPromise
<1>1. Init => Promise!Init
    BY InitRefines
<1>2. TourInv /\ TourInv' /\ [Next]_vars => [Promise!Next]_(Promise!vars)
    BY StepRefines DEF PromiseKept
<1> QED
    BY <1>1, <1>2, TourInductive, PTL DEF Spec, KeepsPromise, Promise!Spec
=============================================================================
