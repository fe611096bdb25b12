\* Architecture tour: a page, one more set-up of it or of another page.
CONSTANTS
    LayerOrder <- ThreeLayers
    NoLayer = NoLayer
    Regions = {"selector", "inspector"}
    LayerRegions = {"selector"}
    MaxDocs = 2
    MaxTours = 2
    MaxRecords = 2

SPECIFICATION FairSpec

INVARIANTS
    TypeOK
    NoZombieTimer
    ArmedIffRunnable
    StatusTruthful

PROPERTIES
    KeepsPromise
    TourKeepsMoving
