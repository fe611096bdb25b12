\* RFC reader.
CONSTANTS
    Catalog <- ThreeRecords
    Queries = {"lineage"}
    Found <- FoundBy
    StatusRank <- Ranks
    Links <- SharedLinks
    MaxHistory = 2
    MaxBacks = 2

SPECIFICATION Spec

INVARIANTS
    TypeOK
    SelectionVisible
    UrlRestores
    PaneMatchesSelection
    MarkedEntriesArePushed

PROPERTIES
    BackKeepsPlace

\* The reader may stop at any point.
CHECK_DEADLOCK FALSE
