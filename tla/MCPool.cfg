\* Three threads, a quota of one, a gallery of PNGs: everybody races for the quota.
CONSTANTS
    t1 = t1
    t2 = t2
    t3 = t3
    main = main
    NotHttp = NotHttp
    Threads <- ThreeThreads
    Main = main
    Urls <- GalleryUrls
    Seed = "seed"
    Responses <- GallerySite
    NumPngs = 1
    FopenResults <- Always
SYMMETRY Symmetry
SPECIFICATION Spec
CHECK_DEADLOCK FALSE
INVARIANTS
    WorkingCount
    SleeperHasWaker
    LeaveTogether
    VisitedOnce
    OneFetchPerUrl
    QuotaSlack
    ListedPerVisit
PROPERTIES
    FrozenAtZero
    Refinement
