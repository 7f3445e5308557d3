\* Two threads, every kind of reply, a quota that some of them let be reached, fopen may fail.
CONSTANTS
    t1 = t1
    t2 = t2
    t3 = t3
    main = main
    NotHttp = NotHttp
    Threads <- TwoThreads
    Main = main
    Urls <- MixedUrls
    Seed = "seed"
    Responses <- MixedSite
    NumPngs = 2
    FopenResults <- Either
SPECIFICATION FairSpec
CHECK_DEADLOCK FALSE
INVARIANTS
    FileMatchesCount
PROPERTIES
    OnlyQuotaStrands
    FrontierServed
