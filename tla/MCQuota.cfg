\* Two threads, a quota of one: is it exact.
CONSTANTS
    t1 = t1
    t2 = t2
    t3 = t3
    main = main
    NotHttp = NotHttp
    Threads <- TwoThreads
    Main = main
    Urls <- GalleryUrls
    Seed = "seed"
    Responses <- GallerySite
    NumPngs = 1
    FopenResults <- Always
SPECIFICATION Spec
CHECK_DEADLOCK FALSE
INVARIANT QuotaExact
