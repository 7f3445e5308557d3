\* Two threads, a quota of three: does main return (the comment at findpng2.c:98).
CONSTANTS
    t1 = t1
    t2 = t2
    t3 = t3
    main = main
    NotHttp = NotHttp
    Threads <- TwoThreads
    Main = main
    Urls <- GalleryUrls
    Seed = "seed"
    Responses <- GallerySite
    NumPngs = 3
    FopenResults <- Always
SPECIFICATION FairSpec
CHECK_DEADLOCK FALSE
PROPERTIES
    Termination
