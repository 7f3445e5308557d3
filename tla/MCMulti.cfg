\* Three handles, every kind of reply, a quota of two that some replies let be
\* reached, with transfers in flight or not, and curl_multi_wait may fail.
CONSTANTS
    c1 = c1
    c2 = c2
    c3 = c3
    NotHttp = NotHttp
    Conns <- ThreeConns
    Urls <- WideUrls
    Seed = "seed"
    Responses <- WideSite
    NumPngs = 2
    FopenResults <- Always
    WaitResults <- Either
SPECIFICATION FairSpec
CHECK_DEADLOCK FALSE
INVARIANTS
    PoolAccounting
    OneTransferPerUrl
    QuotaExact
    CleanEnd
PROPERTIES
    Refinement
    Termination
    FrontierServed
