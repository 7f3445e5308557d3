\* A buffer of two bytes, enlarged by three or, for chunks of three and four, by more; and
\* bodies of up to five bytes.
CONSTANTS
    BufSize = 2
    BufInc = 3
    MaxChunk = 4
    Bytes = {"link", "text"}
    Zero = Zero
    Junk = Junk
    HttpLinks = {"link"}
    Fragments <- FragmentNumbers
    MaxRedirs = 2
    MaxReceived = 5
SPECIFICATION FetchSpec
CHECK_DEADLOCK FALSE
INVARIANTS
    InBounds
    SavedIsReceived
    OnlyWholeSaved
    NamedByFragment
    Released
PROPERTIES
    Ends
