\* Two runs per setting.
CONSTANTS
    first = first
    second = second
    four = four
    five = five
    Scripts <- Processes
    Lab <- LabOf
    Image <- ImageOf
    Parties <- Meetings
    B <- Buffers
    P <- Workers
    C <- Workers
    X <- Delays
    T <- Pools
    M <- Quotas
    NN = 2
SPECIFICATION Spec
CHECK_DEADLOCK FALSE
INVARIANTS
    TableComplete
    RowHasOwnRuns
