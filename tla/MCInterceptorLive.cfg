\* The layout refresh over two lineages and three layout versions, without
\* symmetry (liveness), on a reliable network: re-fetches answered out of
\* order, and the end of the re-fetch chain.
CONSTANTS
    r1 = r1
    r2 = r2
    r3 = r3
    Req <- MCReqLive
    MaxVersion = 3
    MaxLogins = 1
    Failures = {}

SPECIFICATION Spec

INVARIANT StaleLayoutHasRefetch
PROPERTY LayoutRefreshTerminates

\* A page with no request in flight and no user input is idle.
CHECK_DEADLOCK FALSE
