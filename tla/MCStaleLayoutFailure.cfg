\* A failed layout re-fetch (no error handler, line 52) leaves a stale layout with nothing outstanding.
CONSTANTS
    r1 = r1
    r2 = r2
    r3 = r3
    Req <- MCReqLive
    MaxVersion = 2
    MaxLogins = 1
    Failures = {0, 500}

SPECIFICATION Spec

INVARIANT StaleLayoutHasRefetch

CHECK_DEADLOCK FALSE
