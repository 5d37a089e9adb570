\* The interceptor's redirect guard over every interleaving of three
\* lineages of requests.
CONSTANTS
    r1 = r1
    r2 = r2
    r3 = r3
    Req <- MCReq
    MaxVersion = 2
    MaxLogins = 1
    Failures = {0, 500}

SPECIFICATION Spec
SYMMETRY MCSymmetry

INVARIANT TypeOK
INVARIANT OneRedirectPerVisit

\* A page with no request in flight and no user input is idle; in development
\* mode a failed bootstrap request leaves it idle for good.
CHECK_DEADLOCK FALSE
