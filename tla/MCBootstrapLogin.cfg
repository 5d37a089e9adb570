\* With the layout embedded in the page, setInitialLayout reads authenticatedUser before it is assigned.
CONSTANTS
    r1 = r1
    r2 = r2
    r3 = r3
    Req <- MCReqLive
    MaxVersion = 2
    MaxLogins = 1
    Failures = {}

SPECIFICATION Spec

INVARIANT BootstrapLeavesLogin

CHECK_DEADLOCK FALSE
