\* Development mode: the first navigation to '/' happens before the layout.
CONSTANTS
    TT <- MCTT
    WindowLayout = {FALSE}
    MaxNav = 2
SPECIFICATION Spec
INVARIANT DefaultRouteMatchesMode
\* A page whose layout never arrives stops waiting for it.
CHECK_DEADLOCK FALSE
