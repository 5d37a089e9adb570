\* Both bootstraps: window.layout embedded (production), or the layout
\* arriving after the first navigation (development).
CONSTANTS
    TT <- MCTT
    WindowLayout = {FALSE, TRUE}
    MaxNav = 3
SPECIFICATION Spec
INVARIANT ActiveViewResolved
PROPERTY TransactionTypeOnActivate NavigationCompletes StaleTimersStop
\* A page whose layout or d3 never arrives stops waiting for them.
CHECK_DEADLOCK FALSE
