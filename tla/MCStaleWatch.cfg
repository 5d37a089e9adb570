\* Development mode: the user leaves a transaction view for another view
\* before the layout arrives.
CONSTANTS
    TT <- MCTT
    WindowLayout = {FALSE}
    MaxNav = 2
SPECIFICATION Spec
PROPERTY LayoutWritesOnlyOwnTT
\* A page whose layout never arrives stops waiting for it.
CHECK_DEADLOCK FALSE
