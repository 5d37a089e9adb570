\* Four calls of showSpinner on one element, each stopped at any point.
CONSTANT Handles = {h1, h2, h3, h4}
SPECIFICATION Spec
INVARIANT VisibleOnlyWhileLoading
\* Every handle stopped: nothing is scheduled any more.
CHECK_DEADLOCK FALSE
