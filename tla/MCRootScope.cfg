\* Three navigations: open a url, follow server, rollup and query-string
\* links, with the layout loaded or replaced in between.
CONSTANTS
    Servers <- MCServers
    Rollups <- MCRollups
    TTs <- MCTTs
    Layouts <- MCLayouts
    Absent = Absent
    NoLayout = NoLayout
    MaxNav = 3
SPECIFICATION Spec
INVARIANT TypeOK DefaultTTOffered
\* After MaxNav navigations and the last layout, the model stops.
CHECK_DEADLOCK FALSE
