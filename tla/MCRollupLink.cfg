\* Following a rollup link while a server is selected: three navigations
\* over two servers and two rollups, in central mode, with the layout
\* loaded or replaced in between.
CONSTANTS
    Servers <- MCServers
    Rollups <- MCRollups
    TTs <- MCTTs
    Layouts <- MCLayouts
    Absent = Absent
    NoLayout = NoLayout
    MaxNav = 3
SPECIFICATION Spec
INVARIANT RollupLinkSelectsRollup
\* After MaxNav navigations and the last layout, the model stops.
CHECK_DEADLOCK FALSE
