------------------------------ MODULE Routing ------------------------------
(***************************************************************************)
(* The route table of routes.js and the resolve preconditions that gate   *)
(* each view: waitForLayout (lines 24-48), waitForD3 (188-201) and the     *)
(* default route (49-55).                                                  *)
(*                                                                         *)
(* A route is a record: its name, its parent (Root for a root), whether   *)
(* it is abstract, which waitForLayout it resolves ("none", "plain" for    *)
(* waitForLayout(false), "tt" for waitForLayout(true)) and whether it      *)
(* resolves waitForD3.  The resolves that only return constants           *)
(* (headerDisplay, summarySortOrders, traceKind, ...) cannot delay or fail *)
(* a transition and are left out.  The url is abstracted to the target     *)
(* state and the transaction-type query parameter.                         *)
(*                                                                         *)
(* Navigation runs in one $digest: the transition starts, every resolve is *)
(* invoked, and the watch that waitForLayout registers is called at once   *)
(* with the current layout.  A transition that waits is completed by a     *)
(* later event: the layout arriving or a checkForD3 timer firing.          *)
(***************************************************************************)
EXTENDS Naturals

CONSTANTS
    TT,           \* transaction types
    WindowLayout, \* the pages considered: TRUE, window.layout is embedded (production);
                  \* FALSE, it is not (development)
    MaxNav        \* bound on the user's navigations

ASSUME RoutingAssumption ==
    /\ TT # {}
    /\ "" \notin TT /\ "absent" \notin TT
    \* "none" marks the missing layout (NoLayout), so it is no transaction type.
    /\ "none" \notin TT
    /\ WindowLayout \subseteq BOOLEAN /\ WindowLayout # {}
    /\ MaxNav \in Nat

\* The parent of a root state: a name no state has.
Root == "root"

R(n, p, a, wl, d3) == [name |-> n, parent |-> p, abstract |-> a, wl |-> wl, d3 |-> d3]

\* Lines 56-225: the transaction views and the two flame graphs.
TransactionRoutes ==
    { R("transaction", Root, TRUE, "tt", FALSE),
      R("transaction.detail", "transaction", TRUE, "none", FALSE) }
    \cup
    { R(n, "transaction.detail", FALSE, "none", FALSE) :
        n \in {"transaction.detail.average", "transaction.detail.percentiles",
               "transaction.detail.throughput", "transaction.detail.queries",
               "transaction.detail.mainThreadProfile",
               "transaction.detail.auxThreadProfile", "transaction.detail.traces"} }
    \cup
    { R(n, Root, FALSE, "tt", TRUE) :
        n \in {"transaction-main-thread-flame-graph",
               "transaction-aux-thread-flame-graph"} }

\* Lines 226-297: the error views.
ErrorRoutes ==
    { R("error", Root, TRUE, "tt", FALSE),
      R("error.detail", "error", TRUE, "none", FALSE),
      R("error.detail.messages", "error.detail", FALSE, "none", FALSE),
      R("error.detail.traces", "error.detail", FALSE, "none", FALSE) }

\* Mutant: the jvm state without its waitForLayout resolve.
JvmRoutes_noWait ==
    { R("jvm", Root, FALSE, "none", FALSE) }
    \cup
    { R(n, "jvm", FALSE, "none", FALSE) :
        n \in {"jvm.gauges", "jvm.processInfo", "jvm.threadDump", "jvm.heapDump",
               "jvm.mbeanTree", "jvm.capabilities", "jvm.glowrootLog"} }

\* Lines 298-340: the JVM views.
JvmRoutes ==
    { R("jvm", Root, FALSE, "plain", FALSE) }
    \cup
    { R(n, "jvm", FALSE, "none", FALSE) :
        n \in {"jvm.gauges", "jvm.processInfo", "jvm.threadDump", "jvm.heapDump",
               "jvm.mbeanTree", "jvm.capabilities", "jvm.glowrootLog"} }

\* Lines 341-428: the configuration views.
ConfigRoutes ==
    { R("config", Root, FALSE, "plain", FALSE) }
    \cup
    { R(n, "config", FALSE, "none", FALSE) :
        n \in {"config.transaction", "config.instrumentationList",
               "config.instrumentation", "config.gaugeList", "config.gauge",
               "config.alertList", "config.alert", "config.pluginList",
               "config.plugin", "config.advanced", "config.smtp",
               "config.userRecording", "config.userInterface", "config.storage"} }

\* Lines 429-436: the login view.
LoginRoutes == { R("login", Root, FALSE, "plain", FALSE) }

Routes == TransactionRoutes \cup ErrorRoutes \cup JvmRoutes \cup ConfigRoutes
            \cup LoginRoutes

Names == {r.name : r \in Routes}
Route(n) == CHOOSE r \in Routes : r.name = n
Par(n) == IF n \in Names THEN Route(n).parent ELSE Root

\* The state and its ancestors; the table is at most three levels deep.
Lineage(n) == {n, Par(n), Par(Par(n))} \cap Names

\* A transition to n runs the resolves of n and of its ancestors.
WaitsLayout(n) == \E a \in Lineage(n) : Route(a).wl # "none"
\* Mutant: a child does not inherit its parent's waitForLayout(true).
NeedsTT_ownOnly(n) == n \in Names /\ Route(n).wl = "tt"
NeedsTT(n) == \E a \in Lineage(n) : Route(a).wl = "tt"
WaitsD3(n) == \E a \in Lineage(n) : Route(a).d3

\* The states a url can select.
Navigable == {n \in Names : ~Route(n).abstract}

\* '/server-rollups', the central-mode default, is a state registered outside
\* this file, with no resolve here: a transition to it supersedes the
\* pending one and completes at once.
ServerRollups == "serverRollups"

\* The layout as far as routing reads it: central mode and the value
\* $rootScope.defaultTransactionType() returns for the current server.
Layouts == [central : BOOLEAN, defaultTT : TT \cup {""}]
NoLayout == [central |-> FALSE, defaultTT |-> "none"]

TTValues == TT \cup {"", "absent"}
Views == Navigable \cup {ServerRollups}
Locs == [state : Views \cup {"none"}, tt : TTValues]
NoTrans == [to |-> "none", waitLayout |-> FALSE, waitD3 |-> FALSE]
Transitions == [to : Navigable \cup {"none"}, waitLayout : BOOLEAN, waitD3 : BOOLEAN]

VARIABLES
    layout,     \* $rootScope.layout
    loc,        \* $location: the selected state and transaction-type
    active,     \* the active state
    pending,    \* the transition whose resolves are outstanding
    watches,    \* needsTransactionType of each registered layout watch
    d3Loaded,   \* window.d3 is defined
    stalePolls, \* checkForD3 timers of superseded transitions still polling
    defaulted,  \* loc was chosen by the otherwise rule
    navs        \* navigations so far

vars == <<layout, loc, active, pending, watches, d3Loaded, stalePolls,
          defaulted, navs>>

-----------------------------------------------------------------------------

\* $rootScope.defaultTransactionType() returns '' while there is no layout.
DefaultTT == IF layout = NoLayout THEN "" ELSE layout.defaultTT

\* Lines 27-30 and 36-39: when the state needs a transaction type and the
\* url has none (missing or empty), set it to the default.
FillTT(needs, tt, dflt) ==
    IF needs /\ tt \in {"absent", ""} THEN dflt ELSE tt

\* The transition to n completes: n becomes the active state.
Activate(n) == active' = n /\ pending' = NoTrans

\* A transition to n starts with transaction-type tt in the url (lines
\* 24-48, 188-201).  waitForLayout fills the transaction type and resolves
\* at once if the layout is there; otherwise its watch stays registered.
\* waitForD3 always schedules its first check 100 ms later.  A superseded
\* transition's watch and timer stay registered.
StartTransition(n, tt) ==
    LET needs == NeedsTT(n)
        waitL == WaitsLayout(n) /\ layout = NoLayout
        waitD == WaitsD3(n)
    IN
    /\ loc' = [state |-> n, tt |-> IF WaitsLayout(n) THEN FillTT(needs, tt, DefaultTT)
                                                     ELSE tt]
    /\ watches' = IF waitL THEN watches \cup {needs} ELSE watches
    /\ stalePolls' = IF pending.waitD3 THEN stalePolls + 1 ELSE stalePolls
    /\ IF waitL \/ waitD
         THEN pending' = [to |-> n, waitLayout |-> waitL, waitD3 |-> waitD]
              /\ UNCHANGED active
         ELSE Activate(n)

\* The user opens the url of a state, with or without a transaction type.
Navigate(n, tt) ==
    /\ navs < MaxNav
    /\ navs' = navs + 1
    /\ defaulted' = FALSE
    /\ StartTransition(n, tt)
    /\ UNCHANGED <<layout, d3Loaded>>

\* Mutant: the default route ignores central mode.
otherwise_noCentral ==
    "transaction.detail.average"

\* $urlRouterProvider.otherwise (lines 49-55).
otherwise ==
    IF layout # NoLayout /\ layout.central THEN ServerRollups
    ELSE "transaction.detail.average"

\* The user opens a url no state matches ('/', or a stale link).
NavigateUnmatched ==
    /\ navs < MaxNav
    /\ navs' = navs + 1
    /\ defaulted' = TRUE
    /\ IF otherwise = ServerRollups
         THEN /\ loc' = [state |-> ServerRollups, tt |-> "absent"]
              /\ stalePolls' = IF pending.waitD3 THEN stalePolls + 1 ELSE stalePolls
              /\ Activate(ServerRollups)
              /\ UNCHANGED watches
         ELSE StartTransition(otherwise, "absent")
    /\ UNCHANGED <<layout, d3Loaded>>

\* Mutant: the watch fills the transaction type but never resolves.
LoadLayout_noResolve(l) ==
    /\ layout = NoLayout
    /\ layout' = l
    /\ loc' = [loc EXCEPT !.tt = FillTT(TRUE \in watches, loc.tt, l.defaultTT)]
    /\ watches' = {}
    /\ UNCHANGED <<active, pending, d3Loaded, stalePolls, defaulted, navs>>

\* The bootstrap sets $rootScope.layout (development mode only).  Every
\* registered watch fires (lines 35-44): it fills the transaction type if
\* it needs one, resolves its promise and unregisters.
LoadLayout(l) ==
    /\ layout = NoLayout
    /\ layout' = l
    /\ loc' = [loc EXCEPT !.tt = FillTT(TRUE \in watches, loc.tt, l.defaultTT)]
    /\ watches' = {}
    /\ IF pending.waitLayout /\ ~pending.waitD3
         THEN Activate(pending.to)
         ELSE pending' = [pending EXCEPT !.waitLayout = FALSE] /\ UNCHANGED active
    /\ UNCHANGED <<d3Loaded, stalePolls, defaulted, navs>>

\* The d3 script finishes loading.
LoadD3 ==
    /\ ~d3Loaded
    /\ d3Loaded' = TRUE
    /\ UNCHANGED <<layout, loc, active, pending, watches, stalePolls, defaulted, navs>>

\* checkForD3 of the pending transition finds window.d3 and resolves (line
\* 193); while d3 is missing it reschedules itself, which changes nothing.
checkForD3 ==
    /\ pending.waitD3
    /\ d3Loaded
    /\ IF pending.waitLayout
         THEN pending' = [pending EXCEPT !.waitD3 = FALSE] /\ UNCHANGED active
         ELSE Activate(pending.to)
    /\ UNCHANGED <<layout, loc, watches, d3Loaded, stalePolls, defaulted, navs>>

\* Mutant: the else of line 194 dropped; a timer that finds window.d3
\* resolves and schedules itself again, so its chain never ends.
checkForD3Stale_noElse ==
    /\ stalePolls > 0
    /\ d3Loaded
    /\ UNCHANGED <<layout, loc, active, pending, watches, d3Loaded, stalePolls,
                   defaulted, navs>>

\* checkForD3 of a superseded transition finds window.d3: it resolves a
\* promise nobody waits for and stops polling.
checkForD3Stale ==
    /\ stalePolls > 0
    /\ d3Loaded
    /\ stalePolls' = stalePolls - 1
    /\ UNCHANGED <<layout, loc, active, pending, watches, d3Loaded, defaulted, navs>>

Init ==
    /\ \E w \in WindowLayout : layout \in IF w THEN Layouts ELSE {NoLayout}
    /\ loc = [state |-> "none", tt |-> "absent"]
    /\ active = "none"
    /\ pending = NoTrans
    /\ watches = {}
    /\ d3Loaded = FALSE
    /\ stalePolls = 0
    /\ defaulted = FALSE
    /\ navs = 0

Next ==
    \/ \E n \in Navigable, tt \in TT \cup {"absent"} : Navigate(n, tt)
    \/ NavigateUnmatched
    \/ \E l \in Layouts : LoadLayout(l)
    \/ LoadD3
    \/ checkForD3
    \/ checkForD3Stale

\* $timeout callbacks fire; the layout and d3 are not guaranteed to arrive.
Fairness == WF_vars(checkForD3) /\ WF_vars(checkForD3Stale)

Spec == Init /\ [][Next]_vars /\ Fairness

-----------------------------------------------------------------------------
(* Properties                                                              *)

TypeOK ==
    /\ layout \in Layouts \cup {NoLayout}
    /\ loc \in Locs
    /\ active \in Views \cup {"none"}
    /\ pending \in Transitions
    /\ watches \in SUBSET BOOLEAN
    /\ d3Loaded \in BOOLEAN
    /\ stalePolls \in 0..MaxNav
    /\ defaulted \in BOOLEAN
    /\ navs \in 0..MaxNav

\* No view's controller runs before its preconditions: the active state's
\* lineage resolves waitForLayout, so the layout is loaded, and if it
\* resolves waitForD3, d3 is loaded.  Children of jvm and config inherit
\* the precondition from their parent.
ActiveViewResolved ==
    active \in Names =>
        /\ WaitsLayout(active) /\ layout # NoLayout
        /\ WaitsD3(active) => d3Loaded

\* The views that filter by transaction type: every transaction and error
\* view, the flame graphs included.
TransactionTypeViews == {r.name : r \in TransactionRoutes \cup ErrorRoutes}

\* A transaction or error view becomes active only with a transaction type
\* in the url, unless the layout offers none: the default is filled in by
\* the resolve of the view's root state, in either bootstrap mode.
TransactionTypeOnActivate ==
    [][ (active' # active /\ active' \in TransactionTypeViews)
          => (loc'.tt \in TT \/ DefaultTT' = "") ]_vars

\* Once the layout and d3 are loaded, every pending transition completes.
NavigationCompletes ==
    (pending.to # "none" /\ layout # NoLayout /\ d3Loaded) ~> (pending.to = "none")

\* The checkForD3 chains of transitions the user left (lines 191-199) each
\* poll every 100 ms until they see window.d3: once d3 has loaded, every
\* such chain stops, however many navigations superseded a waiting view.
StaleTimersStop ==
    d3Loaded ~> (stalePolls = 0)

\* Spec 8: the default route is the server-rollup list in central mode and
\* the average-transaction view otherwise.
DefaultRouteMatchesMode ==
    (defaulted /\ layout # NoLayout) => ((loc.state = ServerRollups) = layout.central)

\* Spec 4.2 (a): a state's waitForLayout(true) gives the url of that state a
\* transaction type.  When the layout arrives, only the url of a view
\* that needs one gets a transaction type written into it.
LayoutWritesOnlyOwnTT ==
    [][ (layout = NoLayout /\ layout' # NoLayout /\ loc'.tt # loc.tt)
          => NeedsTT(loc.state) ]_vars

=============================================================================
