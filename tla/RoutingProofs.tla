--------------------------- MODULE RoutingProofs ---------------------------
(***************************************************************************)
(* Proofs about the routing model: that no view's controller runs before  *)
(* the layout (and d3, where the view asks for it) is loaded, for every    *)
(* set of transaction types and every bound on navigation.                 *)
(***************************************************************************)
EXTENDS Routing, TLAPS

\* The roots of routes.js whose descendants inherit their resolves.
Parents == {"transaction", "transaction.detail", "error", "error.detail",
            "jvm", "config"}

(***************************************************************************)
(* Facts about the route table, read off its literal definition.          *)
(***************************************************************************)
LEMMA RootsWaitForLayout ==
    \A r \in Routes :
        r.name \in {"transaction", "error", "jvm", "config"} => r.wl # "none"
BY DEF Routes, TransactionRoutes, ErrorRoutes, JvmRoutes, ConfigRoutes,
       LoginRoutes, R

LEMMA DetailParents ==
    \A r \in Routes :
        /\ r.name = "transaction.detail" => r.parent = "transaction"
        /\ r.name = "error.detail" => r.parent = "error"
BY DEF Routes, TransactionRoutes, ErrorRoutes, JvmRoutes, ConfigRoutes,
       LoginRoutes, R

LEMMA InheritorsHaveParents ==
    \A r \in Routes : r.wl = "none" => r.parent \in Parents
BY DEF Routes, TransactionRoutes, ErrorRoutes, JvmRoutes, ConfigRoutes,
       LoginRoutes, R, Parents

LEMMA DefaultViewConcrete ==
    \A r \in Routes : r.name = "transaction.detail.average" => ~r.abstract
BY DEF Routes, TransactionRoutes, ErrorRoutes, JvmRoutes, ConfigRoutes,
       LoginRoutes, R

LEMMA ServerRollupsUnnamed ==
    \A r \in Routes : r.name \notin {ServerRollups, "none"}
BY DEF Routes, TransactionRoutes, ErrorRoutes, JvmRoutes, ConfigRoutes,
       LoginRoutes, R, ServerRollups

LEMMA NamedStates ==
    Parents \cup {"transaction.detail.average"} \subseteq Names
<1>1. /\ R("transaction", Root, TRUE, "tt", FALSE) \in Routes
      /\ R("transaction.detail", "transaction", TRUE, "none", FALSE) \in Routes
      /\ R("transaction.detail.average", "transaction.detail", FALSE, "none", FALSE)
           \in Routes
      /\ R("error", Root, TRUE, "tt", FALSE) \in Routes
      /\ R("error.detail", "error", TRUE, "none", FALSE) \in Routes
      /\ R("jvm", Root, FALSE, "plain", FALSE) \in Routes
      /\ R("config", Root, FALSE, "plain", FALSE) \in Routes
  BY DEF Routes, TransactionRoutes, ErrorRoutes, JvmRoutes, ConfigRoutes
<1>2. \A r \in Routes : r.name \in Names
  BY DEF Names
<1> QED
  BY <1>1, <1>2 DEF Parents, R

LEMMA RouteOfName ==
    ASSUME NEW n \in Names
    PROVE  Route(n) \in Routes /\ Route(n).name = n
BY DEF Names, Route

\* Every state of routes.js resolves waitForLayout, its own or an
\* ancestor's: the children of jvm and config inherit the plain one, the
\* transaction and error views the one that fills the transaction type.
LEMMA EveryStateWaitsForLayout ==
    ASSUME NEW n \in Names
    PROVE  WaitsLayout(n)
<1>1. Route(n) \in Routes /\ Route(n).name = n
  BY RouteOfName
<1>2. CASE Route(n).wl # "none"
  <2>1. n \in Lineage(n)
    BY DEF Lineage
  <2> QED
    BY <1>2, <2>1 DEF WaitsLayout
<1>3. CASE Route(n).wl = "none"
  <2> DEFINE p == Route(n).parent
  <2>1. p \in Parents
    BY <1>1, <1>3, InheritorsHaveParents
  <2>2. Par(n) = p /\ p \in Names
    BY <2>1, NamedStates DEF Par
  <2>3. Route(p) \in Routes /\ Route(p).name = p
    BY <2>2, RouteOfName
  <2>4. CASE p \in {"transaction", "error", "jvm", "config"}
    <3>1. p \in Lineage(n)
      BY <2>2 DEF Lineage
    <3>2. Route(p).wl # "none"
      BY <2>3, <2>4, RootsWaitForLayout
    <3> QED
      BY <3>1, <3>2 DEF WaitsLayout
  <2>5. CASE p \in {"transaction.detail", "error.detail"}
    <3> DEFINE g == Route(p).parent
    <3>1. g \in {"transaction", "error"}
      BY <2>3, <2>5, DetailParents
    <3>2. Par(p) = g /\ g \in Names
      BY <2>2, <3>1, NamedStates DEF Par, Parents
    <3>3. g \in Lineage(n)
      BY <2>2, <3>2 DEF Lineage
    <3>4. Route(g) \in Routes /\ Route(g).name = g
      BY <3>2, RouteOfName
    <3>5. Route(g).wl # "none"
      BY <3>1, <3>4, RootsWaitForLayout
    <3> QED
      BY <3>3, <3>5 DEF WaitsLayout
  <2> QED
    BY <2>1, <2>4, <2>5 DEF Parents
<1> QED
  BY <1>2, <1>3

LEMMA NavigableNamed == Navigable \subseteq Names
BY DEF Navigable

LEMMA DefaultViewNavigable == "transaction.detail.average" \in Navigable
<1>1. "transaction.detail.average" \in Names
  BY NamedStates
<1>2. ~Route("transaction.detail.average").abstract
  BY <1>1, RouteOfName, DefaultViewConcrete
<1> QED
  BY <1>1, <1>2 DEF Navigable

LEMMA ServerRollupsNotNamed == ServerRollups \notin Names /\ "none" \notin Names
BY ServerRollupsUnnamed DEF Names

LEMMA NoLayoutNotLayout == NoLayout \notin Layouts
BY RoutingAssumption, Zenon DEF NoLayout, Layouts

LEMMA MaxNavNat == MaxNav \in Nat
BY RoutingAssumption, Zenon
USE MaxNavNat

-----------------------------------------------------------------------------
(***************************************************************************)
(* The inductive invariant.  Besides the types it says that a superseded  *)
(* checkForD3 timer only exists for a navigation that started it (so the   *)
(* count of stale timers stays within the navigation bound), and that a    *)
(* resolve the pending transition no longer waits for is satisfied: once   *)
(* its layout watch has fired the layout is there, and once its checkForD3 *)
(* has found window.d3 (or the lineage never asked for it) d3 is there.   *)
(* ActiveViewResolved is the same fact about the active state; it is not   *)
(* inductive alone, because LoadLayout and checkForD3 activate the pending *)
(* state.                                                                  *)
(***************************************************************************)
TimersCounted == stalePolls + (IF pending.waitD3 THEN 1 ELSE 0) <= navs

ActiveSatisfied ==
    active \in Names =>
        /\ layout # NoLayout
        /\ WaitsD3(active) => d3Loaded

PendingSatisfied ==
    pending.to \in Names =>
        /\ ~pending.waitLayout => layout # NoLayout
        /\ (~pending.waitD3 /\ WaitsD3(pending.to)) => d3Loaded

IInv == TypeOK /\ TimersCounted /\ ActiveSatisfied /\ PendingSatisfied

\* The arithmetic of the two counters, for every kind of step.
LEMMA CountersStep ==
    ASSUME NEW s \in Nat, NEW v \in 0..MaxNav, NEW b \in BOOLEAN,
           NEW s2, NEW v2, NEW b2 \in BOOLEAN,
           s + (IF b THEN 1 ELSE 0) <= v,
           \/ v < MaxNav /\ v2 = v + 1 /\ s2 = (IF b THEN s + 1 ELSE s)
           \/ s > 0 /\ s2 = s - 1 /\ v2 = v /\ b2 = b
           \/ s2 = s /\ v2 = v /\ (b2 => b)
    PROVE  /\ s2 \in 0..MaxNav /\ v2 \in 0..MaxNav
           /\ s2 + (IF b2 THEN 1 ELSE 0) <= v2
OBVIOUS

\* The facts of TypeOK, one by one.  TypeOK itself mentions the empty
\* string (in Layouts and TTValues), which only Zenon reasons about; the
\* other steps cite Typed and leave those sets unexpanded.
Typed ==
    /\ layout \in Layouts \cup {NoLayout}
    /\ loc \in Locs
    /\ active \in Views \cup {"none"}
    /\ pending \in Transitions
    /\ pending.waitD3 \in BOOLEAN /\ pending.waitLayout \in BOOLEAN
    /\ pending.to \in Navigable \cup {"none"}
    /\ watches \in SUBSET BOOLEAN
    /\ d3Loaded \in BOOLEAN
    /\ stalePolls \in Nat /\ stalePolls \in 0..MaxNav
    /\ defaulted \in BOOLEAN
    /\ navs \in 0..MaxNav

LEMMA TypeFacts == TypeOK => Typed
<1> SUFFICES ASSUME TypeOK PROVE Typed
  OBVIOUS
<1>1. stalePolls \in 0..MaxNav /\ navs \in 0..MaxNav /\ pending \in Transitions
  BY Zenon DEF TypeOK
<1>2. stalePolls \in Nat
  BY <1>1
<1>3. pending.waitD3 \in BOOLEAN /\ pending.waitLayout \in BOOLEAN
      /\ pending.to \in Navigable \cup {"none"}
  BY <1>1 DEF Transitions
<1> QED
  BY <1>1, <1>2, <1>3, Zenon DEF TypeOK, Typed

LEMMA InitIInv == Init => IInv
<1> SUFFICES ASSUME Init PROVE IInv
  OBVIOUS
<1>1. 0 \in 0..MaxNav
  OBVIOUS
<1>2. "absent" \in TTValues /\ "none" \in Views \cup {"none"}
  BY Zenon DEF TTValues
<1>3. NoTrans \in Transitions
  BY DEF NoTrans, Transitions
<1>4. TypeOK
  BY <1>1, <1>2, <1>3, Zenon DEF Init, TypeOK, Locs
<1>5. TimersCounted
  BY DEF Init, NoTrans, TimersCounted
<1>6. ActiveSatisfied /\ PendingSatisfied
  BY ServerRollupsNotNamed DEF Init, NoTrans, ActiveSatisfied, PendingSatisfied
<1> QED
  BY <1>4, <1>5, <1>6 DEF IInv

\* The value defaultTransactionType() gives the resolves.
LEMMA DefaultTTType ==
    ASSUME layout \in Layouts \cup {NoLayout}
    PROVE  DefaultTT \in TT \cup {""}
BY Zenon DEF DefaultTT, Layouts

\* A transition starts to a state of the table (by Navigate, or by the
\* default route): the url it writes is well typed, and whatever it does not
\* wait for is already there.
LEMMA StartIInv ==
    ASSUME IInv, NEW n \in Navigable, NEW tt \in TT \cup {"absent"},
           navs < MaxNav, navs' = navs + 1, defaulted' \in BOOLEAN,
           StartTransition(n, tt), UNCHANGED <<layout, d3Loaded>>
    PROVE  IInv'
<1> DEFINE needs == NeedsTT(n)
           waitL == WaitsLayout(n) /\ layout = NoLayout
           waitD == WaitsD3(n)
<1>1. Typed /\ TimersCounted /\ ActiveSatisfied /\ PendingSatisfied
  BY TypeFacts DEF IInv
<1>2. n \in Names /\ WaitsLayout(n)
  BY NavigableNamed, EveryStateWaitsForLayout
<1>3. /\ loc' = [state |-> n, tt |-> IF WaitsLayout(n)
                                      THEN FillTT(needs, tt, DefaultTT) ELSE tt]
      /\ watches' = IF waitL THEN watches \cup {needs} ELSE watches
      /\ stalePolls' = IF pending.waitD3 THEN stalePolls + 1 ELSE stalePolls
      /\ IF waitL \/ waitD
           THEN pending' = [to |-> n, waitLayout |-> waitL, waitD3 |-> waitD]
                /\ active' = active
           ELSE active' = n /\ pending' = NoTrans
  BY DEF StartTransition, Activate
<1>4. loc' \in Locs
  <2>1. DefaultTT \in TT \cup {""}
    BY <1>1, DefaultTTType DEF Typed
  <2>2. FillTT(needs, tt, DefaultTT) \in TTValues
    BY <2>1, Zenon DEF FillTT, TTValues
  <2>3. tt \in TTValues /\ n \in Views \cup {"none"}
    BY Zenon DEF TTValues, Views
  <2> QED
    BY <1>3, <2>2, <2>3, Zenon DEF Locs
<1>5. watches' \in SUBSET BOOLEAN
  <2>1. needs \in BOOLEAN /\ waitL \in BOOLEAN
    BY DEF needs, waitL, NeedsTT, WaitsLayout
  <2> QED
    BY <1>1, <1>3, <2>1 DEF Typed
<1>6. CASE waitL \/ waitD
  <2>1. pending' = [to |-> n, waitLayout |-> waitL, waitD3 |-> waitD]
        /\ active' = active
    BY <1>3, <1>6
  <2>2. pending' \in Transitions /\ pending'.waitD3 \in BOOLEAN
    <3>1. waitL \in BOOLEAN /\ waitD \in BOOLEAN /\ n \in Navigable \cup {"none"}
      BY DEF waitL, waitD, WaitsLayout, WaitsD3
    <3> QED
      BY <2>1, <3>1 DEF Transitions
  <2>3. stalePolls' \in 0..MaxNav /\ navs' \in 0..MaxNav /\ TimersCounted'
    BY <1>1, <1>3, <2>2, CountersStep DEF TimersCounted, Typed
  <2>4. TypeOK'
    BY <1>1, <1>4, <1>5, <2>1, <2>2, <2>3, Zenon DEF TypeOK, Typed
  <2>5. ActiveSatisfied'
    BY <1>1, <2>1 DEF ActiveSatisfied
  <2>6. PendingSatisfied'
    BY <1>2, <2>1 DEF PendingSatisfied
  <2> QED
    BY <2>3, <2>4, <2>5, <2>6 DEF IInv
<1>7. CASE ~(waitL \/ waitD)
  <2>1. active' = n /\ pending' = NoTrans
    BY <1>3, <1>7
  <2>2. pending' \in Transitions /\ pending'.waitD3 = FALSE
        /\ active' \in Views \cup {"none"}
    BY <2>1 DEF NoTrans, Transitions, Views
  <2>3. stalePolls' \in 0..MaxNav /\ navs' \in 0..MaxNav /\ TimersCounted'
    BY <1>1, <1>3, <2>2, CountersStep DEF TimersCounted, Typed
  <2>4. TypeOK'
    BY <1>1, <1>4, <1>5, <2>2, <2>3, Zenon DEF TypeOK, Typed
  <2>5. ActiveSatisfied'
    BY <1>2, <1>7, <2>1 DEF ActiveSatisfied
  <2>6. PendingSatisfied'
    BY <2>1, ServerRollupsNotNamed DEF PendingSatisfied, NoTrans
  <2> QED
    BY <2>3, <2>4, <2>5, <2>6 DEF IInv
<1> QED
  BY <1>6, <1>7

\* The user opens a url no state matches: in central mode the server-rollup
\* list, which no resolve delays, otherwise a transition to the average view.
LEMMA UnmatchedIInv ==
    ASSUME IInv, NavigateUnmatched
    PROVE  IInv'
<1>1. Typed /\ TimersCounted /\ ActiveSatisfied /\ PendingSatisfied
  BY TypeFacts DEF IInv
<1>2. navs < MaxNav /\ navs' = navs + 1 /\ defaulted' = TRUE
      /\ UNCHANGED <<layout, d3Loaded>>
  BY DEF NavigateUnmatched
<1>3. otherwise \in {ServerRollups, "transaction.detail.average"}
  BY DEF otherwise
<1>4. CASE otherwise = ServerRollups
  <2>1. /\ loc' = [state |-> ServerRollups, tt |-> "absent"]
        /\ stalePolls' = IF pending.waitD3 THEN stalePolls + 1 ELSE stalePolls
        /\ active' = ServerRollups /\ pending' = NoTrans
        /\ watches' = watches
    BY <1>4 DEF NavigateUnmatched, Activate
  <2>2. loc' \in Locs
    BY <2>1, Zenon DEF Locs, Views, TTValues
  <2>3. pending' \in Transitions /\ pending'.waitD3 = FALSE
        /\ active' \in Views \cup {"none"}
    BY <2>1 DEF NoTrans, Transitions, Views
  <2>4. stalePolls' \in 0..MaxNav /\ navs' \in 0..MaxNav /\ TimersCounted'
    BY <1>1, <1>2, <2>1, <2>3, CountersStep DEF TimersCounted, Typed
  <2>5. TypeOK'
    BY <1>1, <1>2, <2>1, <2>2, <2>3, <2>4, Zenon DEF TypeOK, Typed
  <2>6. ActiveSatisfied' /\ PendingSatisfied'
    BY <2>1, ServerRollupsNotNamed DEF ActiveSatisfied, PendingSatisfied, NoTrans
  <2> QED
    BY <2>4, <2>5, <2>6 DEF IInv
<1>5. CASE otherwise = "transaction.detail.average"
  <2>1. StartTransition("transaction.detail.average", "absent")
    BY <1>5 DEF NavigateUnmatched, ServerRollups
  <2>2. "absent" \in TT \cup {"absent"}
    OBVIOUS
  <2> QED
    BY <1>2, <2>1, <2>2, DefaultViewNavigable, StartIInv
<1> QED
  BY <1>3, <1>4, <1>5

\* The layout arrives: every registered watch fills the transaction type and
\* resolves, so the pending transition completes unless it still polls for d3.
LEMMA LoadLayoutIInv ==
    ASSUME IInv, NEW l \in Layouts, LoadLayout(l)
    PROVE  IInv'
<1>1. Typed /\ TimersCounted /\ ActiveSatisfied /\ PendingSatisfied
  BY TypeFacts DEF IInv
<1>2. /\ layout = NoLayout /\ layout' = l
      /\ loc' = [loc EXCEPT !.tt = FillTT(TRUE \in watches, loc.tt, l.defaultTT)]
      /\ watches' = {}
      /\ IF pending.waitLayout /\ ~pending.waitD3
           THEN active' = pending.to /\ pending' = NoTrans
           ELSE pending' = [pending EXCEPT !.waitLayout = FALSE] /\ active' = active
      /\ UNCHANGED <<d3Loaded, stalePolls, defaulted, navs>>
  BY DEF LoadLayout, Activate
<1>3. layout' # NoLayout
  BY <1>2, NoLayoutNotLayout
<1>4. loc' \in Locs
  <2>1. l.defaultTT \in TT \cup {""}
    BY Zenon DEF Layouts
  <2>2. loc \in Locs
    BY <1>1 DEF Typed
  <2>3. FillTT(TRUE \in watches, loc.tt, l.defaultTT) \in TTValues
    BY <2>1, <2>2, Zenon DEF FillTT, TTValues, Locs
  <2> QED
    BY <1>2, <2>2, <2>3, Zenon DEF Locs
<1>5. layout' \in Layouts \cup {NoLayout} /\ watches' \in SUBSET BOOLEAN
  BY <1>2
<1>6. CASE pending.waitLayout /\ ~pending.waitD3
  <2>1. active' = pending.to /\ pending' = NoTrans
    BY <1>2, <1>6
  <2>2. pending' \in Transitions /\ pending'.waitD3 = FALSE
        /\ active' \in Views \cup {"none"}
    BY <1>1, <2>1 DEF NoTrans, Transitions, Views, Typed
  <2>3. stalePolls' \in 0..MaxNav /\ navs' \in 0..MaxNav /\ TimersCounted'
    BY <1>1, <1>2, <2>2, CountersStep DEF TimersCounted, Typed
  <2>4. TypeOK'
    BY <1>1, <1>2, <1>4, <1>5, <2>2, <2>3, Zenon DEF TypeOK, Typed
  <2>5. ActiveSatisfied'
    BY <1>1, <1>2, <1>3, <1>6, <2>1 DEF ActiveSatisfied, PendingSatisfied
  <2>6. PendingSatisfied'
    BY <2>1, ServerRollupsNotNamed DEF PendingSatisfied, NoTrans
  <2> QED
    BY <2>3, <2>4, <2>5, <2>6 DEF IInv
<1>7. CASE ~(pending.waitLayout /\ ~pending.waitD3)
  <2>1. pending' = [pending EXCEPT !.waitLayout = FALSE] /\ active' = active
    BY <1>2, <1>7
  <2>2. pending' \in Transitions /\ pending'.waitD3 = pending.waitD3
        /\ pending'.to = pending.to
    BY <1>1, <2>1 DEF Transitions, Typed
  <2>3. stalePolls' \in 0..MaxNav /\ navs' \in 0..MaxNav /\ TimersCounted'
    BY <1>1, <1>2, <2>2, CountersStep DEF TimersCounted, Typed
  <2>4. TypeOK'
    BY <1>1, <1>2, <1>4, <1>5, <2>1, <2>2, <2>3, Zenon DEF TypeOK, Typed
  <2>5. ActiveSatisfied'
    BY <1>1, <1>2, <1>3, <2>1 DEF ActiveSatisfied
  <2>6. PendingSatisfied'
    BY <1>1, <1>2, <1>3, <2>2 DEF PendingSatisfied
  <2> QED
    BY <2>3, <2>4, <2>5, <2>6 DEF IInv
<1> QED
  BY <1>6, <1>7

\* checkForD3 of the pending transition finds d3: it completes the
\* transition if the layout watch has already fired.
LEMMA CheckForD3IInv ==
    ASSUME IInv, checkForD3
    PROVE  IInv'
<1>1. Typed /\ TimersCounted /\ ActiveSatisfied /\ PendingSatisfied
  BY TypeFacts DEF IInv
<1>2. /\ pending.waitD3 /\ d3Loaded
      /\ IF pending.waitLayout
           THEN pending' = [pending EXCEPT !.waitD3 = FALSE] /\ active' = active
           ELSE active' = pending.to /\ pending' = NoTrans
      /\ UNCHANGED <<layout, loc, watches, d3Loaded, stalePolls, defaulted, navs>>
  BY DEF checkForD3, Activate
<1>3. CASE pending.waitLayout
  <2>1. pending' = [pending EXCEPT !.waitD3 = FALSE] /\ active' = active
    BY <1>2, <1>3
  <2>2. pending' \in Transitions /\ pending'.waitD3 = FALSE
        /\ pending'.waitLayout = pending.waitLayout /\ pending'.to = pending.to
    BY <1>1, <2>1 DEF Transitions, Typed
  <2>3. stalePolls' \in 0..MaxNav /\ navs' \in 0..MaxNav /\ TimersCounted'
    BY <1>1, <1>2, <2>2, CountersStep DEF TimersCounted, Typed
  <2>4. TypeOK'
    BY <1>1, <1>2, <2>1, <2>2, <2>3, Zenon DEF TypeOK, Typed
  <2>5. ActiveSatisfied' /\ PendingSatisfied'
    BY <1>1, <1>2, <2>1, <2>2 DEF ActiveSatisfied, PendingSatisfied
  <2> QED
    BY <2>3, <2>4, <2>5 DEF IInv
<1>4. CASE ~pending.waitLayout
  <2>1. active' = pending.to /\ pending' = NoTrans
    BY <1>2, <1>4
  <2>2. pending' \in Transitions /\ pending'.waitD3 = FALSE
        /\ active' \in Views \cup {"none"}
    BY <1>1, <2>1 DEF NoTrans, Transitions, Views, Typed
  <2>3. stalePolls' \in 0..MaxNav /\ navs' \in 0..MaxNav /\ TimersCounted'
    BY <1>1, <1>2, <2>2, CountersStep DEF TimersCounted, Typed
  <2>4. TypeOK'
    BY <1>1, <1>2, <2>2, <2>3, Zenon DEF TypeOK, Typed
  <2>5. ActiveSatisfied'
    BY <1>1, <1>2, <1>4, <2>1 DEF ActiveSatisfied, PendingSatisfied
  <2>6. PendingSatisfied'
    BY <2>1, ServerRollupsNotNamed DEF PendingSatisfied, NoTrans
  <2> QED
    BY <2>3, <2>4, <2>5, <2>6 DEF IInv
<1> QED
  BY <1>3, <1>4

\* The steps that touch neither the layout, the url nor the transitions:
\* d3 arriving, and a superseded checkForD3 timer stopping.
LEMMA D3IInv ==
    ASSUME IInv, LoadD3 \/ checkForD3Stale
    PROVE  IInv'
<1>1. Typed /\ TimersCounted /\ ActiveSatisfied /\ PendingSatisfied
  BY TypeFacts DEF IInv
<1>2. UNCHANGED <<layout, loc, active, pending, watches, defaulted>>
  BY DEF LoadD3, checkForD3Stale
<1>3. /\ d3Loaded' \in BOOLEAN /\ (d3Loaded => d3Loaded')
      /\ \/ UNCHANGED <<stalePolls, navs>>
         \/ stalePolls > 0 /\ stalePolls' = stalePolls - 1 /\ navs' = navs
  BY <1>1 DEF LoadD3, checkForD3Stale, Typed
<1>4. stalePolls' \in 0..MaxNav /\ navs' \in 0..MaxNav /\ TimersCounted'
  BY <1>1, <1>2, <1>3, CountersStep DEF TimersCounted, Typed
<1>5. TypeOK'
  BY <1>1, <1>2, <1>3, <1>4, Zenon DEF TypeOK, Typed
<1>6. ActiveSatisfied' /\ PendingSatisfied'
  BY <1>1, <1>2, <1>3 DEF ActiveSatisfied, PendingSatisfied
<1> QED
  BY <1>4, <1>5, <1>6 DEF IInv

\* A stuttering step changes no variable.
LEMMA StutterIInv ==
    ASSUME IInv, UNCHANGED vars
    PROVE  IInv'
BY DEF vars, IInv, TypeOK, TimersCounted, ActiveSatisfied, PendingSatisfied,
       Zenon

LEMMA NextIInv == IInv /\ [Next]_vars => IInv'
<1> SUFFICES ASSUME IInv, [Next]_vars PROVE IInv'
  OBVIOUS
<1>1. CASE \E n \in Navigable, tt \in TT \cup {"absent"} : Navigate(n, tt)
  <2>1. PICK n \in Navigable, tt \in TT \cup {"absent"} : Navigate(n, tt)
    BY <1>1
  <2>2. /\ navs < MaxNav /\ navs' = navs + 1 /\ defaulted' \in BOOLEAN
        /\ StartTransition(n, tt) /\ UNCHANGED <<layout, d3Loaded>>
    BY <2>1 DEF Navigate
  <2> QED
    BY <2>2, StartIInv
<1>2. CASE NavigateUnmatched
  BY <1>2, UnmatchedIInv
<1>3. CASE \E l \in Layouts : LoadLayout(l)
  BY <1>3, LoadLayoutIInv
<1>4. CASE checkForD3
  BY <1>4, CheckForD3IInv
<1>5. CASE LoadD3 \/ checkForD3Stale
  BY <1>5, D3IInv
<1>6. CASE UNCHANGED vars
  BY <1>6, StutterIInv
<1> QED
  BY <1>1, <1>2, <1>3, <1>4, <1>5, <1>6 DEF Next

-----------------------------------------------------------------------------
(***************************************************************************)
(* The transaction-type views.                                             *)
(***************************************************************************)
LEMMA TTRoots ==
    \A r \in Routes : r.name \in {"transaction", "error"} => r.wl = "tt"
BY DEF Routes, TransactionRoutes, ErrorRoutes, JvmRoutes, ConfigRoutes,
       LoginRoutes, R

LEMMA TTViewsInherit ==
    \A r \in Routes :
        r.name \in TransactionTypeViews =>
            \/ r.wl = "tt"
            \/ r.parent \in {"transaction", "transaction.detail", "error",
                             "error.detail"}
BY DEF Routes, TransactionRoutes, ErrorRoutes, JvmRoutes, ConfigRoutes,
       LoginRoutes, R, TransactionTypeViews

LEMMA TTViewsNamed == TransactionTypeViews \subseteq Names
BY DEF TransactionTypeViews, Names, Routes

\* Every transaction and error view resolves waitForLayout(true), its own
\* (the flame graphs) or its root's.
LEMMA TTViewsNeedTT ==
    ASSUME NEW n \in TransactionTypeViews
    PROVE  NeedsTT(n)
<1>1. n \in Names /\ Route(n) \in Routes /\ Route(n).name = n
  BY TTViewsNamed, RouteOfName
<1>2. CASE Route(n).wl = "tt"
  <2>1. n \in Lineage(n)
    BY <1>1 DEF Lineage
  <2> QED
    BY <1>2, <2>1 DEF NeedsTT
<1>3. CASE Route(n).wl # "tt"
  <2> DEFINE p == Route(n).parent
  <2>1. p \in {"transaction", "transaction.detail", "error", "error.detail"}
    BY <1>1, <1>3, TTViewsInherit
  <2>2. Par(n) = p /\ p \in Names
    BY <1>1, <2>1, NamedStates DEF Par, Parents
  <2>3. Route(p) \in Routes /\ Route(p).name = p
    BY <2>2, RouteOfName
  <2>4. CASE p \in {"transaction", "error"}
    <3>1. p \in Lineage(n)
      BY <2>2 DEF Lineage
    <3> QED
      BY <2>3, <2>4, <3>1, TTRoots DEF NeedsTT
  <2>5. CASE p \in {"transaction.detail", "error.detail"}
    <3> DEFINE g == Route(p).parent
    <3>1. g \in {"transaction", "error"}
      BY <2>3, <2>5, DetailParents
    <3>2. Par(p) = g /\ g \in Names
      BY <2>2, <3>1, NamedStates DEF Par, Parents
    <3>3. g \in Lineage(n)
      BY <2>2, <3>2 DEF Lineage
    <3>4. Route(g) \in Routes /\ Route(g).name = g
      BY <3>2, RouteOfName
    <3> QED
      BY <3>1, <3>3, <3>4, TTRoots DEF NeedsTT
  <2> QED
    BY <2>1, <2>4, <2>5
<1> QED
  BY <1>2, <1>3

-----------------------------------------------------------------------------
\* Routing's state stays well typed for every set of transaction types and
\* every navigation bound: the urls the resolves write carry a transaction
\* type, the empty one or none, and the stale checkForD3 timers never
\* outnumber the navigations that superseded them.
THEOREM RoutingTypeCorrect == Spec => []TypeOK
<1>1. IInv => TypeOK
  BY DEF IInv
<1> QED
  BY <1>1, InitIInv, NextIInv, PTL DEF Spec

\* No view's controller runs before its resolves: whichever way a state
\* becomes active (at once, when the layout arrives, or when checkForD3
\* finds d3), the layout is loaded and, if its lineage waits for d3, so
\* is d3.
THEOREM ActiveViewsResolved == Spec => []ActiveViewResolved
<1>1. IInv => ActiveViewResolved
  BY EveryStateWaitsForLayout DEF IInv, ActiveSatisfied, ActiveViewResolved
<1> QED
  BY <1>1, InitIInv, NextIInv, PTL DEF Spec

-----------------------------------------------------------------------------
(***************************************************************************)
(* TransactionTypeOnActivate.  A view that filters by transaction type    *)
(* becomes active with a type in its url, or with none to offer.  The     *)
(* invariant behind it follows the pending transition: the url is its     *)
(* url; while its layout watch is registered, a watch that fills the type *)
(* is registered; and once the watch has fired, the type is filled.       *)
(***************************************************************************)
TTFilled == loc.tt \in TT \/ DefaultTT = ""

TTPending ==
    /\ pending.to # "none" => loc.state = pending.to
    /\ (pending.waitLayout /\ NeedsTT(pending.to)) => TRUE \in watches
    /\ (pending.to \in Names /\ ~pending.waitLayout /\ NeedsTT(pending.to))
          => TTFilled

TTActivation ==
    (active' # active /\ active' \in TransactionTypeViews) => TTFilled'

\* A watch that needs a transaction type leaves one in the url, unless the
\* default it fills in is empty.
LEMMA FillGivesTT ==
    ASSUME NEW t \in TTValues, NEW d \in TT \cup {""}
    PROVE  FillTT(TRUE, t, d) \in TT \/ d = ""
BY Zenon DEF FillTT, TTValues

LEMMA StartTT ==
    ASSUME IInv, TTPending, NEW n \in Navigable, NEW tt \in TT \cup {"absent"},
           StartTransition(n, tt), UNCHANGED layout
    PROVE  TTPending' /\ TTActivation
<1> DEFINE waitL == WaitsLayout(n) /\ layout = NoLayout
           waitD == WaitsD3(n)
<1>1. Typed
  BY TypeFacts DEF IInv
<1>2. n \in Names /\ WaitsLayout(n)
  BY NavigableNamed, EveryStateWaitsForLayout
<1>3. /\ loc' = [state |-> n, tt |-> IF WaitsLayout(n)
                                      THEN FillTT(NeedsTT(n), tt, DefaultTT) ELSE tt]
      /\ watches' = IF waitL THEN watches \cup {NeedsTT(n)} ELSE watches
      /\ IF waitL \/ waitD
           THEN pending' = [to |-> n, waitLayout |-> waitL, waitD3 |-> waitD]
                /\ active' = active
           ELSE active' = n /\ pending' = NoTrans
  BY DEF StartTransition, Activate
<1>4. DefaultTT' = DefaultTT /\ DefaultTT \in TT \cup {""}
  <2>1. DefaultTT \in TT \cup {""}
    BY <1>1, DefaultTTType DEF Typed
  <2> QED
    BY <2>1, Zenon DEF DefaultTT
<1>5. NeedsTT(n) => TTFilled'
  <2>1. NeedsTT(n) => loc'.tt = FillTT(TRUE, tt, DefaultTT)
    BY <1>2, <1>3
  <2>2. tt \in TTValues
    BY Zenon DEF TTValues
  <2>3. FillTT(TRUE, tt, DefaultTT) \in TT \/ DefaultTT = ""
    BY <1>4, <2>2, FillGivesTT, Zenon
  <2> QED
    BY <1>4, <2>1, <2>3, Zenon DEF TTFilled
<1>6. CASE waitL \/ waitD
  <2>1. pending' = [to |-> n, waitLayout |-> waitL, waitD3 |-> waitD]
        /\ active' = active
    BY <1>3, <1>6
  <2>2. loc'.state = pending'.to
    BY <1>3, <2>1
  <2>3. (pending'.waitLayout /\ NeedsTT(pending'.to)) => TRUE \in watches'
    BY <1>3, <2>1
  <2>4. (~pending'.waitLayout /\ NeedsTT(pending'.to)) => TTFilled'
    BY <1>2, <1>5, <2>1
  <2> QED
    BY <2>1, <2>2, <2>3, <2>4 DEF TTPending, TTActivation
<1>7. CASE ~(waitL \/ waitD)
  <2>1. active' = n /\ pending' = NoTrans
    BY <1>3, <1>7
  <2>2. TTPending'
    BY <2>1, ServerRollupsNotNamed DEF TTPending, NoTrans
  <2>3. n \in TransactionTypeViews => TTFilled'
    BY <1>5, TTViewsNeedTT
  <2> QED
    BY <2>1, <2>2, <2>3 DEF TTActivation
<1> QED
  BY <1>6, <1>7

LEMMA UnmatchedTT ==
    ASSUME IInv, TTPending, NavigateUnmatched
    PROVE  TTPending' /\ TTActivation
<1>1. otherwise \in {ServerRollups, "transaction.detail.average"}
  BY DEF otherwise
<1>2. CASE otherwise = ServerRollups
  <2>1. active' = ServerRollups /\ pending' = NoTrans
    BY <1>2 DEF NavigateUnmatched, Activate
  <2>2. ServerRollups \notin TransactionTypeViews
    BY ServerRollupsNotNamed, TTViewsNamed
  <2> QED
    BY <2>1, <2>2, ServerRollupsNotNamed DEF TTPending, NoTrans, TTActivation
<1>3. CASE otherwise = "transaction.detail.average"
  <2>1. StartTransition("transaction.detail.average", "absent")
        /\ UNCHANGED layout
    BY <1>3 DEF NavigateUnmatched, ServerRollups
  <2>2. "absent" \in TT \cup {"absent"}
    OBVIOUS
  <2> QED
    BY <2>1, <2>2, DefaultViewNavigable, StartTT
<1> QED
  BY <1>1, <1>2, <1>3

\* The layout arrives: the pending transition's watch fills its url's
\* transaction type with the layout's default.
LEMMA LoadLayoutTT ==
    ASSUME IInv, TTPending, NEW l \in Layouts, LoadLayout(l)
    PROVE  TTPending' /\ TTActivation
<1>1. Typed /\ PendingSatisfied
  BY TypeFacts DEF IInv
<1>2. /\ layout = NoLayout /\ layout' = l
      /\ loc' = [loc EXCEPT !.tt = FillTT(TRUE \in watches, loc.tt, l.defaultTT)]
      /\ IF pending.waitLayout /\ ~pending.waitD3
           THEN active' = pending.to /\ pending' = NoTrans
           ELSE pending' = [pending EXCEPT !.waitLayout = FALSE] /\ active' = active
  BY DEF LoadLayout, Activate
<1>3. DefaultTT' = l.defaultTT /\ l.defaultTT \in TT \cup {""}
  BY <1>2, NoLayoutNotLayout, Zenon DEF DefaultTT, Layouts
<1>4. /\ loc \in Locs /\ loc'.state = loc.state
      /\ loc'.tt = FillTT(TRUE \in watches, loc.tt, l.defaultTT)
  BY <1>1, <1>2, Zenon DEF Typed, Locs
\* Where the pending transition's watch is registered, the type is filled.
<1>5. (pending.waitLayout /\ NeedsTT(pending.to)) => TTFilled'
  <2>1. loc.tt \in TTValues
    BY <1>4, Zenon DEF Locs
  <2>2. FillTT(TRUE, loc.tt, l.defaultTT) \in TT \/ l.defaultTT = ""
    BY <1>3, <2>1, FillGivesTT, Zenon
  <2>3. (pending.waitLayout /\ NeedsTT(pending.to))
          => loc'.tt = FillTT(TRUE, loc.tt, l.defaultTT)
    BY <1>2, <1>4 DEF TTPending
  <2> QED
    BY <1>3, <2>2, <2>3, Zenon DEF TTFilled
<1>6. CASE pending.waitLayout /\ ~pending.waitD3
  <2>1. active' = pending.to /\ pending' = NoTrans
    BY <1>2, <1>6
  <2>2. pending.to \in TransactionTypeViews => NeedsTT(pending.to)
    BY TTViewsNeedTT
  <2> QED
    BY <1>5, <1>6, <2>1, <2>2, ServerRollupsNotNamed
       DEF TTPending, NoTrans, TTActivation
<1>7. CASE ~(pending.waitLayout /\ ~pending.waitD3)
  <2>1. pending' = [pending EXCEPT !.waitLayout = FALSE] /\ active' = active
    BY <1>2, <1>7
  <2>2. pending' = [pending EXCEPT !.waitLayout = FALSE]
        /\ pending'.to = pending.to /\ ~pending'.waitLayout
    BY <1>1, <2>1 DEF Typed, Transitions
  \* A transition whose watch has fired would already have the layout.
  <2>3. pending.to \in Names => pending.waitLayout
    BY <1>1, <1>2 DEF PendingSatisfied
  <2> QED
    BY <1>4, <1>5, <2>1, <2>2, <2>3 DEF TTPending, TTActivation
<1> QED
  BY <1>6, <1>7

\* checkForD3 completes a transition whose watch has already filled the type.
LEMMA CheckForD3TT ==
    ASSUME IInv, TTPending, checkForD3
    PROVE  TTPending' /\ TTActivation
<1>1. Typed
  BY TypeFacts DEF IInv
<1>2. /\ IF pending.waitLayout
           THEN pending' = [pending EXCEPT !.waitD3 = FALSE] /\ active' = active
           ELSE active' = pending.to /\ pending' = NoTrans
      /\ UNCHANGED <<layout, loc, watches>>
  BY DEF checkForD3, Activate
<1>3. TTFilled' = TTFilled
  BY <1>2, Zenon DEF TTFilled, DefaultTT
<1>4. CASE pending.waitLayout
  <2>1. /\ active' = active
        /\ pending'.to = pending.to /\ pending'.waitLayout = pending.waitLayout
    BY <1>1, <1>2, <1>4 DEF Typed, Transitions
  <2> QED
    BY <1>2, <1>3, <2>1 DEF TTPending, TTActivation
<1>5. CASE ~pending.waitLayout
  <2>1. active' = pending.to /\ pending' = NoTrans
    BY <1>2, <1>5
  <2>2. pending.to \in TransactionTypeViews
          => pending.to \in Names /\ NeedsTT(pending.to)
    BY TTViewsNeedTT, TTViewsNamed
  <2> QED
    BY <1>3, <1>5, <2>1, <2>2, ServerRollupsNotNamed
       DEF TTPending, NoTrans, TTActivation
<1> QED
  BY <1>4, <1>5

\* d3 arriving, a stale timer stopping, or a stutter: nothing TTPending or
\* the activation reads changes.
LEMMA QuietTT ==
    ASSUME TTPending, LoadD3 \/ checkForD3Stale \/ UNCHANGED vars
    PROVE  TTPending' /\ TTActivation
<1>1. UNCHANGED <<layout, loc, active, pending, watches>>
  BY DEF LoadD3, checkForD3Stale, vars
<1>2. TTFilled' = TTFilled
  BY <1>1, Zenon DEF TTFilled, DefaultTT
<1> QED
  BY <1>1, <1>2 DEF TTPending, TTActivation

LEMMA NextTT == IInv /\ TTPending /\ [Next]_vars => TTPending' /\ TTActivation
<1> SUFFICES ASSUME IInv, TTPending, [Next]_vars
             PROVE  TTPending' /\ TTActivation
  OBVIOUS
<1>1. CASE \E n \in Navigable, tt \in TT \cup {"absent"} : Navigate(n, tt)
  <2>1. PICK n \in Navigable, tt \in TT \cup {"absent"} : Navigate(n, tt)
    BY <1>1
  <2>2. StartTransition(n, tt) /\ UNCHANGED layout
    BY <2>1 DEF Navigate
  <2> QED
    BY <2>2, StartTT
<1>2. CASE NavigateUnmatched
  BY <1>2, UnmatchedTT
<1>3. CASE \E l \in Layouts : LoadLayout(l)
  BY <1>3, LoadLayoutTT
<1>4. CASE checkForD3
  BY <1>4, CheckForD3TT
<1>5. CASE LoadD3 \/ checkForD3Stale \/ UNCHANGED vars
  BY <1>5, QuietTT
<1> QED
  BY <1>1, <1>2, <1>3, <1>4, <1>5 DEF Next

LEMMA InitTT == Init => TTPending
BY ServerRollupsNotNamed DEF Init, TTPending, NoTrans

\* A transaction or error view never becomes active without a transaction
\* type in its url, unless the layout offers none: whichever event completes
\* the transition (the navigation itself, the layout arriving, or
\* checkForD3), the waitForLayout(true) of the view's root has filled the
\* type in.
THEOREM TransactionTypeFilled == Spec => TransactionTypeOnActivate
<1>1. Spec => [](IInv /\ TTPending)
  <2>1. Init => IInv /\ TTPending
    BY InitIInv, InitTT
  <2>2. IInv /\ TTPending /\ [Next]_vars => (IInv /\ TTPending)'
    BY NextIInv, NextTT
  <2> QED
    BY <2>1, <2>2, PTL DEF Spec
<1>2. IInv /\ TTPending /\ [Next]_vars => [TTActivation]_vars
  BY NextTT
<1>3. [TTActivation]_vars
        => [(active' # active /\ active' \in TransactionTypeViews)
              => (loc'.tt \in TT \/ DefaultTT' = "")]_vars
  BY Zenon DEF TTActivation, TTFilled
<1> QED
  BY <1>1, <1>2, <1>3, PTL DEF Spec, TransactionTypeOnActivate

=============================================================================
