----------------------------- MODULE RootScope -----------------------------
(***************************************************************************)
(* The root-scope server selection of app.js 102-161: the                  *)
(* $locationChangeSuccess listener that derives serverId and serverRollup  *)
(* from the url, and the helpers that read them: serverQueryString,        *)
(* serverRollupUrl, transactionTypes and defaultTransactionType.           *)
(*                                                                         *)
(* The url's query is a record of its server-id, server-rollup and         *)
(* transaction-type parameters, Absent when the url has none.  Encoding a  *)
(* query into a url and parsing it back (encodeURIComponent,               *)
(* queryStrings.encodeObject, $location.search) gives back the same       *)
(* parameters, so a link is modelled by the query it carries.             *)
(***************************************************************************)
EXTENDS Naturals, Sequences

CONSTANTS
    Servers,   \* leaf server ids
    Rollups,   \* server-rollup ids
    TTs,       \* transaction types
    Layouts,   \* the layouts the server can send
    Absent,    \* a query parameter the url does not have
    NoLayout,  \* $rootScope.layout before it is loaded
    MaxNav     \* bound on navigations

ASSUME RootScopeAssumption ==
    /\ MaxNav \in Nat
    /\ Absent \notin Servers \cup Rollups \cup TTs \cup {""}
    /\ NoLayout \notin Layouts
    \* The layout's JSON: a mode flag, and for each rollup the array of its
    \* transaction types.
    /\ \A l \in Layouts :
         /\ l.central \in BOOLEAN
         /\ \A k \in DOMAIN l.serverRollups : l.serverRollups[k] \in Seq(TTs)

Ids == Servers \cup Rollups

\* The queries a url can carry.
Queries == [sid : Servers \cup {Absent}, sr : Rollups \cup {Absent},
            tt : TTs \cup {Absent}]

VARIABLES
    query,         \* $location.search()
    serverId,      \* $rootScope.serverId
    serverRollup,  \* $rootScope.serverRollup
    layout,        \* $rootScope.layout
    lastLink,      \* the serverRollupUrl link followed last (history only)
    navs           \* navigations so far

vars == <<query, serverId, serverRollup, layout, lastLink, navs>>

NoLink == [r |-> Absent, leaf |-> FALSE]

-----------------------------------------------------------------------------
(* The helpers                                                             *)

Central == layout # NoLayout /\ layout.central

\* serverQueryString (lines 109-118) for a selection, as the query its
\* string carries.
serverQueryStringOf(sid, sr) ==
    IF Central /\ sid # ""
        THEN [sid |-> sid, sr |-> Absent, tt |-> Absent]
    ELSE IF Central /\ sr # ""
        THEN [sid |-> Absent, sr |-> sr, tt |-> Absent]
    ELSE [sid |-> Absent, sr |-> Absent, tt |-> Absent]

serverQueryString == serverQueryStringOf(serverId, serverRollup)

\* serverRollupUrl (lines 120-133): the current query, with the given id
\* as server-id or server-rollup in central mode.
serverRollupUrl(r, leaf) ==
    IF ~Central THEN query
    ELSE IF leaf THEN [query EXCEPT !.sid = r]
    ELSE [query EXCEPT !.sr = r]

\* transactionTypes (lines 135-144): those of the selected rollup.
transactionTypes ==
    IF layout = NoLayout \/ serverRollup \notin DOMAIN layout.serverRollups
        THEN <<>>
    ELSE layout.serverRollups[serverRollup]

\* Mutant: the layout's default without the indexOf check (lines 153-155).
defaultTransactionType_noIndexOf ==
    IF layout = NoLayout THEN ""
    ELSE IF ~layout.central \/ transactionTypes # <<>>
        THEN layout.defaultTransactionType
    ELSE ""

\* defaultTransactionType (lines 146-161).
defaultTransactionType ==
    LET types == transactionTypes
    IN IF layout = NoLayout THEN ""
       ELSE IF ~layout.central THEN layout.defaultTransactionType
       ELSE IF \E i \in 1..Len(types) : types[i] = layout.defaultTransactionType
           THEN layout.defaultTransactionType
       ELSE IF types = <<>> THEN ""
       ELSE types[1]

-----------------------------------------------------------------------------
(* The actions                                                             *)

\* Mutant: the listener without the || '' defaults (lines 105-106).
locationChangeSuccess_noDefault(q) ==
    /\ query' = q
    /\ serverId' = q.sid
    /\ serverRollup' = IF q.sr # Absent THEN q.sr ELSE q.sid

\* The url changes to one with query q and the listener of lines 104-107
\* runs.
locationChangeSuccess(q) ==
    /\ query' = q
    /\ serverId' = IF q.sid # Absent THEN q.sid ELSE ""
    /\ serverRollup' = IF q.sr # Absent THEN q.sr ELSE serverId'

\* The user opens a url of their own.
OpenUrl ==
    /\ navs < MaxNav
    /\ \E q \in Queries : locationChangeSuccess(q)
    /\ lastLink' = NoLink
    /\ navs' = navs + 1
    /\ UNCHANGED layout

\* The user follows a server or rollup link built by serverRollupUrl; the
\* links are offered in central mode.
FollowRollupLink ==
    /\ navs < MaxNav
    /\ \E leaf \in BOOLEAN : \E r \in (IF leaf THEN Servers ELSE Rollups) :
         /\ locationChangeSuccess(serverRollupUrl(r, leaf))
         /\ lastLink' = IF Central THEN [r |-> r, leaf |-> leaf] ELSE NoLink
    /\ navs' = navs + 1
    /\ UNCHANGED layout

\* The user follows a link whose query is serverQueryString().
FollowQueryStringLink ==
    /\ navs < MaxNav
    /\ locationChangeSuccess(serverQueryString)
    /\ lastLink' = NoLink
    /\ navs' = navs + 1
    /\ UNCHANGED layout

\* The layout is loaded, or replaced by a newer one (app.js 50, 229).
LayoutArrives ==
    /\ \E l \in Layouts : layout # l /\ layout' = l
    /\ UNCHANGED <<query, serverId, serverRollup, lastLink, navs>>

\* The app opens on some url; the listener runs for it.
Init ==
    /\ \E q \in Queries :
         /\ query = q
         /\ serverId = IF q.sid # Absent THEN q.sid ELSE ""
         /\ serverRollup = IF q.sr # Absent THEN q.sr ELSE serverId
    /\ layout = NoLayout
    /\ lastLink = NoLink
    /\ navs = 0

Next == OpenUrl \/ FollowRollupLink \/ FollowQueryStringLink \/ LayoutArrives

Spec == Init /\ [][Next]_vars

-----------------------------------------------------------------------------
(* Properties                                                              *)

\* The selection is an id or empty.
TypeOK ==
    /\ query \in Queries
    /\ serverId \in Servers \cup {""}
    /\ serverRollup \in Ids \cup {""}
    /\ layout \in Layouts \cup {NoLayout}
    /\ navs \in 0..MaxNav

\* The transaction type waitForLayout writes into a url (routes.js 27-28,
\* 37-38) is one the selected rollup offers, whenever it offers any.
DefaultTTOffered ==
    Central /\ transactionTypes # <<>> =>
        \E i \in 1..Len(transactionTypes) : transactionTypes[i] = defaultTransactionType

\* After following serverRollupUrl(r, leaf), serverQueryString() selects r:
\* the views query the server or rollup the user picked.
RollupLinkSelectsRollup ==
    Central /\ lastLink # NoLink =>
        LET q == serverQueryString
        IN  IF lastLink.leaf THEN q.sid = lastLink.r
            ELSE q.sid = Absent /\ q.sr = lastLink.r

=============================================================================
