--------------------------- MODULE RootScopeProofs ---------------------------
(***************************************************************************)
(* Proofs that the root-scope selection is always an id or empty, and that *)
(* defaultTransactionType() returns a type the selected rollup offers, for *)
(* any servers, rollups, transaction types and well-formed layouts.        *)
(***************************************************************************)
EXTENDS RootScope, TLAPS

\* The inductive invariant: serverRollup is a rollup of the url, empty, or
\* the serverId the listener copied into it.
IInv ==
    /\ TypeOK
    /\ serverRollup \in Rollups \cup {""} \/ serverRollup = serverId

\* The part of RootScopeAssumption the invariant needs.
LEMMA MaxNavNat == MaxNav \in Nat
BY RootScopeAssumption

USE MaxNavNat

\* What the listener leaves: a url query and a well-typed selection.
Listened ==
    /\ query' \in Queries
    /\ serverId' \in Servers \cup {""}
    /\ serverRollup' \in Rollups \cup {""} \/ serverRollup' = serverId'
    /\ serverRollup' \in Ids \cup {""}

\* The listener leaves a well-typed selection for every query of a url.
LEMMA ListenerIInv ==
    ASSUME NEW q \in Queries, locationChangeSuccess(q)
    PROVE  Listened
BY DEF locationChangeSuccess, Queries, Ids, Listened

\* With the listener's postcondition, a navigation step keeps IInv.
LEMMA NavigationIInv ==
    ASSUME IInv, Listened, navs < MaxNav, navs' = navs + 1, UNCHANGED layout
    PROVE  IInv'
<1>0. navs \in 0..MaxNav
  BY Zenon DEF IInv, TypeOK
<1>1. navs' \in 0..MaxNav
  BY <1>0
<1>2. layout' \in Layouts \cup {NoLayout}
  BY Zenon DEF IInv, TypeOK
<1>3. QED
  BY Zenon, <1>1, <1>2 DEF IInv, TypeOK, Listened

\* A link built by serverRollupUrl carries a query a url can carry.
LEMMA RollupUrlType ==
    ASSUME NEW leaf \in BOOLEAN, NEW r \in (IF leaf THEN Servers ELSE Rollups),
           query \in Queries
    PROVE  serverRollupUrl(r, leaf) \in Queries
BY DEF serverRollupUrl, Queries

\* So does a link built with serverQueryString, given the invariant.
LEMMA QueryStringType == IInv => serverQueryString \in Queries
<1> SUFFICES ASSUME IInv PROVE serverQueryString \in Queries
  OBVIOUS
<1>1. serverId \in Servers \cup {""}
  BY DEF IInv, TypeOK
<1>2. serverId = "" => serverRollup \in Rollups \cup {""}
  BY DEF IInv
<1>3. QED
  BY <1>1, <1>2 DEF serverQueryString, serverQueryStringOf, Queries

LEMMA InitIInv == Init => IInv
<1> SUFFICES ASSUME Init PROVE IInv
  OBVIOUS
<1>1. PICK q \in Queries :
        /\ query = q
        /\ serverId = IF q.sid # Absent THEN q.sid ELSE ""
        /\ serverRollup = IF q.sr # Absent THEN q.sr ELSE serverId
  BY DEF Init
<1>2. layout = NoLayout /\ navs = 0
  BY DEF Init
<1>3. navs \in 0..MaxNav
  BY <1>2
<1>4. serverId \in Servers \cup {""} /\ serverRollup \in Rollups \cup {""} \cup {serverId}
  BY Zenon, <1>1 DEF Queries
<1>5. QED
  BY Zenon, <1>1, <1>2, <1>3, <1>4 DEF IInv, TypeOK, Ids

LEMMA NextIInv == IInv /\ [Next]_vars => IInv'
<1> SUFFICES ASSUME IInv, [Next]_vars PROVE IInv'
  OBVIOUS
<1>0. navs \in 0..MaxNav
  BY DEF IInv, TypeOK
<1>1. CASE OpenUrl
  <2>1. PICK q \in Queries : locationChangeSuccess(q)
    BY <1>1 DEF OpenUrl
  <2>2. Listened
    BY <2>1, ListenerIInv
  <2>3. QED
    BY <1>1, <2>2, NavigationIInv DEF OpenUrl
<1>2. CASE FollowRollupLink
  <2>1. PICK leaf \in BOOLEAN : \E r \in (IF leaf THEN Servers ELSE Rollups) :
          locationChangeSuccess(serverRollupUrl(r, leaf))
    BY <1>2 DEF FollowRollupLink
  <2>2. PICK r \in (IF leaf THEN Servers ELSE Rollups) :
          locationChangeSuccess(serverRollupUrl(r, leaf))
    BY <2>1
  <2>3. serverRollupUrl(r, leaf) \in Queries
    BY RollupUrlType DEF IInv, TypeOK
  <2>4. Listened
    BY <2>2, <2>3, ListenerIInv
  <2>5. QED
    BY <1>2, <2>4, NavigationIInv DEF FollowRollupLink
<1>3. CASE FollowQueryStringLink
  <2>1. serverQueryString \in Queries
    BY QueryStringType
  <2>2. Listened
    BY <1>3, <2>1, ListenerIInv DEF FollowQueryStringLink
  <2>3. QED
    BY <1>3, <2>2, NavigationIInv DEF FollowQueryStringLink
<1>4. CASE LayoutArrives
  BY <1>4 DEF LayoutArrives, IInv, TypeOK
<1>5. CASE UNCHANGED vars
  BY <1>5 DEF vars, IInv, TypeOK
<1>6. QED
  BY <1>1, <1>2, <1>3, <1>4, <1>5 DEF Next

\* Every navigation, link and layout replacement leaves serverId a server
\* or empty and serverRollup an id or empty.
THEOREM RootScopeTypeCorrect == Spec => []TypeOK
<1>1. IInv => TypeOK
  BY DEF IInv
<1>2. QED
  BY InitIInv, NextIInv, <1>1, PTL DEF Spec

\* The layout's shape, from RootScopeAssumption.
LEMMA LayoutShape ==
    \A l \in Layouts :
        /\ l.central \in BOOLEAN
        /\ \A k \in DOMAIN l.serverRollups : l.serverRollups[k] \in Seq(TTs)
BY RootScopeAssumption

\* defaultTransactionType() (app.js 146-161) returns one of the selected
\* rollup's types whenever the layout is well formed and the rollup offers
\* any: the layout's default if it is among them, else the first of them.
LEMMA DefaultTTInTypes ==
    ASSUME layout \in Layouts, layout.central,
           transactionTypes # <<>>
    PROVE  \E i \in 1..Len(transactionTypes) :
               transactionTypes[i] = defaultTransactionType
<1> DEFINE types == transactionTypes
           d == layout.defaultTransactionType
<1>1. layout # NoLayout
  BY RootScopeAssumption
<1>2. serverRollup \in DOMAIN layout.serverRollups /\ types = layout.serverRollups[serverRollup]
  BY <1>1 DEF transactionTypes
<1>3. types \in Seq(TTs)
  BY <1>2, LayoutShape
<1>4. CASE \E i \in 1..Len(types) : types[i] = d
  <2>1. defaultTransactionType = d
    BY <1>1, <1>4 DEF defaultTransactionType
  <2>2. QED
    BY <1>4, <2>1
<1>5. CASE ~\E i \in 1..Len(types) : types[i] = d
  <2>1. defaultTransactionType = types[1]
    BY <1>1, <1>5 DEF defaultTransactionType
  <2>2. 1 \in 1..Len(types)
    BY <1>3
  <2>3. QED
    BY <2>1, <2>2
<1>6. QED
  BY <1>4, <1>5

\* The default transaction type waitForLayout writes is offered by the
\* selected rollup, in every reachable state and for every set of layouts.
THEOREM DefaultTTAlwaysOffered == Spec => []DefaultTTOffered
<1>1. TypeOK => DefaultTTOffered
  <2> SUFFICES ASSUME TypeOK, Central, transactionTypes # <<>>
               PROVE  \E i \in 1..Len(transactionTypes) :
                          transactionTypes[i] = defaultTransactionType
    BY DEF DefaultTTOffered
  <2>1. layout \in Layouts
    BY RootScopeAssumption DEF TypeOK, Central
  <2>2. QED
    BY <2>1, DefaultTTInTypes DEF Central
<1>2. QED
  BY <1>1, RootScopeTypeCorrect, PTL

=============================================================================
