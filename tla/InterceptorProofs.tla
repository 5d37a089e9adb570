------------------------- MODULE InterceptorProofs -------------------------
(***************************************************************************)
(* Proofs about Interceptor for every value of its constants.             *)
(*                                                                         *)
(* TypeOK is not inductive by itself: it bounds autoRedirects by 1, and a  *)
(* 401 handled in the app adds one to it.  What keeps it at most 1 is that *)
(* the counter is 0 whenever the path is a view of the app: every step     *)
(* that enters the app restarts it, and the interceptor only counts a      *)
(* redirect when it leaves the app.  IInv adds that fact.                  *)
(***************************************************************************)
EXTENDS Interceptor, TLAPS

\* The redirect counter is zero while the user is in the app.
RedirectOnlyFromApp == path = "app" => autoRedirects = 0

IInv == TypeOK /\ RedirectOnlyFromApp

-----------------------------------------------------------------------------
(* Lemmas on the values the actions build.                                 *)

LEMMA SentType ==
    ASSUME NEW k \in Kinds
    PROVE  Sent(k) \in Msgs
BY InterceptorAssumption DEF Sent, Idle, Msgs, NoLayout, Layouts, Kinds, States, Statuses

LEMMA ServedType ==
    ASSUME NEW sl \in ServerLayouts, NEW s \in Sessions
    PROVE  Served(sl, s) \in Layouts
BY DEF Served, ServerLayouts, Layouts

-----------------------------------------------------------------------------

LEMMA IdleType == Idle \in Msgs
BY InterceptorAssumption DEF Idle, Msgs, NoLayout, Layouts, Kinds, States, Statuses

\* Changing the state, or the state and status, of one request keeps the
\* table well typed.
LEMMA SetStType ==
    ASSUME NEW f \in [Id -> Msgs], NEW id \in Id, NEW s \in States
    PROVE  [f EXCEPT ![id].st = s] \in [Id -> Msgs]
BY DEF Msgs

LEMMA SetStStatusType ==
    ASSUME NEW f \in [Id -> Msgs], NEW id \in Id, NEW s \in States,
           NEW c \in Statuses
    PROVE  [f EXCEPT ![id].st = s, ![id].status = c] \in [Id -> Msgs]
BY DEF Msgs

LEMMA SetMsgType ==
    ASSUME NEW f \in [Id -> Msgs], NEW id \in Id, NEW m \in Msgs
    PROVE  [f EXCEPT ![id] = m] \in [Id -> Msgs]
OBVIOUS

-----------------------------------------------------------------------------

LEMMA InitIInv == Init => IInv
<1> SUFFICES ASSUME Init PROVE IInv
    OBVIOUS
<1>1. srvLayout \in ServerLayouts /\ session \in Sessions
    BY InterceptorAssumption DEF Init, ServerLayouts
<1>2. logins \in 0..MaxLogins /\ seen \in 0..MaxVersion
    BY InterceptorAssumption DEF Init
<1>3. CASE InitProduction
    <2>1. Served(srvLayout, session) \in Layouts
        BY <1>1, ServedType
    <2>2. QED
        BY <1>1, <1>2, <1>3, <2>1, IdleType
        DEF InitProduction, IInv, TypeOK, RedirectOnlyFromApp, Paths, Messages
<1>4. CASE InitDevelopment
    <2>1. http \in [Id -> Msgs]
        BY <1>4, IdleType, SentType DEF InitDevelopment, Kinds
    <2>2. layout \in Layouts
        BY <1>4, InterceptorAssumption DEF InitDevelopment, NoLayout, Layouts
    <2>3. authUser \in BOOLEAN /\ path \in Paths
        BY <1>4 DEF InitDevelopment
    <2>4. loginMsg \in Messages
        BY <1>4 DEF InitDevelopment, Messages
    <2>5. autoRedirects \in 0..1 /\ RedirectOnlyFromApp
        BY <1>4 DEF InitDevelopment, RedirectOnlyFromApp
    <2>6. QED
        BY <1>1, <1>2, <2>1, <2>2, <2>3, <2>4, <2>5 DEF IInv, TypeOK
<1>5. QED
    BY <1>3, <1>4 DEF Init

-----------------------------------------------------------------------------
(* The step: one case per action of Next.                                  *)

\* The steps that change only the request table keep IInv when the table
\* they leave is well typed.
LEMMA HttpOnlyStep ==
    ASSUME IInv, http' \in [Id -> Msgs],
           UNCHANGED <<layout, authUser, path, loginMsg, autoRedirects, seen>>,
           UNCHANGED server
    PROVE  IInv'
BY DEF IInv, TypeOK, RedirectOnlyFromApp, server

LEMMA NextIInv == IInv /\ [Next]_vars => IInv'
<1> SUFFICES ASSUME IInv, [Next]_vars PROVE IInv'
    OBVIOUS
<1>0. http \in [Id -> Msgs]
    BY DEF IInv, TypeOK
<1>1. ASSUME NEW id \in Id, ServeFailure(id) PROVE IInv'
    <2>1. http' \in [Id -> Msgs]
        <3>1. PICK s \in Failures :
                http' = [http EXCEPT ![id].st = "answered", ![id].status = s]
            BY <1>1 DEF ServeFailure
        <3>2. s \in Statuses /\ "answered" \in States
            BY InterceptorAssumption DEF Statuses, States
        <3>3. QED
            BY <1>0, <3>1, <3>2, SetStStatusType
    <2>2. session' \in Sessions
        BY <1>1 DEF ServeFailure, IInv, TypeOK, Sessions
    <2>3. QED
        BY <1>1, <2>1, <2>2 DEF ServeFailure, IInv, TypeOK, RedirectOnlyFromApp
<1>2. ASSUME NEW id \in Id, ServeSuccess(id) PROVE IInv'
    <2> DEFINE m == http[id]
    <2>1. m \in Msgs
        BY <1>0
    <2>2. Served(srvLayout, session) \in Layouts
        BY ServedType DEF IInv, TypeOK
    <2>3. srvLayout.version \in 0..MaxVersion
        BY InterceptorAssumption DEF IInv, TypeOK, ServerLayouts
    <2>4. [m EXCEPT !.st = "answered",
                    !.status = IF m.kind = "data" /\ ~Authorized THEN 401 ELSE 200,
                    !.hdr = IF m.kind = "data" /\ ~Authorized THEN 0 ELSE srvLayout.version,
                    !.lay = Served(srvLayout, session),
                    !.user = (session = "valid"),
                    !.timedOut = (session = "expired")] \in Msgs
        <3>1. PICK c \in Statuses : c = IF m.kind = "data" /\ ~Authorized THEN 401 ELSE 200
            BY DEF Statuses
        <3>2. PICK v \in 0..MaxVersion :
                v = IF m.kind = "data" /\ ~Authorized THEN 0 ELSE srvLayout.version
            BY <2>3, InterceptorAssumption
        <3>3. [m EXCEPT !.st = "answered", !.status = c, !.hdr = v,
                        !.lay = Served(srvLayout, session),
                        !.user = (session = "valid"),
                        !.timedOut = (session = "expired")] \in Msgs
            BY <2>1, <2>2 DEF Msgs, States
        <3>4. QED
            BY <3>1, <3>2, <3>3
    <2>5. http' \in [Id -> Msgs]
        BY <1>0, <1>2, <2>4, SetMsgType DEF ServeSuccess
    <2>6. session' \in Sessions
        BY <1>2 DEF ServeSuccess, IInv, TypeOK, Sessions
    <2>7. QED
        BY <1>2, <2>5, <2>6 DEF ServeSuccess, IInv, TypeOK, RedirectOnlyFromApp
<1>3. ASSUME NEW id \in Id, response(id) PROVE IInv'
    <2> DEFINE m == http[id]
               done == [http EXCEPT ![id].st = "done"]
               h == IF NeedsLayoutRefresh(m.hdr)
                      THEN [done EXCEPT ![<<id[1], "layout">>] = Sent("refetch")]
                      ELSE done
    <2>1. m \in Msgs
        BY <1>0
    <2>2. h \in [Id -> Msgs]
        <3>1. done \in [Id -> Msgs]
            BY <1>0, SetStType DEF States
        <3>2. <<id[1], "layout">> \in Id /\ Sent("refetch") \in Msgs
            BY SentType DEF Id, Chan, Kinds
        <3>3. QED
            BY <3>1, <3>2, SetMsgType
    <2>3. seen' \in 0..MaxVersion
        BY <1>3, <2>1 DEF response, MaxOf, Msgs, IInv, TypeOK
    <2>4. UNCHANGED server
        BY <1>3 DEF response
    <2>5. CASE m.kind = "data" /\ http' = h
                /\ UNCHANGED <<layout, authUser, path, loginMsg, autoRedirects>>
        BY <2>2, <2>3, <2>4, <2>5 DEF IInv, TypeOK, RedirectOnlyFromApp, server
    <2>6. CASE m.kind = "refetch" /\ refetchSuccess(m, h)
        BY <2>1, <2>2, <2>3, <2>4, <2>6
        DEF refetchSuccess, Msgs, IInv, TypeOK, RedirectOnlyFromApp, server
    <2>7. CASE m.kind = "signOut" /\ signOutSuccess(h)
        BY <2>2, <2>3, <2>4, <2>7
        DEF signOutSuccess, goToLogin, IInv, TypeOK, RedirectOnlyFromApp, server,
            Paths, Messages
    <2>8. CASE m.kind = "authUser" /\ authUserSuccess(id, m, h)
        <3>1. http' \in [Id -> Msgs]
            BY <2>2, <2>8, SentType, SetMsgType DEF authUserSuccess, Kinds
        <3>2. QED
            BY <2>1, <2>3, <2>4, <2>8, <3>1
            DEF authUserSuccess, Msgs, IInv, TypeOK, RedirectOnlyFromApp, server
    <2>9. CASE m.kind = "initLayout" /\ initLayoutSuccess(m, h)
        <3>1. layout' \in Layouts
            BY <2>1, <2>9 DEF initLayoutSuccess, setInitialLayout, Msgs
        <3>2. path' \in Paths /\ loginMsg' \in Messages /\ autoRedirects' \in 0..1
              /\ RedirectOnlyFromApp'
            BY <2>9 DEF initLayoutSuccess, setInitialLayout, goToLogin, EnterApp,
                       IInv, TypeOK, RedirectOnlyFromApp, Paths, Messages
        <3>3. QED
            BY <2>2, <2>3, <2>4, <2>9, <3>1, <3>2
            DEF initLayoutSuccess, IInv, TypeOK, server
    <2>10. QED
        BY <1>3, <2>5, <2>6, <2>7, <2>8, <2>9 DEF response
<1>4. ASSUME NEW id \in Id, Unauthorized(id) PROVE IInv'
    <2>1. http' \in [Id -> Msgs]
        BY <1>0, <1>4, SetStType DEF Unauthorized, States
    <2>2. CASE path = "login"
        BY <1>4, <2>1, <2>2 DEF Unauthorized, IInv, TypeOK, RedirectOnlyFromApp, server
    <2>3. CASE path # "login"
        <3>1. path = "app" /\ autoRedirects = 0
            BY <2>3 DEF IInv, TypeOK, RedirectOnlyFromApp, Paths
        <3>2. path' = "login" /\ autoRedirects' = 1 /\ loginMsg' \in Messages
            BY <1>4, <2>3, <3>1 DEF Unauthorized, goToLogin, Messages
        <3>3. QED
            BY <1>4, <2>1, <3>2 DEF Unauthorized, IInv, TypeOK, RedirectOnlyFromApp,
                                    server, Paths
    <2>4. QED
        BY <2>2, <2>3
<1>5. ASSUME NEW id \in Id, Deferred(id) \/ Rejected(id) \/ TimeoutFires(id)
      PROVE IInv'
    <2>1. http' \in [Id -> Msgs]
        <3>1. "delayed" \in States /\ "done" \in States
            BY DEF States
        <3>2. \/ http' = [http EXCEPT ![id].st = "delayed"]
              \/ http' = [http EXCEPT ![id].st = "done"]
            BY <1>5 DEF Deferred, Rejected, TimeoutFires
        <3>3. QED
            BY <1>0, <3>1, <3>2, SetStType
    <2>2. QED
        BY <1>5, <2>1, HttpOnlyStep DEF Deferred, Rejected, TimeoutFires
<1>6. ASSUME NEW r \in Req, IssueData(r) \/ signOut(r) PROVE IInv'
    <2>1. <<r, "main">> \in Id /\ Sent("data") \in Msgs /\ Sent("signOut") \in Msgs
        BY SentType DEF Id, Chan, Kinds
    <2>2. http' \in [Id -> Msgs]
        BY <1>0, <1>6, <2>1, SetMsgType DEF IssueData, signOut
    <2>3. QED
        BY <1>6, <2>2, HttpOnlyStep DEF IssueData, signOut
<1>7. CASE clickSignIn
    BY <1>7 DEF clickSignIn, goToLogin, IInv, TypeOK, RedirectOnlyFromApp, server,
                Paths, Messages
<1>8. CASE Login \/ LeaveLogin
    <2>1. CASE Login
        <3>1. logins' \in 0..MaxLogins
            BY <2>1, InterceptorAssumption DEF Login, IInv, TypeOK
        <3>2. QED
            BY <2>1, <3>1
            DEF Login, EnterApp, IInv, TypeOK, RedirectOnlyFromApp, Paths, Sessions
    <2>2. CASE LeaveLogin
        BY <2>2 DEF LeaveLogin, EnterApp, IInv, TypeOK, RedirectOnlyFromApp, server,
                    Paths
    <2>3. QED
        BY <1>8, <2>1, <2>2
<1>9. CASE ExpireSession \/ BumpLayout
    BY <1>9, InterceptorAssumption
    DEF ExpireSession, BumpLayout, IInv, TypeOK, RedirectOnlyFromApp, ServerLayouts,
        Sessions
<1>10. CASE UNCHANGED vars
    BY <1>10 DEF vars, IInv, TypeOK, RedirectOnlyFromApp
<1>11. QED
    BY <1>1, <1>2, <1>3, <1>4, <1>5, <1>6, <1>7, <1>8, <1>9, <1>10
    DEF Next, Serve, responseError

-----------------------------------------------------------------------------
(* Theorems                                                                *)

\* Every reachable state is well typed: the request table, the cached
\* layout, the session and the counters stay in their ranges.
THEOREM TypeCorrect == Spec => []TypeOK
<1>1. Init => IInv
    BY InitIInv
<1>2. IInv /\ [Next]_vars => IInv'
    BY NextIInv
<1>3. IInv => TypeOK
    BY DEF IInv
<1>4. QED
    BY <1>1, <1>2, <1>3, PTL DEF Spec

\* The spec's "only the first 401 of a navigation cycle redirects" holds
\* for every number of requests and versions: whatever order the 401s of
\* the requests in flight are handled in, the interceptor redirects at
\* most once before the user enters the app again.
THEOREM RedirectAtMostOnce == Spec => []OneRedirectPerVisit
<1>1. IInv => OneRedirectPerVisit
    BY DEF IInv, TypeOK, OneRedirectPerVisit
<1>2. QED
    BY InitIInv, NextIInv, <1>1, PTL DEF Spec

=============================================================================
