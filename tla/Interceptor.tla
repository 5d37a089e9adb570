---------------------------- MODULE Interceptor ----------------------------
(***************************************************************************)
(* The HTTP interceptor of app.js (lines 36-89) together with the parts of *)
(* the run block that issue requests through it: the bootstrap of the     *)
(* layout and of the authenticated user (setInitialLayout, 223-246), the   *)
(* sign-in link (171-177) and sign-out (179-200).                          *)
(*                                                                         *)
(* Every request is identified by <<r, c>>: r is a lineage and c a        *)
(* channel.  Channel "main" carries the request a controller, sign-out or  *)
(* the bootstrap issued; channel "layout" carries the layout re-fetch that *)
(* the response interceptor starts from a response of that lineage.  A    *)
(* response of the lineage starts at most one re-fetch at a time (the      *)
(* re-fetch's own response replaces itself), so |Req| bounds the traffic   *)
(* without ever blocking a step of the code.                               *)
(*                                                                         *)
(* One step of the browser's event loop handles one completed request:    *)
(* the interceptor and the success or error callbacks chained on the       *)
(* promise run in the same $digest, so they form one action.              *)
(***************************************************************************)
EXTENDS Naturals

CONSTANTS
    Req,         \* request lineages
    MaxVersion,  \* the server's layout versions are 1..MaxVersion
    MaxLogins,   \* bound on successful sign-ins on the login page
    Failures     \* failure statuses the network or server may produce

ASSUME InterceptorAssumption ==
    /\ Req # {}
    /\ MaxVersion \in Nat \ {0}
    /\ MaxLogins \in Nat
    /\ Failures \subseteq {0, 500}

Chan == {"main", "layout"}
Id == Req \X Chan

Kinds == {"none", "data", "signOut", "authUser", "initLayout", "refetch"}
States == {"idle", "sent", "answered", "delayed", "done"}
Statuses == {0, 200, 401, 500}
Paths == {"login", "app"}
Messages == {"none", "timedOut", "signedOut"}
Sessions == {"none", "valid", "expired"}

\* The layout as the server holds it: its version and whether anonymous
\* access is "none".
ServerLayouts == [version : 1..MaxVersion, anonNone : BOOLEAN]
\* The layout as the client holds it ($rootScope.layout); version 0 is
\* "undefined", before the bootstrap has loaded it.
Layouts == [version : 0..MaxVersion, anonNone : BOOLEAN, needsAuth : BOOLEAN]
NoLayout == [version |-> 0, anonNone |-> FALSE, needsAuth |-> FALSE]

Msgs == [kind : Kinds, st : States, status : Statuses, hdr : 0..MaxVersion,
         lay : Layouts, user : BOOLEAN, timedOut : BOOLEAN]
Idle == [kind |-> "none", st |-> "idle", status |-> 0, hdr |-> 0,
         lay |-> NoLayout, user |-> FALSE, timedOut |-> FALSE]
Sent(k) == [kind |-> k, st |-> "sent", status |-> 0, hdr |-> 0,
            lay |-> NoLayout, user |-> FALSE, timedOut |-> FALSE]

VARIABLES
    http,          \* http[id]: the request id and the response it got
    layout,        \* $rootScope.layout
    authUser,      \* $rootScope.authenticatedUser is defined
    path,          \* $location.path(): the login view or a view of the app
    loginMsg,      \* the message login.goToLogin was last given
    srvLayout,     \* the layout the server currently serves
    session,       \* the server's view of the browser's session
    logins,        \* number of sign-ins so far (bounded by MaxLogins)
    autoRedirects, \* interceptor redirects since the path last entered the app
    seen           \* greatest layout-version header the interceptor acted on

vars == <<http, layout, authUser, path, loginMsg, srvLayout, session,
          logins, autoRedirects, seen>>
server == <<srvLayout, session, logins>>

-----------------------------------------------------------------------------
(* Helpers                                                                 *)

\* The server computes needsAuthentication into the layout it serves: the
\* deployment admits no anonymous access and the session is not signed in.
Served(sl, s) == [version |-> sl.version, anonNone |-> sl.anonNone,
                  needsAuth |-> sl.anonNone /\ s # "valid"]

\* A request of a controller is answered 401 when it is not authorised.
Authorized == session = "valid" \/ ~srvLayout.anonNone

\* login.goToLogin(message): the login service changes the path to /login.
goToLogin(msg) == path' = "login" /\ loginMsg' = msg

\* The path enters a view of the app; the redirect count restarts.
EnterApp == path' = "app" /\ autoRedirects' = 0

\* Mutant: the header compared with the layout object, not its version.
NeedsLayoutRefresh_objectCompare(hdr) == hdr # 0 /\ layout.version # 0

\* Mutant: only a header newer than the cached version starts a re-fetch.
NeedsLayoutRefresh_newerOnly(hdr) ==
    hdr # 0 /\ layout.version # 0 /\ hdr > layout.version

\* The response interceptor's test (line 47): a header is present, a layout
\* is loaded and its version differs from the header.
NeedsLayoutRefresh(hdr) == hdr # 0 /\ layout.version # 0 /\ hdr # layout.version

MaxOf(a, b) == IF a >= b THEN a ELSE b

\* setInitialLayout(data) (lines 223-231), with authUser the value of
\* $rootScope.authenticatedUser when it runs.
setInitialLayout(l, user) ==
    /\ layout' = l
    /\ IF l.needsAuth
         THEN goToLogin("none") /\ UNCHANGED autoRedirects
       ELSE IF path = "login" /\ user
         THEN EnterApp /\ UNCHANGED loginMsg
       ELSE UNCHANGED <<path, loginMsg, autoRedirects>>

-----------------------------------------------------------------------------
(* Initial states: the run block has executed.                             *)

\* Production: window.layout and window.authenticatedUser are rendered by
\* the server.  setInitialLayout runs (line 234) before authenticatedUser is
\* assigned (line 235), so it sees no authenticated user.
InitProduction ==
    /\ http = [id \in Id |-> Idle]
    /\ \E p \in Paths :
         LET l == Served(srvLayout, session) IN
         /\ layout = l
         /\ authUser = (session = "valid")
         /\ loginMsg = "none"
         /\ autoRedirects = 0
         /\ path = IF l.needsAuth THEN "login" ELSE p

\* Development (grunt serve): no window.layout; the run block only sends
\* GET backend/authenticated-user (line 238).
InitDevelopment ==
    /\ \E r \in Req :
         http = [id \in Id |-> IF id = <<r, "main">> THEN Sent("authUser") ELSE Idle]
    /\ layout = NoLayout
    /\ authUser = FALSE
    /\ path \in Paths
    /\ loginMsg = "none"
    /\ autoRedirects = 0

Init ==
    /\ srvLayout \in [version : {1}, anonNone : BOOLEAN]
    /\ session \in Sessions
    /\ logins = 0
    /\ seen = 0
    /\ InitProduction \/ InitDevelopment

-----------------------------------------------------------------------------
(* The server answers a request.                                           *)

\* The network or the server fails the request.  A status 0 may come after
\* the server did process a sign-out.
ServeFailure(id) ==
    /\ http[id].st = "sent"
    /\ \E s \in Failures :
         http' = [http EXCEPT ![id].st = "answered", ![id].status = s]
    /\ \/ UNCHANGED session
       \/ http[id].kind = "signOut" /\ session' = "none"
    /\ UNCHANGED <<srvLayout, logins, layout, authUser, path, loginMsg,
                   autoRedirects, seen>>

\* The server answers: 401 for an unauthorised controller request, else
\* 200 with the Glowroot-Layout-Version header and the body of the endpoint.
ServeSuccess(id) ==
    LET m == http[id]
        unauth == m.kind = "data" /\ ~Authorized
    IN
    /\ m.st = "sent"
    /\ http' = [http EXCEPT ![id] =
                  [m EXCEPT !.st = "answered",
                            !.status = IF unauth THEN 401 ELSE 200,
                            !.hdr = IF unauth THEN 0 ELSE srvLayout.version,
                            !.lay = Served(srvLayout, session),
                            !.user = (session = "valid"),
                            !.timedOut = (session = "expired")]]
    /\ IF m.kind = "signOut" THEN session' = "none" ELSE UNCHANGED session
    /\ UNCHANGED <<srvLayout, logins, layout, authUser, path, loginMsg,
                   autoRedirects, seen>>

Serve(id) == ServeFailure(id) \/ ServeSuccess(id)

-----------------------------------------------------------------------------------------------------------------------------------------------------
(* The success callbacks chained on the requests' promises.  h is the      *)
(* request table once the interceptor has handled the response.            *)

\* GET backend/layout .success (lines 49-51): replace the layout wholesale.
refetchSuccess(m, h) ==
    /\ http' = h
    /\ layout' = m.lay
    /\ UNCHANGED <<authUser, path, loginMsg, autoRedirects>>

\* POST backend/sign-out .success (lines 185-194).
signOutSuccess(h) ==
    /\ http' = h
    /\ authUser' = FALSE
    /\ IF layout.anonNone
         THEN goToLogin("signedOut")
         ELSE UNCHANGED <<path, loginMsg>>   \* $state.reload()
    /\ UNCHANGED <<layout, autoRedirects>>

\* GET backend/authenticated-user .success (lines 239-245): record the user
\* and send GET backend/layout on the same lineage.
authUserSuccess(id, m, h) ==
    /\ authUser' = m.user
    /\ http' = [h EXCEPT ![id] = Sent("initLayout")]
    /\ UNCHANGED <<layout, path, loginMsg, autoRedirects>>

\* GET backend/layout .success of the bootstrap (lines 242-244).
initLayoutSuccess(m, h) ==
    /\ http' = h
    /\ setInitialLayout(m.lay, authUser)
    /\ UNCHANGED authUser

-----------------------------------------------------------------------------
(* The interceptor's response hook (45-55).                                *)

\* A 200 response of request id = <<r, c>>.  The interceptor starts the
\* re-fetch on channel <<r, "layout">> when the header differs from the
\* cached layout and returns the response; then the caller's .success
\* callback runs.  A controller's own callbacks are outside this model.
response(id) ==
    LET m == http[id]
        done == [http EXCEPT ![id].st = "done"]
        h == IF NeedsLayoutRefresh(m.hdr)
               THEN [done EXCEPT ![<<id[1], "layout">>] = Sent("refetch")]
               ELSE done
    IN
    /\ m.st = "answered"
    /\ m.status = 200
    /\ seen' = IF layout.version # 0 THEN MaxOf(seen, m.hdr) ELSE seen
    /\ \/ m.kind = "data" /\ http' = h
                          /\ UNCHANGED <<layout, authUser, path, loginMsg, autoRedirects>>
       \/ m.kind = "refetch" /\ refetchSuccess(m, h)
       \/ m.kind = "signOut" /\ signOutSuccess(h)
       \/ m.kind = "authUser" /\ authUserSuccess(id, m, h)
       \/ m.kind = "initLayout" /\ initLayoutSuccess(m, h)
    /\ UNCHANGED server

-----------------------------------------------------------------------------
(* The interceptor's responseError hook (56-86).                            *)

\* Mutant: the check of line 60 dropped, every 401 redirects.
Unauthorized_noLoginGuard(id) ==
    LET m == http[id] IN
    /\ m.st = "answered"
    /\ m.status = 401
    /\ http' = [http EXCEPT ![id].st = "done"]
    /\ goToLogin(IF m.timedOut THEN "timedOut" ELSE "none")
    /\ autoRedirects' = autoRedirects + 1
    /\ UNCHANGED <<layout, authUser, seen>>
    /\ UNCHANGED server

\* Status 401: redirect to login unless already there; the promise never
\* settles, so no callback of the caller runs.
Unauthorized(id) ==
    LET m == http[id] IN
    /\ m.st = "answered"
    /\ m.status = 401
    /\ http' = [http EXCEPT ![id].st = "done"]
    /\ IF path = "login"
         THEN UNCHANGED <<path, loginMsg, autoRedirects>>
         ELSE /\ goToLogin(IF m.timedOut THEN "timedOut" ELSE "none")
              /\ autoRedirects' = autoRedirects + 1
    /\ UNCHANGED <<layout, authUser, seen>>
    /\ UNCHANGED server

\* Status 0: the rejection is deferred by a 500 ms $timeout.
Deferred(id) ==
    /\ http[id].st = "answered"
    /\ http[id].status = 0
    /\ http' = [http EXCEPT ![id].st = "delayed"]
    /\ UNCHANGED <<layout, authUser, path, loginMsg, autoRedirects, seen>>
    /\ UNCHANGED server

\* Any other status is rejected at once.  The only error callback of these
\* requests is sign-out's alert (line 198), which changes no state; the
\* re-fetch and the bootstrap requests have none (line 52).
Rejected(id) ==
    /\ http[id].st = "answered"
    /\ http[id].status = 500
    /\ http' = [http EXCEPT ![id].st = "done"]
    /\ UNCHANGED <<layout, authUser, path, loginMsg, autoRedirects, seen>>
    /\ UNCHANGED server

responseError(id) == Unauthorized(id) \/ Deferred(id) \/ Rejected(id)

\* The $timeout of line 80 fires and rejects the deferred promise.
TimeoutFires(id) ==
    /\ http[id].st = "delayed"
    /\ http' = [http EXCEPT ![id].st = "done"]
    /\ UNCHANGED <<layout, authUser, path, loginMsg, autoRedirects, seen>>
    /\ UNCHANGED server

-----------------------------------------------------------------------------
(* The user and the views.                                                 *)

\* showSignIn()/showSignOut() (lines 163-169); the navbar is hidden on the
\* login view (hideNavbar, line 202).  Admin passwords are taken as enabled.
showSignIn == ~authUser /\ layout.version # 0 /\ path # "login"
showSignOut == authUser /\ layout.version # 0 /\ path # "login"

\* A controller of the active view sends a request; every view waits for
\* the layout before its controller runs.
IssueData(r) ==
    /\ path = "app"
    /\ layout.version # 0
    /\ http[<<r, "main">>].st = "idle"
    /\ http' = [http EXCEPT ![<<r, "main">>] = Sent("data")]
    /\ UNCHANGED <<layout, authUser, path, loginMsg, autoRedirects, seen>>
    /\ UNCHANGED server

\* $rootScope.goToLogin (lines 171-177), a click without the ctrl key.
clickSignIn ==
    /\ showSignIn
    /\ goToLogin("none")
    /\ UNCHANGED <<http, layout, authUser, autoRedirects, seen>>
    /\ UNCHANGED server

\* $rootScope.signOut (lines 179-184): POST backend/sign-out.
signOut(r) ==
    /\ showSignOut
    /\ http[<<r, "main">>].st = "idle"
    /\ http' = [http EXCEPT ![<<r, "main">>] = Sent("signOut")]
    /\ UNCHANGED <<layout, authUser, path, loginMsg, autoRedirects, seen>>
    /\ UNCHANGED server

\* The login view's controller signs the user in and leaves /login.
Login ==
    /\ path = "login"
    /\ layout.version # 0
    /\ logins < MaxLogins
    /\ session' = "valid"
    /\ logins' = logins + 1
    /\ authUser' = TRUE
    /\ EnterApp
    /\ UNCHANGED <<http, layout, loginMsg, srvLayout, seen>>

\* The user leaves /login without signing in (back button, typed URL).
LeaveLogin ==
    /\ path = "login"
    /\ EnterApp
    /\ UNCHANGED <<http, layout, authUser, loginMsg, seen>>
    /\ UNCHANGED server

-----------------------------------------------------------------------------
(* The server's environment.                                               *)

\* The session times out.
ExpireSession ==
    /\ session = "valid"
    /\ session' = "expired"
    /\ UNCHANGED <<srvLayout, logins, http, layout, authUser, path, loginMsg,
                   autoRedirects, seen>>

\* An administrator changes the configuration: a new layout version.
BumpLayout ==
    /\ srvLayout.version < MaxVersion
    /\ \E a \in BOOLEAN :
         srvLayout' = [version |-> srvLayout.version + 1, anonNone |-> a]
    /\ UNCHANGED <<session, logins, http, layout, authUser, path, loginMsg,
                   autoRedirects, seen>>

-----------------------------------------------------------------------------

Next ==
    \/ \E id \in Id : Serve(id) \/ response(id) \/ responseError(id)
                      \/ TimeoutFires(id)
    \/ \E r \in Req : IssueData(r) \/ signOut(r)
    \/ clickSignIn \/ Login \/ LeaveLogin
    \/ ExpireSession \/ BumpLayout

\* Every request completes (the browser ends every XHR with a status, 0 for
\* a dead connection), every completion is handled by the event loop, and
\* every $timeout fires.  The user, the controllers and the server's
\* administrator are not obliged to act.
Fairness ==
    \A id \in Id :
        /\ WF_vars(Serve(id))
        /\ WF_vars(response(id))
        /\ WF_vars(responseError(id))
        /\ WF_vars(TimeoutFires(id))

Spec == Init /\ [][Next]_vars /\ Fairness

-----------------------------------------------------------------------------
(* Properties                                                              *)

TypeOK ==
    /\ http \in [Id -> Msgs]
    /\ layout \in Layouts
    /\ authUser \in BOOLEAN
    /\ path \in Paths
    /\ loginMsg \in Messages
    /\ srvLayout \in ServerLayouts
    /\ session \in Sessions
    /\ logins \in 0..MaxLogins
    /\ autoRedirects \in 0..1
    /\ seen \in 0..MaxVersion

\* Spec 5: "only the first 401 response within a navigation cycle triggers a
\* redirect".  However many requests of the view fail with 401, in
\* whatever order their responses are handled, the interceptor redirects to
\* login at most once until the app is entered again (line 60's guard).
OneRedirectPerVisit == autoRedirects <= 1

\* The layout refresh of lines 47-51 comes to rest: once the server's layout
\* stops changing, eventually no layout re-fetch is outstanding, although
\* every re-fetch's own response passes through the same interceptor while
\* the cached layout is still the old one.
LayoutRefreshTerminates ==
    <>[](\A r \in Req : http[<<r, "layout">>].st \in {"idle", "done"})

\* Spec 4.1: a layout-version header that differs from the cached layout
\* makes the client re-fetch and replace it: whenever the interceptor has
\* acted on a header newer than the cached layout, a re-fetch is still
\* outstanding to bring it up to date.
StaleLayoutHasRefetch ==
    (layout.version # 0 /\ seen > layout.version)
        => \E r \in Req : http[<<r, "layout">>].st \in {"sent", "answered", "delayed"}

\* Spec 3: one expired session causes at most one automatic redirect to
\* login; in particular the interceptor never sends a user whose session is
\* valid back to the login view.
NoRedirectOfValidSession ==
    [][\A id \in Id : (Unauthorized(id) /\ path # "login") => session # "valid"]_vars

\* Lines 227-229: when the embedded layout needs no authentication and the
\* user is signed in, the app leaves /login for "/".
BootstrapLeavesLogin ==
    ~(path = "login" /\ authUser /\ layout.version # 0 /\ ~layout.needsAuth)

=============================================================================
