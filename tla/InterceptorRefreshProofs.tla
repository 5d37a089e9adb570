---------------------- MODULE InterceptorRefreshProofs ----------------------
(***************************************************************************)
(* The layout refresh of the response interceptor (app.js lines 45-55) on *)
(* a network that delivers every request (Failures = {}): whenever the    *)
(* interceptor has acted on a layout-version header newer than the cached  *)
(* layout, a re-fetch is still outstanding.                                *)
(*                                                                         *)
(* StaleLayoutHasRefetch is not inductive.  A re-fetch that is answered    *)
(* carries the version the server had when it answered; the argument       *)
(* needs that this version is at least every header acted on so far, so    *)
(* that the outstanding re-fetch will bring the layout up to date, and    *)
(* that a re-fetch channel only ever carries re-fetches.  RInv adds:       *)
(*   - RefetchKinds: a layout channel carries no other request;           *)
(*   - Reliable: every answer is a 200 whose body is the layout of the     *)
(*     header's version, or a controller's 401; nothing is deferred;       *)
(*   - VersionsBounded: no header and no acted-on version exceeds the      *)
(*     server's current version (versions only grow, lines 45-47);         *)
(*   - SeenOnlyLoaded: no header is acted on before a layout is loaded     *)
(*     (line 47 tests $rootScope.layout first);                            *)
(*   - RefetchPending: the invariant itself, with "outstanding" meaning   *)
(*     sent, or answered with a version at least the newest acted on.     *)
(***************************************************************************)
EXTENDS InterceptorProofs

\* The channel of lineage r that carries its layout re-fetch.
LayoutSlot(r) == <<r, "layout">>

RefetchKinds == \A r \in Req : http[LayoutSlot(r)].kind \in {"none", "refetch"}

Reliable ==
    \A id \in Id :
        /\ http[id].st # "delayed"
        /\ http[id].st = "answered" =>
              \/ /\ http[id].status = 200
                 /\ http[id].lay.version = http[id].hdr
                 /\ http[id].hdr \in 1..MaxVersion
              \/ http[id].status = 401 /\ http[id].kind = "data"

VersionsBounded ==
    /\ seen <= srvLayout.version
    /\ \A id \in Id : http[id].hdr <= srvLayout.version

SeenOnlyLoaded == layout.version = 0 => seen = 0

\* The re-fetch of lineage r will bring the layout at least to version seen.
Outstanding(r) ==
    \/ http[LayoutSlot(r)].st = "sent"
    \/ http[LayoutSlot(r)].st = "answered" /\ http[LayoutSlot(r)].hdr >= seen

RefetchPending ==
    (layout.version # 0 /\ seen > layout.version) => \E r \in Req : Outstanding(r)

RInv == IInv /\ RefetchKinds /\ Reliable /\ VersionsBounded /\ SeenOnlyLoaded
             /\ RefetchPending

-----------------------------------------------------------------------------
(* Facts about the request identifiers.                                     *)

LEMMA LayoutSlotId ==
    ASSUME NEW r \in Req
    PROVE  LayoutSlot(r) \in Id /\ LayoutSlot(r)[1] = r
BY DEF LayoutSlot, Id, Chan

\* A request that is not a re-fetch does not travel on a layout channel.
LEMMA NotLayoutSlot ==
    ASSUME RefetchKinds, NEW id \in Id, http[id].kind \notin {"none", "refetch"}
    PROVE  \A r \in Req : LayoutSlot(r) # id
BY DEF RefetchKinds

\* The main channel of a lineage is no layout channel.
LEMMA MainNotLayout ==
    ASSUME NEW r \in Req, NEW q \in Req
    PROVE  LayoutSlot(q) # <<r, "main">>
BY DEF LayoutSlot

-----------------------------------------------------------------------------

LEMMA InitRInv == Init => RInv
<1> SUFFICES ASSUME Init PROVE RInv
    OBVIOUS
<1>1. IInv
    BY InitIInv
<1>2. seen = 0 /\ srvLayout.version = 1
    BY DEF Init
<1>3. \A id \in Id : /\ http[id].st \in {"idle", "sent"}
                     /\ http[id].hdr = 0
                     /\ id[2] = "layout" => http[id].kind = "none"
    <2>1. CASE InitProduction
        BY <2>1 DEF InitProduction, Idle
    <2>2. CASE InitDevelopment
        BY <2>2 DEF InitDevelopment, Idle, Sent
    <2>3. QED
        BY <2>1, <2>2 DEF Init
<1>4. RefetchKinds
    BY <1>3, LayoutSlotId DEF RefetchKinds, LayoutSlot
<1>5. Reliable
    BY <1>3 DEF Reliable
<1>6. layout.version \in Nat
    BY <1>1 DEF IInv, TypeOK, Layouts
<1>7. VersionsBounded /\ SeenOnlyLoaded /\ RefetchPending
    BY <1>2, <1>3, <1>6 DEF VersionsBounded, SeenOnlyLoaded, RefetchPending
<1>8. QED
    BY <1>1, <1>4, <1>5, <1>7 DEF RInv

-----------------------------------------------------------------------------
(* The steps that touch no layout channel, the layout or seen: they only   *)
(* send a controller's request or finish one.                              *)

LEMMA SlotsUntouched ==
    ASSUME RInv, IInv',
           UNCHANGED <<layout, seen, srvLayout>>,
           \A r \in Req : http'[LayoutSlot(r)] = http[LayoutSlot(r)],
           \A id \in Id : http'[id] # http[id] =>
                             /\ http'[id].st \in {"sent", "done"}
                             /\ http'[id].hdr <= srvLayout.version
    PROVE  RInv'
<1>1. RefetchKinds'
    BY DEF RInv, RefetchKinds
<1>2. Reliable'
    BY DEF RInv, Reliable
<1>3. VersionsBounded'
    BY DEF RInv, VersionsBounded
<1>4. SeenOnlyLoaded' /\ RefetchPending'
    BY DEF RInv, SeenOnlyLoaded, RefetchPending, Outstanding
<1>5. QED
    BY <1>1, <1>2, <1>3, <1>4 DEF RInv

\* A controller's request, or sign-out's, is sent on a main channel.
LEMMA SendMainRInv ==
    ASSUME RInv, IInv', NEW r \in Req, NEW k \in Kinds,
           http' = [http EXCEPT ![<<r, "main">>] = Sent(k)],
           UNCHANGED <<layout, seen, srvLayout>>
    PROVE  RInv'
<1>1. \A q \in Req : http'[LayoutSlot(q)] = http[LayoutSlot(q)]
    BY MainNotLayout
<1>2. \A id \in Id : http'[id] # http[id] =>
                        /\ http'[id].st \in {"sent", "done"}
                        /\ http'[id].hdr <= srvLayout.version
    <2>1. srvLayout.version \in Nat
        BY DEF RInv, IInv, TypeOK, ServerLayouts
    <2>2. http \in [Id -> Msgs]
        BY DEF RInv, IInv, TypeOK
    <2>3. QED
        BY <2>1, <2>2 DEF Sent
<1>3. QED
    BY <1>1, <1>2, SlotsUntouched

-----------------------------------------------------------------------------
(* One lemma per action.                                                    *)

\* A 401 belongs to a controller's request, never to a re-fetch: finishing
\* it leaves the layout channels alone.
LEMMA UnauthorizedRInv ==
    ASSUME RInv, IInv', NEW id \in Id, Unauthorized(id)
    PROVE  RInv'
<1>1. http \in [Id -> Msgs]
    BY DEF RInv, IInv, TypeOK
<1>2. http[id].st = "answered" /\ http[id].status = 401
    BY DEF Unauthorized
<1>3. http[id].kind = "data"
    BY <1>2 DEF RInv, Reliable
<1>4. \A r \in Req : LayoutSlot(r) # id
    BY <1>1, <1>3, NotLayoutSlot DEF RInv
<1>5. http' = [http EXCEPT ![id].st = "done"]
    BY DEF Unauthorized
<1>6. \A j \in Id : http'[j] # http[j] =>
                       /\ http'[j].st \in {"sent", "done"}
                       /\ http'[j].hdr <= srvLayout.version
    BY <1>1, <1>5 DEF RInv, VersionsBounded
<1>7. UNCHANGED <<layout, seen, srvLayout>>
    BY DEF Unauthorized, server
<1>8. QED
    BY <1>1, <1>4, <1>5, <1>6, <1>7, LayoutSlotId, SlotsUntouched

\* Without failures nothing is answered with status 0 or 500, and nothing
\* is deferred: ServeFailure, Deferred, Rejected and TimeoutFires never run.
LEMMA FailuresDisabled ==
    ASSUME RInv, Failures = {}, NEW id \in Id
    PROVE  ~ServeFailure(id) /\ ~Deferred(id) /\ ~Rejected(id) /\ ~TimeoutFires(id)
<1>1. ~ServeFailure(id)
    BY DEF ServeFailure
<1>2. ~Deferred(id) /\ ~Rejected(id) /\ ~TimeoutFires(id)
    BY DEF RInv, Reliable, Deferred, Rejected, TimeoutFires
<1>3. QED
    BY <1>1, <1>2

\* A new layout version only raises the bound on headers.
LEMMA BumpLayoutRInv ==
    ASSUME RInv, IInv', BumpLayout
    PROVE  RInv'
<1>1. srvLayout'.version = srvLayout.version + 1 /\ srvLayout.version \in Nat
    BY DEF BumpLayout, RInv, IInv, TypeOK, ServerLayouts
<1>2. VersionsBounded'
    <2>1. http \in [Id -> Msgs] /\ seen \in Nat
        BY DEF RInv, IInv, TypeOK
    <2>2. QED
        BY <1>1, <2>1 DEF BumpLayout, RInv, VersionsBounded, Msgs
<1>3. QED
    BY <1>2 DEF BumpLayout, RInv, RefetchKinds, Reliable, SeenOnlyLoaded,
               RefetchPending, Outstanding

\* The steps of the user and the session leave requests, layout and seen.
LEMMA QuietRInv ==
    ASSUME RInv, IInv', UNCHANGED <<http, layout, seen, srvLayout>>
    PROVE  RInv'
BY DEF RInv, RefetchKinds, Reliable, VersionsBounded, SeenOnlyLoaded,
       RefetchPending, Outstanding

\* The server answers with its current version: an answered re-fetch
\* carries a version at least every header acted on so far.
LEMMA ServeSuccessRInv ==
    ASSUME RInv, IInv', NEW id \in Id, ServeSuccess(id)
    PROVE  RInv'
<1> DEFINE m == http[id]
           unauth == m.kind = "data" /\ ~Authorized
<1>1. http \in [Id -> Msgs] /\ srvLayout \in ServerLayouts
    BY DEF RInv, IInv, TypeOK
<1>2. PICK c \in Statuses : c = IF unauth THEN 401 ELSE 200
    BY DEF Statuses
<1>3. PICK v \in 0..MaxVersion : v = IF unauth THEN 0 ELSE srvLayout.version
    BY <1>1, InterceptorAssumption DEF ServerLayouts
<1>4. http' = [http EXCEPT ![id] = [m EXCEPT !.st = "answered", !.status = c,
                                   !.hdr = v, !.lay = Served(srvLayout, session),
                                   !.user = (session = "valid"),
                                   !.timedOut = (session = "expired")]]
    BY <1>2, <1>3 DEF ServeSuccess
<1>5. /\ \A j \in Id \ {id} : http'[j] = http[j]
      /\ http'[id].kind = m.kind
      /\ http'[id].st = "answered"
      /\ http'[id].status = c
      /\ http'[id].hdr = v
      /\ http'[id].lay.version = srvLayout.version
    BY <1>1, <1>4 DEF Served
<1>6. UNCHANGED <<layout, seen, srvLayout>> /\ m.st = "sent"
    BY DEF ServeSuccess
<1>7. RefetchKinds'
    BY <1>5, LayoutSlotId DEF RInv, RefetchKinds
<1>8. Reliable'
    <2>1. srvLayout.version \in 1..MaxVersion
        BY <1>1 DEF ServerLayouts
    <2>2. QED
        BY <1>2, <1>3, <1>5, <1>6, <2>1 DEF RInv, Reliable
<1>9. VersionsBounded'
    BY <1>1, <1>3, <1>5, <1>6 DEF RInv, VersionsBounded, ServerLayouts
<1>10. RefetchPending'
    <2> SUFFICES ASSUME layout.version # 0, seen > layout.version
                 PROVE  \E r \in Req : Outstanding(r)'
        BY <1>6 DEF RefetchPending
    <2>1. PICK r \in Req : Outstanding(r)
        BY DEF RInv, RefetchPending
    <2>2. CASE LayoutSlot(r) = id
        <3>1. m.kind \in {"none", "refetch"}
            BY <2>2 DEF RInv, RefetchKinds
        <3>2. v = srvLayout.version
            BY <1>3, <3>1
        <3>3. QED
            BY <1>5, <1>6, <2>2, <3>2 DEF RInv, VersionsBounded, Outstanding
    <2>3. CASE LayoutSlot(r) # id
        BY <1>5, <1>6, <2>1, <2>3, LayoutSlotId DEF Outstanding
    <2>4. QED
        BY <2>2, <2>3
<1>11. QED
    BY <1>6, <1>7, <1>8, <1>9, <1>10 DEF RInv, SeenOnlyLoaded

-----------------------------------------------------------------------------
(* The response interceptor.  ResponseShape says what one 200 response     *)
(* does, whatever its caller's callback: it finishes the request (or, for  *)
(* the authenticated user, sends the layout request on its channel),      *)
(* starts a re-fetch on its lineage's layout channel when the header      *)
(* differs from the loaded layout, and loads the body's layout or keeps   *)
(* the old one.                                                           *)

LEMMA ResponseShape ==
    ASSUME RInv, NEW id \in Id, response(id)
    PROVE  LET m == http[id]
               L == LayoutSlot(id[1])
           IN  /\ m.st = "answered" /\ m.status = 200
               /\ m.hdr \in 1..MaxVersion /\ m.lay.version = m.hdr
               /\ seen' = IF layout.version # 0 THEN MaxOf(seen, m.hdr) ELSE seen
               /\ layout' = layout \/ layout' = m.lay
               /\ srvLayout' = srvLayout
               /\ \A j \in Id \ {id, L} : http'[j] = http[j]
               /\ NeedsLayoutRefresh(m.hdr) => http'[L] = Sent("refetch")
               /\ ~NeedsLayoutRefresh(m.hdr) /\ L # id => http'[L] = http[L]
               /\ http'[id] \in {[m EXCEPT !.st = "done"], Sent("initLayout"),
                                 Sent("refetch")}
               /\ id = L => http'[id] \in {[m EXCEPT !.st = "done"], Sent("refetch")}
<1> DEFINE ans == http[id]
           L == LayoutSlot(id[1])
           fin == [http EXCEPT ![id].st = "done"]
           tbl == IF NeedsLayoutRefresh(ans.hdr)
                  THEN [fin EXCEPT ![L] = Sent("refetch")]
                  ELSE fin
<1>1. http \in [Id -> Msgs] /\ L \in Id
    BY LayoutSlotId DEF RInv, IInv, TypeOK, Id
<1>2. ans.st = "answered" /\ ans.status = 200
    BY DEF response
<1>3. ans.hdr \in 1..MaxVersion /\ ans.lay.version = ans.hdr
    BY <1>2 DEF RInv, Reliable
<1>4. /\ \A j \in Id \ {id, L} : tbl[j] = http[j]
      /\ NeedsLayoutRefresh(ans.hdr) => tbl[L] = Sent("refetch")
      /\ ~NeedsLayoutRefresh(ans.hdr) /\ L # id => tbl[L] = http[L]
      /\ tbl[id] \in {[ans EXCEPT !.st = "done"], Sent("refetch")}
    BY <1>1
<1>5. CASE ans.kind = "authUser"
    <2>1. L # id
        BY <1>1, <1>5, NotLayoutSlot DEF RInv, ans, L, Id
    <2>0. authUserSuccess(id, ans, tbl)
        BY <1>5 DEF response, ans, L, tbl, fin, LayoutSlot
    <2>2. http' = [tbl EXCEPT ![id] = Sent("initLayout")]
        BY <2>0 DEF authUserSuccess
    <2>3. UNCHANGED layout /\ UNCHANGED srvLayout
        BY <1>5 DEF response, authUserSuccess, server
    <2>4. QED
        BY <1>1, <1>2, <1>3, <1>4, <2>1, <2>2, <2>3 DEF response
<1>6. CASE ans.kind # "authUser"
    <2>1. http' = tbl
        BY <1>6 DEF response, refetchSuccess, signOutSuccess, initLayoutSuccess,
                    ans, L, tbl, fin, LayoutSlot
    <2>2. layout' = layout \/ layout' = ans.lay
        BY <1>6 DEF response, refetchSuccess, signOutSuccess, initLayoutSuccess,
                    setInitialLayout, ans
    <2>3. UNCHANGED srvLayout
        BY DEF response, server
    <2>4. QED
        BY <1>1, <1>2, <1>3, <1>4, <2>1, <2>2, <2>3 DEF response
<1>7. QED
    BY <1>5, <1>6

\* The response interceptor keeps RInv.  The heart is RefetchPending: a
\* header newer than the loaded layout starts a re-fetch; a header equal to
\* it leaves the layout's version as it was, and if a newer header was acted
\* on before, the re-fetch outstanding for it is on another channel than
\* this response's, which carried an older version.
LEMMA ResponseRInv ==
    ASSUME RInv, IInv', NEW id \in Id, response(id)
    PROVE  RInv'
<1> DEFINE ans == http[id]
           L == LayoutSlot(id[1])
           need == NeedsLayoutRefresh(ans.hdr)
<1>1. /\ ans.st = "answered" /\ ans.status = 200
      /\ ans.hdr \in 1..MaxVersion /\ ans.lay.version = ans.hdr
      /\ seen' = IF layout.version # 0 THEN MaxOf(seen, ans.hdr) ELSE seen
      /\ layout' = layout \/ layout' = ans.lay
      /\ srvLayout' = srvLayout
      /\ \A j \in Id \ {id, L} : http'[j] = http[j]
      /\ need => http'[L] = Sent("refetch")
      /\ ~need /\ L # id => http'[L] = http[L]
      /\ http'[id] \in {[ans EXCEPT !.st = "done"], Sent("initLayout"),
                        Sent("refetch")}
      /\ id = L => http'[id] \in {[ans EXCEPT !.st = "done"], Sent("refetch")}
    BY ResponseShape DEF ans, L, need
<1>2. /\ http \in [Id -> Msgs] /\ ans \in Msgs
      /\ layout \in Layouts /\ seen \in 0..MaxVersion
      /\ srvLayout \in ServerLayouts
      /\ id[1] \in Req /\ L \in Id
    BY LayoutSlotId DEF RInv, IInv, TypeOK, Id, ans, L
<1>3. \A r \in Req : LayoutSlot(r) = id \/ LayoutSlot(r) = L => LayoutSlot(r) = L
    BY LayoutSlotId DEF L
<1>4. /\ [ans EXCEPT !.st = "done"].st = "done"
      /\ [ans EXCEPT !.st = "done"].kind = ans.kind
      /\ [ans EXCEPT !.st = "done"].hdr = ans.hdr
      /\ \A k \in Kinds : Sent(k).st = "sent" /\ Sent(k).hdr = 0 /\ Sent(k).kind = k
    BY <1>2 DEF Msgs, Sent
<1>5. RefetchKinds'
    <2> SUFFICES ASSUME NEW r \in Req
                 PROVE  http'[LayoutSlot(r)].kind \in {"none", "refetch"}
        BY DEF RefetchKinds
    <2>1. CASE LayoutSlot(r) \notin {id, L}
        BY <1>1, <1>2, <2>1, LayoutSlotId DEF RInv, RefetchKinds
    <2>2. CASE LayoutSlot(r) = L /\ L = id
        <3>1. ans.kind \in {"none", "refetch"}
            BY <1>2, <2>2 DEF RInv, RefetchKinds, ans, L
        <3>2. http'[id].kind = ans.kind \/ http'[id].kind = "refetch"
            BY <1>1, <1>4, <2>2 DEF Kinds
        <3>3. QED
            BY <2>2, <3>1, <3>2
    <2>3. CASE LayoutSlot(r) = L /\ L # id
        BY <1>1, <1>4, <2>3 DEF RInv, RefetchKinds, Kinds
    <2>4. QED
        BY <1>3, <2>1, <2>2, <2>3
<1>6. Reliable'
    <2> SUFFICES ASSUME NEW j \in Id
                 PROVE  /\ http'[j].st # "delayed"
                        /\ http'[j].st = "answered" =>
                              \/ /\ http'[j].status = 200
                                 /\ http'[j].lay.version = http'[j].hdr
                                 /\ http'[j].hdr \in 1..MaxVersion
                              \/ http'[j].status = 401 /\ http'[j].kind = "data"
        BY DEF Reliable
    <2>1. CASE j \notin {id, L}
        BY <1>1, <2>1 DEF RInv, Reliable
    <2>2. CASE j = id
        BY <1>1, <1>4, <2>2 DEF Kinds
    <2>3. CASE j = L /\ j # id
        BY <1>1, <1>4, <2>3 DEF RInv, Reliable, Kinds
    <2>4. QED
        BY <2>1, <2>2, <2>3
<1>7. VersionsBounded'
    <2>1. seen' <= srvLayout'.version
        BY <1>1, <1>2 DEF RInv, VersionsBounded, MaxOf, Msgs
    <2>2. ASSUME NEW j \in Id PROVE http'[j].hdr <= srvLayout'.version
        <3>1. srvLayout.version \in Nat
            BY <1>2 DEF ServerLayouts
        <3>2. http[j].hdr <= srvLayout.version /\ ans.hdr <= srvLayout.version
            BY <1>2 DEF RInv, VersionsBounded, ans
        <3>3. CASE j \notin {id, L}
            BY <1>1, <3>2, <3>3
        <3>4. CASE j = id
            <4>1. http'[id].hdr = ans.hdr \/ http'[id].hdr = 0
                BY <1>1, <1>4 DEF Kinds
            <4>2. QED
                BY <1>1, <3>1, <3>2, <3>4, <4>1
        <3>5. CASE j = L /\ j # id
            BY <1>1, <1>4, <3>1, <3>2, <3>5 DEF Kinds
        <3>6. QED
            BY <3>3, <3>4, <3>5
    <2>3. QED
        BY <2>1, <2>2 DEF VersionsBounded
<1>8. SeenOnlyLoaded'
    BY <1>1, <1>2 DEF RInv, SeenOnlyLoaded
<1>9. RefetchPending'
    <2> SUFFICES ASSUME layout'.version # 0, seen' > layout'.version
                 PROVE  \E r \in Req : Outstanding(r)'
        BY DEF RefetchPending
    <2>1. CASE need
        <3>1. http'[LayoutSlot(id[1])].st = "sent"
            BY <1>1, <1>4, <2>1 DEF Kinds, L
        <3>2. QED
            BY <1>2, <3>1 DEF Outstanding
    <2>2. CASE ~need
        <3>1. layout.version # 0
            <4>1. layout'.version \in Nat
                BY <1>1, <1>2 DEF Layouts
            <4>2. QED
                BY <1>1, <4>1 DEF RInv, SeenOnlyLoaded
        <3>2. ans.hdr = layout.version
            BY <1>1, <2>2, <3>1 DEF need, NeedsLayoutRefresh
        <3>3. layout'.version = layout.version
            BY <1>1, <3>2
        <3>4. seen' = seen /\ seen > layout.version
            BY <1>1, <1>2, <3>1, <3>2, <3>3 DEF MaxOf
        <3>5. PICK r \in Req : Outstanding(r)
            BY <3>1, <3>4 DEF RInv, RefetchPending
        <3>6. LayoutSlot(r) # id
            BY <1>1, <1>2, <3>2, <3>4, <3>5 DEF Outstanding, ans
        <3>7. http'[LayoutSlot(r)] = http[LayoutSlot(r)]
            <4>1. CASE LayoutSlot(r) = L
                BY <1>1, <2>2, <3>6, <4>1
            <4>2. CASE LayoutSlot(r) # L
                BY <1>1, <3>6, <4>2, LayoutSlotId
            <4>3. QED
                BY <4>1, <4>2
        <3>8. QED
            BY <3>4, <3>5, <3>7 DEF Outstanding
    <2>3. QED
        BY <2>1, <2>2
<1>10. QED
    BY <1>5, <1>6, <1>7, <1>8, <1>9 DEF RInv

-----------------------------------------------------------------------------

LEMMA NextRInv ==
    ASSUME Failures = {}, RInv, [Next]_vars
    PROVE  RInv'
<1>1. IInv'
    BY NextIInv DEF RInv
<1>2. ASSUME NEW id \in Id, Serve(id) PROVE RInv'
    BY <1>1, <1>2, FailuresDisabled, ServeSuccessRInv DEF Serve
<1>3. ASSUME NEW id \in Id, response(id) PROVE RInv'
    BY <1>1, <1>3, ResponseRInv
<1>4. ASSUME NEW id \in Id, responseError(id) \/ TimeoutFires(id) PROVE RInv'
    BY <1>1, <1>4, FailuresDisabled, UnauthorizedRInv DEF responseError
<1>5. ASSUME NEW r \in Req, IssueData(r) PROVE RInv'
    BY <1>1, <1>5, SendMainRInv DEF IssueData, server, Kinds
<1>6. ASSUME NEW r \in Req, signOut(r) PROVE RInv'
    BY <1>1, <1>6, SendMainRInv DEF signOut, server, Kinds
<1>7. CASE clickSignIn \/ Login \/ LeaveLogin \/ ExpireSession
    BY <1>1, <1>7, QuietRInv
    DEF clickSignIn, Login, LeaveLogin, ExpireSession, server
<1>8. CASE BumpLayout
    BY <1>1, <1>8, BumpLayoutRInv
<1>9. CASE UNCHANGED vars
    BY <1>1, <1>9, QuietRInv DEF vars
<1>10. QED
    BY <1>2, <1>3, <1>4, <1>5, <1>6, <1>7, <1>8, <1>9 DEF Next

\* Spec 4.1 on a network that delivers every request (app.js lines 45-55):
\* whenever the response interceptor has acted on a layout-version header
\* newer than the cached layout, a re-fetch of the layout is outstanding.
THEOREM StaleLayoutRefetched ==
    ASSUME Failures = {}
    PROVE  Spec => []StaleLayoutHasRefetch
<1>1. Init => RInv
    BY InitRInv
<1>2. RInv /\ [Next]_vars => RInv'
    BY NextRInv
<1>3. RInv => StaleLayoutHasRefetch
    BY LayoutSlotId DEF RInv, RefetchPending, Outstanding, StaleLayoutHasRefetch,
                        LayoutSlot
<1>4. QED
    BY <1>1, <1>2, <1>3, PTL DEF Spec

=============================================================================
