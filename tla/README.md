# TLA+ models of the Glowroot UI bootstrap, interceptor and routing layer

This directory holds TLA+ models of the two scripts under `src/ui/app/scripts/`:
`app.js` (the `$http` interceptor, the run block with the bootstrap and the
session helpers, and the presentation helpers) and `routes.js` (the ui-router
state table and its resolve preconditions). The models are model-checked with
TLC, and their main safety invariants, and one refinement, are proved with TLAPS.

## The system

The page is one AngularJS application on the browser's single event loop.
Every step below is one callback, or one `$digest`, and runs to completion.
Concurrency comes from several requests, timers and navigations being
outstanding at once, and from their callbacks running in any order.

* **Interceptor** (`app.js` 36-89).
  * `response` compares the `Glowroot-Layout-Version` header with
    `$rootScope.layout.version`. If they differ, it sends `GET backend/layout`,
    whose success callback replaces the layout wholesale.
  * `responseError` turns a 401 into a redirect to `/login`, unless the path
    is `/login` already, and returns a promise that never settles.
  * It defers a status 0 by a 500 ms `$timeout`, and rejects everything else.
* **Run block** (`app.js` 93-275).
  * In production, `window.layout` and `window.authenticatedUser` are embedded
    in the page, and `setInitialLayout` runs at once.
  * In development, `GET backend/authenticated-user` and then
    `GET backend/layout` run first.
  * The block also installs `signOut`, `goToLogin`, `showSignIn`/`showSignOut`
    and the query helpers.
* **Route table** (`routes.js`).
  * Every state resolves `waitForLayout`, directly or through its parent. Its
    `needsTransactionType` flag fills a missing `transaction-type` url
    parameter with `defaultTransactionType()`.
  * The flame graphs also resolve `waitForD3`, which polls every 100 ms.
  * The `otherwise` rule picks `/server-rollups` in central mode and
    `transaction/average` otherwise.
* **Presentation helpers** (`app.js` 277-332): `showAndFadeMessage`,
  `fadeOut` and `showSpinner`.

How the parts interact:

* The interceptor sees the responses of the bootstrap requests.
* The bootstrap supplies the layout that every route waits for.
* The views' controllers send the requests whose 401s and headers drive the
  interceptor.

## Modules

| module | models | status |
|---|---|---|
| `Interceptor` | interceptor, bootstrap, sign-in/sign-out, session (app.js 36-246) | modelled |
| `InterceptorProofs` | TLAPS proofs about `Interceptor` | proved |
| `InterceptorRefreshProofs` | TLAPS proof of the layout refresh of `Interceptor` on a reliable network | proved |
| `MCInterceptor` | three request lineages as model values, symmetry set | TLC |
| `Routing` | route table, waitForLayout, waitForD3, otherwise (routes.js 19-437) | modelled |
| `MCRouting` | two transaction types | TLC |
| `FadeMessage` | showAndFadeMessage, fadeOut, jQuery's fx queue, in 100 ms ticks (app.js 279-302, 324-329) | modelled |
| `ShownMessage` | abstract message: shown on a click, gone a fixed lifetime after the last one | abstract |
| `FadeMessageProofs` | TLAPS proofs about `FadeMessage`, the refinement included | proved |
| `Spinner` | showSpinner, its timer and its handle's stop (app.js 304-323) | modelled |
| `SpinnerProofs` | TLAPS proof about `Spinner` | proved |
| `RootScope` | $locationChangeSuccess listener and the query helpers (app.js 102-161) | modelled |
| `RootScopeProofs` | TLAPS proofs about `RootScope` | proved |
| `MCRootScope` | two servers, two rollups, three layouts | TLC |
| `RoutingProofs` | TLAPS proofs about `Routing` and its route table | proved |

### Interceptor

**State.**

* `http` maps each request slot to its message. A slot is `<<lineage, channel>>`.
  * The `"main"` channel carries the lineage's own requests: a controller's
    data request, the sign-out POST, or the two bootstrap GETs.
  * The `"layout"` channel carries the layout re-fetch that a response of the
    lineage started. One slot per lineage bounds the traffic without forbidding
    any interleaving the code allows. A re-fetch started while the slot is busy
    replaces it, just as the code does not track earlier re-fetches.
* A message records:
  * its kind (`data`, `signOut`, `authUser`, `initLayout`, `refetch`);
  * its life cycle (`sent`, `answered`, `delayed` for the 500 ms timer, `done`);
  * the status, the layout-version header, the served layout and the
    authenticated user;
  * the `timedOut` flag of a 401 body.
* The client holds `layout` (the cached version, `anonymousAccess === 'none'`
  and `needsAuthentication`), `authUser`, `path` (`login` or `app`) and
  `loginMsg`.
* The server holds `srvLayout`, `session` (none, valid or expired) and a count
  of logins.
* There are two history variables:
  * `autoRedirects` counts the 401 redirects since the app was last entered;
  * `seen` is the newest version header the client has observed.

**Actions.**

* Each callback of the code is an action.
  * `response` (45-55) runs the interceptor and then the request's own
    `.success` callback in the same step: `refetchSuccess` (49-51),
    `signOutSuccess` (185-194), `authUserSuccess` (239-241) or
    `initLayoutSuccess` (242-244, which calls `setInitialLayout`).
  * `Unauthorized`, `Deferred` and `Rejected` are the three branches of
    `responseError`.
  * `TimeoutFires` is the `$timeout` of line 80.
  * `clickSignIn` and `signOut` are the two navbar links.
* The server and the user are environment actions: `Serve`, `IssueData`,
  `Login`, `LeaveLogin`, `ExpireSession`, `BumpLayout`. They come from the
  spec, because their code is outside `src/`.

### Routing

**The route table.** Each `$stateProvider.state` call is a record: name,
parent, abstract, the `waitForLayout` variant it resolves (`none`, `plain` or
`tt`), and whether it resolves `waitForD3`. A transition runs the resolves of
the state and of its ancestors, so `WaitsLayout`, `NeedsTT` and `WaitsD3`
look at the whole lineage. A root state's parent is the sentinel `Root`, a
name no state has.

`RoutingAssumption` keeps the model's markers apart from the transaction
types: `""`, `"absent"` and `"none"` (the missing layout, `NoLayout`) are
not types.

**State.**

* `layout` is abstracted to `central` and the result of
  `defaultTransactionType()`.
* `loc` is the selected state and its `transaction-type` parameter.
* `active` is the active view.
* `pending` is the transition whose resolves are outstanding.
* `watches` holds the registered layout watches, superseded ones included.
* `d3Loaded` records whether window.d3 is defined.
* `stalePolls` counts the poll timers of superseded transitions.

**Actions.**

* `Navigate` and `NavigateUnmatched` run every resolve in one digest. The
  watch is called at once with the current layout, so in development mode it
  writes an empty transaction type.
* `LoadLayout` fires every registered watch.
* `checkForD3` and `checkForD3Stale` are the poll timers.
* `LoadD3` is the script loader.

### FadeMessage and ShownMessage

**State.** `now` is a clock in ticks of 100 ms. `hidden` is the element's
`hide` class. `timers` holds the due times of the fade timers still
pending. `fx` is jQuery's fx queue, with the running animation at its head
and `fxEnd` the tick it ends. `lastTrigger` and `triggers` record the clicks.

**Actions.**

* `showAndFadeMessage` (279-292) is one click. It clears the stored timer
  and calls `stop()`, which drops the running animation without its
  completion callback. It then queues the 400 ms fade-in, removes `hide` and
  stores a new 1500 ms timer.
* `fadeOutTimer` is that timer firing. It runs `fadeOut` (295-302), which
  queues a 1000 ms fade-out.
* `animationEnds` ends the running animation. A finished fade-out runs its
  callback, which adds `hide`.
* `Tick` advances the clock. It is enabled only while something is pending
  and nothing is due now.

`ShownMessage` is the promise of spec sections 4.3 and 8, with no timers and
no queue. A click shows the message and sets its deadline to
now + `Lifetime`. At the deadline the message goes. `FadeMessage`
instantiates it with `Lifetime <- Delay + FadeDuration`, `shown <- ~hidden`
and `deadline <-` the last click plus `Delay + FadeDuration`.

### Spinner

`Handles` are the calls of `showSpinner` on one element. Each call gets its
own timer and its own spin.js spinner. The element's `hide` class is shared
between them.

* `showSpinner` sets a call's timer.
* `timerFires` (311-314) removes `hide` and starts that call's spinner.
* `stop` (317-321) clears the timer, adds `hide` and stops that spinner.

### RootScope

The url's query is a record of its `server-id`, `server-rollup` and
`transaction-type` parameters, with `Absent` for a missing one. Encoding a
query into a link and parsing it back gives the same parameters, so a link
is modelled by the query it carries.

* `locationChangeSuccess` (104-107) is part of every navigation step: the
  url changes and the listener derives `serverId` and `serverRollup`.
* The user opens any url (`OpenUrl`), follows a link built by
  `serverRollupUrl` (`FollowRollupLink`), or follows a link built with
  `serverQueryString` (`FollowQueryStringLink`).
* `LayoutArrives` loads or replaces the layout wholesale.

`serverQueryString`, `serverRollupUrl`, `transactionTypes` and
`defaultTransactionType` are operators over this state.

## Runs

| run | cfg | expect | checks |
|---|---|---|---|
| interceptor_safety | MCInterceptor.cfg | pass | `TypeOK`, `OneRedirectPerVisit` |
| layout_refresh | MCInterceptorLive.cfg | pass | `StaleLayoutHasRefetch`, `LayoutRefreshTerminates` |
| stale_layout_after_failed_refetch | MCStaleLayoutFailure.cfg | violation | `StaleLayoutHasRefetch` |
| late_401_after_signin | MCLate401.cfg | violation | `NoRedirectOfValidSession` |
| bootstrap_login_unredirected | MCBootstrapLogin.cfg | violation | `BootstrapLeavesLogin` |
| routing | MCRouting.cfg | pass | `ActiveViewResolved`, `TransactionTypeOnActivate`, `NavigationCompletes`, `StaleTimersStop` |
| default_route_dev | MCDefaultRoute.cfg | violation | `DefaultRouteMatchesMode` |
| stale_watch_writes_tt | MCStaleWatch.cfg | violation | `LayoutWritesOnlyOwnTT` |
| fade_message | MCFadeMessage.cfg | pass | `TypeOK`, `FadeTimedFromLastTrigger`, `ShownMessageSpec` |
| spinner | MCSpinner.cfg | pass | `VisibleOnlyWhileLoading` |
| root_scope | MCRootScope.cfg | pass | `TypeOK`, `DefaultTTOffered` |
| rollup_link_keeps_server | MCRollupLink.cfg | violation | `RollupLinkSelectsRollup` |

### What the passing runs show

* **OneRedirectPerVisit.** However the 401s of three concurrent lineages
  interleave with sign-in, sign-out, status-0 and 500 failures and layout
  bumps, the guard of line 60 lets through at most one automatic redirect per
  visit of the app.
* **LayoutRefreshTerminates** (liveness). Each re-fetch response passes through
  the interceptor again and could start another re-fetch. Once the server stops
  changing the layout, that chain ends.
* **StaleLayoutHasRefetch.** With a reliable network (`Failures = {}`) and three
  versions, reordered re-fetch answers can install an older layout. When they
  do, another re-fetch is always outstanding: the answer carrying the older body
  also carries the current header, so the interceptor starts a corrective fetch.
  We expected a violation here, and the check showed the code heals itself.
* **ActiveViewResolved.** No view becomes active before its layout, and no
  flame graph becomes active before d3 is loaded. The children of `jvm` and
  `config` inherit this from their parent's resolve.
* **TransactionTypeOnActivate.** Every transaction or error view is activated
  with a transaction type in the url, unless the layout offers none. In
  development mode this holds only because the second watch call refills the
  `''` that the first call wrote.
* **NavigationCompletes** (liveness). Once the layout and d3 are both there,
  every pending transition completes.
* **StaleTimersStop** (liveness). `checkForD3` reschedules itself every
  100 ms until it sees `window.d3` (routes.js:191-197), and a transition the
  user leaves keeps its chain. Navigations before d3 loads pile these chains
  up; once d3 has loaded, every one of them stops. Dropping the `else` of
  line 194 keeps them polling forever.
* **FadeMessage `TypeOK`.** The fx queue never holds more than the running
  animation. The fade-in ends before the fade timer can fire, and a click
  stops a running fade-out. Without `stop()`, fade-ins pile up behind one
  another.
* **FadeTimedFromLastTrigger.** However the three clicks fall relative to the
  timers and the animations, the message is hidden exactly when 2.5 s have
  passed since the last click. This is spec 8's "exactly one fade-out, timed
  from the second trigger". Dropping the `clearTimeout` of lines 283-285 breaks
  it: the first click's timer then fades the message early.
* **ShownMessageSpec.** The element refines `ShownMessage`: every step is a
  click, the expiry at the deadline, a tick before the deadline, or changes
  nothing the abstract message sees. Under the fairness of timers, a shown
  message goes.
* **VisibleOnlyWhileLoading.** A `stop()` before the 100 ms timer keeps the
  element hidden. With four calls stopped in any order, the element is never
  visible without a spinner whose handle is still live. The converse does not
  hold: when two calls on one element overlap, each `stop()` adds `hide` to
  the shared element, so the first stop hides it while the other spinner
  still spins (app.js:319). The spec does not say whether calls on one
  element may overlap, and the callers are outside `src/`, so no run asserts
  the converse.
* **DefaultTTOffered.** After urls, links and layout replacements, the
  default transaction type is one that the selected rollup offers, whenever
  it offers any. This holds because `defaultTransactionType` checks the
  layout's default against the rollup's list (lines 153-155).

### Findings (violation runs)

1. **Failed re-fetch.** A failed re-fetch (the TODO at app.js:52) leaves a
   layout older than the newest header seen, with nothing outstanding to
   correct it.
2. **Late 401.** A 401 that is handled after the user signed in redirects a
   valid session to `/login` (app.js:60).
3. **Production bootstrap.** `setInitialLayout` runs before
   `authenticatedUser` is set (app.js:234-235), so an authenticated user who
   opens `/login` stays there. The development path does redirect.
4. **Default route in development mode.** The `otherwise` rule runs before the
   layout is loaded, so a central deployment lands on `transaction/average`
   (routes.js:51), against spec section 8.
5. **Stale layout watch.** A transaction view's `$watch` is unregistered only
   when the layout arrives, so it survives when the user moves on. In
   development mode it then writes a `transaction-type` into the url of the
   view the user moved to, a JVM view for example (routes.js:37).
6. **Rollup link keeps the server.** `serverRollupUrl(rollup, false)` keeps
   the current `server-id` (app.js:128). The listener and `serverQueryString`
   prefer `server-id`, so the views go on querying the server that was
   selected before.

### Bounds

**Interceptor.**

* Three request lineages are enough for two concurrent 401s and a third
  request in flight during a re-login. Symmetry over the lineages is used only
  in the safety run.
* Two layout versions, or three for the `layout_refresh` run, which needs two
  distinct bumps to reorder.
* One login, so there is a visit before sign-in and one after it.
* Failures are status 0 and 500 (the error branches), or none in the
  `layout_refresh` run, whose invariant assumes a reliable network.

**Routing.**

* The whole route table is included.
* Two transaction types.
* Both bootstraps in one run (`WindowLayout = {FALSE, TRUE}`), with three
  navigations: enough to supersede a pending flame-graph transition and start
  another one. The violation runs use development mode only.

**FadeMessage.** The real durations in ticks: 1500 ms, 1000 ms and 400 ms.
Three clicks are enough for a click during the fade-in, one while the timer
is pending, one during the fade-out, and one after the fade.

**Spinner.** Four calls, each stopped before or after its timer. The
overlap run uses two.

**RootScope.** Two servers and two rollups, so a link can change the
selection. Three layouts: a central one, a newer central one in which `r1`
no longer offers the default, and a single-server one. Three navigations.

### Fairness and deadlock

Weak fairness is given only to steps the browser is bound to take once they
are enabled:

* the server answering a sent request;
* the response and responseError callbacks;
* the `$timeout` timers: the 500 ms rejection and checkForD3;
* the `setTimeout` timers of the fade and of the spinner, the end of a
  running jQuery animation, and the clock while one of these is pending.

The following get no fairness, because nothing in the code forces them:

* user actions;
* session expiry and layout changes;
* the arrival of the bootstrap layout and of the d3 script.

All cfgs set `CHECK_DEADLOCK FALSE`, because an idle page really stops: no
request is outstanding and the user does nothing.

The symmetry set is unsound for liveness checking, so the liveness run uses
two lineages and no symmetry.

## Proofs

`InterceptorProofs` proves these two theorems for every value of the
constants:

* `TypeCorrect`: `Spec => []TypeOK`.
* `RedirectAtMostOnce`: `Spec => []OneRedirectPerVisit`.

They hold under `InterceptorAssumption`: `Req` is non-empty, `MaxVersion` is
positive, `MaxLogins` is a natural number and `Failures` is a subset of
{0, 500}.

`TypeOK` alone is not inductive:

* Its bound `autoRedirects \in 0..1` needs to know that a redirect cannot
  happen while the count is already 1.
* The strengthening `IInv == TypeOK /\ RedirectOnlyFromApp` adds
  `path = "app" => autoRedirects = 0`.
* A redirect moves the path to `login`. No redirect happens from `login`.
  The only way back to `app` (`EnterApp`) resets the count.

TLC checked `IInv` as an invariant before it was proved. The proof has one
step per action, and typing lemmas for the message records and the `EXCEPT`
updates of the request table.

`InterceptorRefreshProofs` proves `StaleLayoutRefetched`:
`Spec => []StaleLayoutHasRefetch` under the hypothesis `Failures = {}`, the
reliable network of the layout_refresh run. It must assume this:
stale_layout_after_failed_refetch shows the property failing once a
re-fetch can fail.

`StaleLayoutHasRefetch` is not inductive. Its inductive invariant `RInv`
adds five facts to `IInv`:

* `RefetchKinds`: a layout channel carries only re-fetches.
* `Reliable`: nothing is deferred. Every answer is either a 401 of a
  controller's request, or a 200 whose body has the header's version.
* `VersionsBounded`: `seen` and every header are at most the server's
  current version.
* `SeenOnlyLoaded`: no header is acted on before a layout is loaded.
* `RefetchPending`: the property, strengthened. Some re-fetch is sent, or
  answered with a version at least `seen`.

TLC checked `RInv` on three lineages before it was proved. The proof of
the response step (`ResponseRInv`) has two cases:

* The header differs from the loaded layout. Then a re-fetch is sent on
  the response's own layout channel.
* It equals the layout's version. Then the layout keeps its version. A
  newer header acted on earlier still has its outstanding re-fetch. That
  re-fetch is on another channel, because this response carried an older
  version.

`FadeMessageProofs` proves three theorems under `FadeAssumption`. The three
durations are positive, the fade-in is shorter than the delay, and
`MaxTriggers` is a natural number.

* `FadeTypeCorrect`: `Spec => []TypeOK`.
* `FadeTimed`: `Spec => []FadeTimedFromLastTrigger`.
* `FadeRefinesShown`: `Spec => Shown!SafetySpec`.

Their inductive invariant `IInv` puts the element, after its last click, in
one of three phases, each with its exact timer, queue and deadline:

* `Waiting`: the timer is pending, and the fade-in is running or over;
* `Fading`: the fade-out is running and ends at the deadline;
* `Faded`: the element is hidden, at the deadline.

`IInv` also bounds `lastTrigger + Delay + FadeDuration` by
`triggers * (Delay + FadeDuration)`, which gives `TypeOK`'s horizon.

The refinement proof maps each action to an abstract step:

* a click to `Click`;
* the end of the fade-out to `Expire`;
* `Tick` to the abstract `Tick`, because no phase ticks past the deadline;
* the timer and the end of the fade-in to stutters.

The liveness half of `ShownMessage!Spec` is checked by TLC only.

`SpinnerProofs` proves `SpinnerHiddenWhenIdle`:
`Spec => []VisibleOnlyWhileLoading`, for any set of handles. The invariant is
strengthened with two facts: a stopped handle has no pending timer, and it
has no spinning spinner.

`RootScopeProofs` proves two theorems under `RootScopeAssumption`:

* `RootScopeTypeCorrect`: `Spec => []TypeOK`.
* `DefaultTTAlwaysOffered`: `Spec => []DefaultTTOffered`.

`RootScopeAssumption` says that `Absent` and `NoLayout` are not values of
the sets they mark, and that every layout has the shape of the layout JSON:
a boolean `central`, and for each rollup an array of transaction types.

`TypeOK` is not inductive. `FollowQueryStringLink` builds the url from
`serverRollup`, and the listener copies the url's `server-rollup` back. So
`IInv` adds that `serverRollup` is a rollup, empty, or equal to `serverId`.
Given `TypeOK`, `DefaultTTOffered` holds of every layout of that shape:
`defaultTransactionType()` returns either the layout's default, when the
rollup lists it, or the rollup's first type.

`RoutingProofs` proves three theorems under `RoutingAssumption`, for every
set of transaction types and every navigation bound:

* `RoutingTypeCorrect`: `Spec => []TypeOK`. Routing's `TypeOK` is proved
  for every value of the constants rather than checked by a run.
* `ActiveViewsResolved`: `Spec => []ActiveViewResolved`.
* `TransactionTypeFilled`: `Spec => TransactionTypeOnActivate`, an action
  property.

The proof rests on lemmas about the route table, read off its literal
definition:

* every state's lineage resolves `waitForLayout`
  (`EveryStateWaitsForLayout`);
* the default view `transaction.detail.average` is a navigable state;
* `serverRollups` is no state of the table.

The inductive invariant `IInv` adds three facts to `TypeOK`:

* `TimersCounted`: the stale checkForD3 timers, plus the pending one, are
  no more than the navigations. This bounds `stalePolls`.
* `PendingSatisfied`: a resolve that the pending transition no longer
  waits for is satisfied. After its layout watch fired, the layout is
  loaded. After its checkForD3 found d3, or if its lineage never asked for
  d3, d3 is loaded.
* `ActiveSatisfied`: the same fact about the active state.

`ActiveViewResolved` is not inductive alone. `LoadLayout` and `checkForD3`
activate the pending state, so the invariant needs `PendingSatisfied`.

`TransactionTypeFilled` needs a second invariant, `TTPending`, about the
pending transition:

* the url selects the pending state;
* while its layout watch is registered and its lineage needs a type, a
  watch that fills the type is registered;
* once that watch has fired, the url has a type, or the default is empty.

A further table lemma, `TTViewsNeedTT`, says that every transaction and
error view needs a transaction type. The flame graphs resolve
`waitForLayout(true)` themselves. The other views inherit it from the
`transaction` or `error` root. Every step then either activates nothing of
that kind, or activates the pending state with its type already filled.

TLC checks the rest only on the instances above:

* **Liveness.** `LayoutRefreshTerminates` and `NavigationCompletes` are
  outside what TLAPS proves here.
* **Interceptor.** `StaleLayoutHasRefetch` is proved only for a reliable
  network. With failures, TLC finds it violated.

## Not modelled

* The order of the `$locationChangeSuccess` listener relative to the
  router's. `$state` and `$urlRouter` are injected into the run block before
  its body registers the listener, so the router's listener runs first. But
  the resolves that read `serverRollup` run in promise callbacks after both
  listeners, so they see the new value. This is not a hazard.
* How spin.js draws, and the css of the messages: no property reads them.
* The window resize handler, the analytics hook, the regex patterns,
  ZeroClipboard and the bootstrap button focus hack: DOM I/O that no property
  depends on.
* The login controller, the login service, the server and the callers of the
  presentation helpers. They are outside `src/`. Where they matter, they are
  modelled from the spec as environment actions (marked `spec_modelled` in
  PROJECT.json).

## Plan for the next sittings

1. A composition of `Interceptor` and `Routing` through the shared layout.
2. An abstract "one live layout, replaced wholesale" specification that
   `Interceptor` refines.
