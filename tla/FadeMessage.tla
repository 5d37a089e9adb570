---------------------------- MODULE FadeMessage ----------------------------
(***************************************************************************)
(* Glowroot.showAndFadeSuccessMessage / showAndFadeMessage and fadeOut     *)
(* (app.js 279-302, 326-329) on one element, in discrete time: one tick   *)
(* is 100 ms.                                                              *)
(*                                                                         *)
(* The element has its 'hide' class, the setTimeout handles of the fade    *)
(* timer (only the one stored in data('gtTimeout') can be cleared), and    *)
(* jQuery's fx queue: the running animation at its head, with the time it *)
(* ends.  stop() ends the running animation without its completion         *)
(* callback and starts the next queued one.  Time advances only while a  *)
(* timer or an animation is pending; an idle page has nothing scheduled.  *)
(***************************************************************************)
EXTENDS Naturals, Sequences

CONSTANTS
    Delay,           \* the fade timer: 1500 ms (line 327)
    FadeDuration,    \* fadeOut(outerThis, 1000) (line 290)
    AnimateDuration, \* animate({opacity: '100'}): jQuery's default 400 ms
    MaxTriggers      \* bound on the user's clicks

ASSUME FadeAssumption ==
    /\ Delay \in Nat \ {0}
    /\ FadeDuration \in Nat \ {0}
    /\ AnimateDuration \in Nat \ {0}
    /\ AnimateDuration < Delay
    /\ MaxTriggers \in Nat

VARIABLES
    now,          \* the clock, in ticks
    hidden,       \* the element has the 'hide' class
    timers,       \* due times of the live fade timers
    fx,           \* jQuery's fx queue: "in" (animate) and "out" (fadeOut)
    fxEnd,        \* when the animation at the head of fx ends
    lastTrigger,  \* when showAndFadeMessage last ran (0 before the first click)
    triggers      \* clicks so far

vars == <<now, hidden, timers, fx, fxEnd, lastTrigger, triggers>>

Dur(k) == IF k = "in" THEN AnimateDuration ELSE FadeDuration

\* The queue q becomes fx; if its head is new, it starts now.
StartQueue(q) ==
    /\ fx' = q
    /\ fxEnd' = IF q = <<>> THEN 0 ELSE now + Dur(Head(q))

-----------------------------------------------------------------------------

\* Mutant: $this.stop() left out; the running animation goes on.
showAndFadeMessage_noStop ==
    /\ triggers < MaxTriggers
    /\ IF fx = <<>> THEN StartQueue(<<"in">>)
                    ELSE fx' = Append(fx, "in") /\ UNCHANGED fxEnd
    /\ hidden' = FALSE
    /\ timers' = {now + Delay}
    /\ lastTrigger' = now
    /\ triggers' = triggers + 1
    /\ UNCHANGED now

\* Mutant: the pending timer is not cleared (lines 283-285 left out).
showAndFadeMessage_noClear ==
    /\ triggers < MaxTriggers
    /\ StartQueue(Append(IF fx = <<>> THEN <<>> ELSE Tail(fx), "in"))
    /\ hidden' = FALSE
    /\ timers' = timers \cup {now + Delay}
    /\ lastTrigger' = now
    /\ triggers' = triggers + 1
    /\ UNCHANGED now

\* showAndFadeMessage (lines 280-292): clear the stored timer, stop the
\* running animation and queue the fade-in, remove 'hide', and store a new
\* timer.  Stopping the head starts whatever was queued behind it; the
\* fade-in then waits behind that.
showAndFadeMessage ==
    /\ triggers < MaxTriggers
    /\ LET rest == IF fx = <<>> THEN <<>> ELSE Tail(fx)
       IN IF rest = <<>> THEN StartQueue(<<"in">>)
          ELSE fx' = Append(rest, "in") /\ fxEnd' = now + Dur(Head(rest))
    /\ hidden' = FALSE
    /\ timers' = {now + Delay}
    /\ lastTrigger' = now
    /\ triggers' = triggers + 1
    /\ UNCHANGED now

\* The timer of line 289 fires: fadeOut (lines 295-302) queues a fade.
fadeOutTimer ==
    /\ now \in timers
    /\ timers' = timers \ {now}
    /\ IF fx = <<>> THEN StartQueue(<<"out">>)
                    ELSE fx' = Append(fx, "out") /\ UNCHANGED fxEnd
    /\ UNCHANGED <<now, hidden, lastTrigger, triggers>>

\* The running animation ends; a finished fadeOut runs its completion
\* callback (lines 298-301), which adds 'hide'.  The next one starts.
animationEnds ==
    /\ fx # <<>>
    /\ fxEnd = now
    /\ StartQueue(Tail(fx))
    /\ hidden' = (hidden \/ Head(fx) = "out")
    /\ UNCHANGED <<now, timers, lastTrigger, triggers>>

\* 100 ms pass; nothing due now is skipped.
Tick ==
    /\ timers # {} \/ fx # <<>>
    /\ now \notin timers
    /\ fx # <<>> => fxEnd # now
    /\ now' = now + 1
    /\ UNCHANGED <<hidden, timers, fx, fxEnd, lastTrigger, triggers>>

\* The message element starts hidden and idle.
Init ==
    /\ now = 0
    /\ hidden = TRUE
    /\ timers = {}
    /\ fx = <<>>
    /\ fxEnd = 0
    /\ lastTrigger = 0
    /\ triggers = 0

Next == showAndFadeMessage \/ fadeOutTimer \/ animationEnds \/ Tick

\* Timers fire and animations end once they are due.
Spec == Init /\ [][Next]_vars /\ WF_vars(fadeOutTimer \/ animationEnds \/ Tick)

-----------------------------------------------------------------------------
(* Properties                                                              *)

Horizon == MaxTriggers * (Delay + FadeDuration + AnimateDuration)

\* The element's state is well typed, and its fx queue never holds more
\* than the running animation: the fade-in ends before the fade timer can
\* fire (AnimateDuration < Delay), and a click stops a running fade-out.
TypeOK ==
    /\ now \in 0..Horizon
    /\ hidden \in BOOLEAN
    /\ timers \subseteq 0..Horizon
    /\ fx \in Seq({"in", "out"}) /\ Len(fx) <= 1
    /\ fxEnd \in 0..Horizon
    /\ lastTrigger \in 0..Horizon
    /\ triggers \in 0..MaxTriggers

\* Spec 8: clicking again before the message has faded gives exactly one
\* fade-out, timed from the last click: the element stays visible for the
\* delay plus the fade, and is hidden as soon as that has elapsed.
FadeTimedFromLastTrigger ==
    triggers > 0 =>
        /\ hidden => now >= lastTrigger + Delay + FadeDuration
        /\ now > lastTrigger + Delay + FadeDuration => hidden

-----------------------------------------------------------------------------
(* Refinement of ShownMessage                                              *)

\* The message is shown while the element lacks 'hide'; its deadline is the
\* end of the fade that the last click scheduled.
Shown == INSTANCE ShownMessage WITH
    Lifetime <- Delay + FadeDuration,
    MaxClicks <- MaxTriggers,
    shown <- ~hidden,
    deadline <- IF triggers = 0 THEN 0 ELSE lastTrigger + Delay + FadeDuration,
    clicks <- triggers

\* Spec 8 as a behaviour: every step of the element shows the message on a
\* click, hides it exactly Delay + FadeDuration after the last click, or
\* leaves both unchanged, and a shown message eventually goes.
ShownMessageSpec == Shown!Spec

=============================================================================
