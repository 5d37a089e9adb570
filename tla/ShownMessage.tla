---------------------------- MODULE ShownMessage ----------------------------
(***************************************************************************)
(* What showAndFadeSuccessMessage promises (spec section 8): a click shows *)
(* the message, and it disappears a fixed lifetime after the last click; a *)
(* click before that restarts the lifetime.  Time advances only while the *)
(* message is shown.                                                       *)
(***************************************************************************)
EXTENDS Naturals

CONSTANTS
    Lifetime,   \* from the click to the end of the fade
    MaxClicks   \* bound on the user's clicks

VARIABLES now, shown, deadline, clicks

Click ==
    /\ clicks < MaxClicks
    /\ shown' = TRUE
    /\ deadline' = now + Lifetime
    /\ clicks' = clicks + 1
    /\ UNCHANGED now

Expire ==
    /\ shown /\ now = deadline
    /\ shown' = FALSE
    /\ UNCHANGED <<now, deadline, clicks>>

Tick ==
    /\ shown /\ now < deadline
    /\ now' = now + 1
    /\ UNCHANGED <<shown, deadline, clicks>>

Init == now = 0 /\ ~shown /\ deadline = 0 /\ clicks = 0

Next == Click \/ Expire \/ Tick

SafetySpec == Init /\ [][Next]_<<now, shown, deadline, clicks>>

\* Time runs and the message goes once shown; the user need not click.
Spec == SafetySpec /\ WF_<<now, shown, deadline, clicks>>(Expire \/ Tick)

=============================================================================
