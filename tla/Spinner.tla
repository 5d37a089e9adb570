------------------------------ MODULE Spinner ------------------------------
(***************************************************************************)
(* Glowroot.showSpinner (app.js 304-323) on one element.  Every call      *)
(* creates its own Spinner and its own 100 ms timer and returns a handle  *)
(* whose stop() clears that timer, adds 'hide' to the element and stops   *)
(* that spinner.  Handles are the calls made on the one selector; the     *)
(* element's 'hide' class is shared between them.                          *)
(***************************************************************************)
EXTENDS Naturals

CONSTANT Handles   \* the calls of showSpinner on one element

VARIABLES
    hidden,    \* the element has the 'hide' class
    started,   \* handles showSpinner has returned
    timers,    \* handles whose 100 ms timer is pending
    spinning,  \* handles whose Spinner is spinning in the element
    stopped    \* handles whose stop() has run

vars == <<hidden, started, timers, spinning, stopped>>

-----------------------------------------------------------------------------

\* showSpinner (lines 304-323): the spinner is created and the timer set;
\* nothing is shown yet.
showSpinner(h) ==
    /\ h \notin started
    /\ started' = started \cup {h}
    /\ timers' = timers \cup {h}
    /\ UNCHANGED <<hidden, spinning, stopped>>

\* The timer (lines 311-314): remove 'hide' and start this spinner.
timerFires(h) ==
    /\ h \in timers
    /\ timers' = timers \ {h}
    /\ hidden' = FALSE
    /\ spinning' = spinning \cup {h}
    /\ UNCHANGED <<started, stopped>>

\* Mutant: clearTimeout(timer) left out of stop().
stop_noClear(h) ==
    /\ h \in started \ stopped
    /\ hidden' = TRUE
    /\ spinning' = spinning \ {h}
    /\ stopped' = stopped \cup {h}
    /\ UNCHANGED <<started, timers>>

\* The handle's stop (lines 317-321).  Calling it again changes nothing.
stop(h) ==
    /\ h \in started \ stopped
    /\ timers' = timers \ {h}
    /\ hidden' = TRUE
    /\ spinning' = spinning \ {h}
    /\ stopped' = stopped \cup {h}
    /\ UNCHANGED started

\* The element starts with its 'hide' class; no spinner exists.
Init ==
    /\ hidden = TRUE
    /\ started = {}
    /\ timers = {}
    /\ spinning = {}
    /\ stopped = {}

Next == \E h \in Handles : showSpinner(h) \/ timerFires(h) \/ stop(h)

\* The browser fires every pending timer.
Spec == Init /\ [][Next]_vars /\ \A h \in Handles : WF_vars(timerFires(h))

-----------------------------------------------------------------------------
(* Properties                                                              *)

\* Every handle set is one of the calls on the element.
TypeOK ==
    /\ hidden \in BOOLEAN
    /\ started \subseteq Handles
    /\ timers \subseteq started /\ spinning \subseteq started
    /\ stopped \subseteq started

\* A stop() that comes before the 100 ms timer keeps the element hidden
\* for good: the element is visible only while some spinner is spinning
\* whose handle has not been stopped.
VisibleOnlyWhileLoading ==
    ~hidden => \E h \in spinning : h \notin stopped

=============================================================================
