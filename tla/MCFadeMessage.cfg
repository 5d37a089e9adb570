\* One tick is 100 ms: a 1500 ms delay, a 1000 ms fade, a 400 ms fade-in.
CONSTANTS
    Delay = 15
    FadeDuration = 10
    AnimateDuration = 4
    MaxTriggers = 3
SPECIFICATION Spec
INVARIANT TypeOK FadeTimedFromLastTrigger
PROPERTY ShownMessageSpec
\* Once the user stops clicking and the message has faded, nothing is
\* scheduled and the page is idle.
CHECK_DEADLOCK FALSE
