------------------------- MODULE FadeMessageProofs -------------------------
(***************************************************************************)
(* Proofs that the fade-message model is well typed and that its fade is  *)
(* timed from the last click, for every delay, fade and fade-in duration  *)
(* with AnimateDuration < Delay, and every bound on clicks.               *)
(***************************************************************************)
EXTENDS FadeMessage, TLAPS

Cycle == Delay + FadeDuration

\* The phases of the element after a click at lastTrigger: the fade timer
\* is pending (the fade-in running or over), the fade-out is running, or
\* the element is hidden again.
Waiting ==
    /\ timers = {lastTrigger + Delay} /\ ~hidden
    /\ now <= lastTrigger + Delay
    /\ \/ fx = <<>> /\ fxEnd = 0
       \/ fx = <<"in">> /\ fxEnd = lastTrigger + AnimateDuration /\ now <= fxEnd
Fading ==
    /\ timers = {} /\ ~hidden
    /\ fx = <<"out">> /\ fxEnd = lastTrigger + Cycle
    /\ lastTrigger + Delay <= now
Faded ==
    /\ timers = {} /\ hidden
    /\ fx = <<>> /\ fxEnd = 0
    /\ now = lastTrigger + Cycle

\* The inductive invariant.
IInv ==
    /\ now \in Nat /\ lastTrigger \in Nat /\ triggers \in 0..MaxTriggers
    /\ hidden \in BOOLEAN
    /\ triggers = 0 =>
         now = 0 /\ hidden /\ timers = {} /\ fx = <<>> /\ fxEnd = 0 /\ lastTrigger = 0
    /\ triggers > 0 =>
         /\ lastTrigger + Cycle <= triggers * Cycle
         /\ lastTrigger <= now /\ now <= lastTrigger + Cycle
         /\ Waiting \/ Fading \/ Faded

USE FadeAssumption

\* The fx queues the element can have, as sequences.
LEMMA SeqFacts ==
    /\ Tail(<<"in">>) = <<>> /\ Tail(<<"out">>) = <<>>
    /\ Head(<<"in">>) = "in" /\ Head(<<"out">>) = "out"
    /\ <<>> \in Seq({"in", "out"}) /\ <<"in">> \in Seq({"in", "out"})
    /\ <<"out">> \in Seq({"in", "out"})
    /\ Len(<<>>) = 0 /\ Len(<<"in">>) = 1 /\ Len(<<"out">>) = 1
    /\ <<"in">> # <<>> /\ <<"out">> # <<>> /\ <<"in">> # <<"out">>
OBVIOUS

LEMMA InitIInv == Init => IInv
BY DEF Init, IInv

\* A click from any phase starts the fade-in and a new timer.
LEMMA ClickIInv == IInv /\ showAndFadeMessage => IInv'
<1> SUFFICES ASSUME IInv, showAndFadeMessage PROVE IInv'
  OBVIOUS
<1>0. now \in Nat /\ lastTrigger \in Nat /\ triggers \in 0..MaxTriggers
  BY DEF IInv
<1>1. fx = <<>> \/ fx = <<"in">> \/ fx = <<"out">>
  BY DEF IInv, Waiting, Fading, Faded
<1>2. (IF fx = <<>> THEN <<>> ELSE Tail(fx)) = <<>>
  BY <1>1, SeqFacts
<1>3. fx' = <<"in">> /\ fxEnd' = now + AnimateDuration
  BY <1>2, SeqFacts DEF showAndFadeMessage, StartQueue, Dur
<1>4. timers' = {now + Delay} /\ ~hidden' /\ lastTrigger' = now
      /\ triggers' = triggers + 1 /\ now' = now
  BY DEF showAndFadeMessage
<1>5. now + Cycle <= (triggers + 1) * Cycle
  <2>1. CASE triggers = 0
    BY <2>1 DEF IInv, Cycle
  <2>2. CASE triggers > 0
    BY <2>2 DEF IInv, Cycle
  <2>3. QED
    BY <2>1, <2>2 DEF IInv
<1>6. triggers + 1 \in 0..MaxTriggers
  BY DEF showAndFadeMessage, IInv
<1>7. Waiting'
  BY <1>0, <1>3, <1>4 DEF Waiting
<1>8. hidden' = FALSE
  BY DEF showAndFadeMessage
<1>9. /\ now' \in Nat /\ lastTrigger' \in Nat /\ triggers' \in 0..MaxTriggers
      /\ triggers' # 0 /\ triggers' > 0
  BY <1>0, <1>4, <1>6
<1>10. /\ lastTrigger' + Cycle <= triggers' * Cycle
       /\ lastTrigger' <= now' /\ now' <= lastTrigger' + Cycle
  BY <1>0, <1>4, <1>5 DEF Cycle
<1>11. QED
  BY <1>7, <1>8, <1>9, <1>10 DEF IInv

\* The fade timer fires only while the element waits, after the fade-in.
LEMMA TimerIInv == IInv /\ fadeOutTimer => IInv'
<1> SUFFICES ASSUME IInv, fadeOutTimer PROVE IInv'
  OBVIOUS
<1>0. now \in Nat /\ lastTrigger \in Nat /\ triggers \in 0..MaxTriggers
  BY DEF IInv
<1>1. triggers > 0 /\ Waiting /\ now = lastTrigger + Delay
  BY DEF IInv, fadeOutTimer, Waiting, Fading, Faded
<1>2. fx = <<>>
  BY <1>0, <1>1 DEF Waiting
<1>3. fx' = <<"out">> /\ fxEnd' = now + FadeDuration /\ timers' = {}
  BY <1>1, <1>2, SeqFacts DEF fadeOutTimer, StartQueue, Dur, Waiting
<1>4. UNCHANGED <<now, hidden, lastTrigger, triggers>>
  BY DEF fadeOutTimer
<1>5. Fading'
  BY <1>0, <1>1, <1>3, <1>4 DEF Fading, Waiting, Cycle
<1>6. QED
  BY <1>1, <1>4, <1>5 DEF IInv

\* The fade-in ends while waiting; the fade-out ends the fading phase.
LEMMA EndIInv == IInv /\ animationEnds => IInv'
<1> SUFFICES ASSUME IInv, animationEnds PROVE IInv'
  OBVIOUS
<1>0. now \in Nat /\ lastTrigger \in Nat /\ triggers \in 0..MaxTriggers
  BY DEF IInv
<1>1. triggers > 0
  BY DEF IInv, animationEnds
<1>2. UNCHANGED <<now, timers, lastTrigger, triggers>>
  BY DEF animationEnds
<1>3. CASE Waiting
  <2>1. fx = <<"in">>
    BY <1>0, <1>3, SeqFacts DEF Waiting, animationEnds
  <2>2. fx' = <<>> /\ fxEnd' = 0 /\ ~hidden'
    BY <1>3, <2>1, SeqFacts DEF animationEnds, StartQueue, Waiting
  <2>3. Waiting'
    BY <1>2, <1>3, <2>2 DEF Waiting
  <2>4. hidden' = FALSE
    BY <2>2
  <2>5. /\ lastTrigger' + Cycle <= triggers' * Cycle
        /\ lastTrigger' <= now' /\ now' <= lastTrigger' + Cycle
    BY <1>1, <1>2 DEF IInv
  <2>6. /\ now' \in Nat /\ lastTrigger' \in Nat /\ triggers' \in 0..MaxTriggers
        /\ triggers' # 0 /\ triggers' > 0
    BY <1>0, <1>1, <1>2
  <2>7. QED
    BY <2>3, <2>4, <2>5, <2>6 DEF IInv
<1>4. CASE Fading
  <2>1. fx' = <<>> /\ fxEnd' = 0 /\ hidden'
    BY <1>4, SeqFacts DEF Fading, animationEnds, StartQueue
  <2>2. Faded'
    BY <1>2, <1>4, <2>1 DEF Faded, Fading, animationEnds
  <2>3. hidden' = TRUE
    BY <2>1
  <2>4. QED
    BY <1>1, <1>2, <2>2, <2>3 DEF IInv
<1>5. CASE Faded
  BY <1>5, SeqFacts DEF Faded, animationEnds
<1>6. QED
  BY <1>1, <1>3, <1>4, <1>5 DEF IInv

\* Time passes only up to the next due timer or animation end.
LEMMA TickIInv == IInv /\ Tick => IInv'
<1> SUFFICES ASSUME IInv, Tick PROVE IInv'
  OBVIOUS
<1>0. now \in Nat /\ lastTrigger \in Nat /\ triggers \in 0..MaxTriggers
  BY DEF IInv
<1>1. triggers > 0
  BY DEF IInv, Tick
<1>2. now' = now + 1 /\ UNCHANGED <<hidden, timers, fx, fxEnd, lastTrigger, triggers>>
  BY DEF Tick
<1>3. CASE Waiting
  <2>1. now # lastTrigger + Delay
    BY <1>3 DEF Tick, Waiting
  <2>2. fx = <<"in">> => now # fxEnd
    BY DEF Tick
  <2>3. Waiting'
    BY <1>0, <1>2, <1>3, <2>1, <2>2, SeqFacts DEF Waiting
  <2>4. QED
    BY <1>1, <1>2, <1>3, <2>3 DEF IInv, Waiting, Cycle
<1>4. CASE Fading
  <2>1. now # fxEnd
    BY <1>4 DEF Tick, Fading
  <2>2. Fading'
    BY <1>0, <1>2, <1>4, <2>1 DEF Fading
  <2>3. QED
    BY <1>1, <1>2, <1>4, <2>1, <2>2 DEF IInv, Fading, Cycle
<1>5. CASE Faded
  BY <1>5 DEF Faded, Tick
<1>6. QED
  BY <1>1, <1>3, <1>4, <1>5 DEF IInv

LEMMA NextIInv == IInv /\ [Next]_vars => IInv'
<1> SUFFICES ASSUME IInv, [Next]_vars PROVE IInv'
  OBVIOUS
<1>1. CASE UNCHANGED vars
  BY <1>1 DEF IInv, vars, Waiting, Fading, Faded, Cycle
<1>2. QED
  BY <1>1, ClickIInv, TimerIInv, EndIInv, TickIInv DEF Next

\* The invariant bounds every clock value by the horizon.
LEMMA IInvTypeOK == IInv => TypeOK
<1> SUFFICES ASSUME IInv PROVE TypeOK
  OBVIOUS
<1>1. CASE triggers = 0
  BY <1>1, SeqFacts DEF IInv, TypeOK, Horizon
<1>2. CASE triggers > 0
  <2>0. Cycle \in Nat /\ Horizon \in Nat /\ triggers \in 0..MaxTriggers
        /\ lastTrigger \in Nat /\ lastTrigger + Cycle <= triggers * Cycle
    BY <1>2 DEF IInv, Cycle, Horizon
  <2>1. triggers * Cycle <= MaxTriggers * Cycle
    <3>1. (MaxTriggers - triggers) * Cycle \in Nat
      BY <2>0
    <3>2. MaxTriggers * Cycle = triggers * Cycle + (MaxTriggers - triggers) * Cycle
      BY <2>0
    <3>3. QED
      BY <2>0, <3>1, <3>2
  <2>2. MaxTriggers * Cycle <= Horizon
    <3>1. MaxTriggers * AnimateDuration \in Nat
      OBVIOUS
    <3>2. Horizon = MaxTriggers * Cycle + MaxTriggers * AnimateDuration
      BY DEF Horizon, Cycle
    <3>3. QED
      BY <2>0, <3>1, <3>2
  <2>3. lastTrigger + Cycle <= Horizon
    BY <2>0, <2>1, <2>2
  <2>4. now \in 0..Horizon /\ lastTrigger \in 0..Horizon
    BY <1>2, <2>0, <2>3 DEF IInv
  <2>7. hidden \in BOOLEAN
    BY DEF IInv
  <2>5. timers \subseteq 0..Horizon /\ fxEnd \in 0..Horizon
        /\ fx \in Seq({"in", "out"}) /\ Len(fx) <= 1
    <3>1. CASE Waiting
      <4>1. timers \subseteq 0..Horizon
        BY <2>0, <2>3, <3>1 DEF Waiting, Cycle
      <4>2. CASE fx = <<>> /\ fxEnd = 0
        BY <2>0, <4>1, <4>2, SeqFacts
      <4>3. CASE fx = <<"in">> /\ fxEnd = lastTrigger + AnimateDuration
        BY <2>0, <2>3, <4>1, <4>3, SeqFacts DEF Cycle
      <4>4. QED
        BY <3>1, <4>2, <4>3 DEF Waiting
    <3>2. CASE Fading
      BY <2>0, <2>3, <3>2, SeqFacts DEF Fading
    <3>3. CASE Faded
      BY <2>0, <2>3, <3>3, SeqFacts DEF Faded
    <3>4. QED
      BY <1>2, <3>1, <3>2, <3>3 DEF IInv
  <2>6. QED
    BY <2>0, <2>4, <2>5, <2>7 DEF TypeOK
<1>3. QED
  BY <1>1, <1>2 DEF IInv

\* showAndFadeMessage and fadeOut keep the element's state well typed,
\* with at most one animation in its fx queue.
THEOREM FadeTypeCorrect == Spec => []TypeOK
BY InitIInv, NextIInv, IInvTypeOK, PTL DEF Spec

\* Spec 8 for every duration: after the last click the message stays for
\* the delay plus the fade, and is hidden as soon as they have elapsed.
THEOREM FadeTimed == Spec => []FadeTimedFromLastTrigger
<1>1. IInv => FadeTimedFromLastTrigger
  BY DEF IInv, FadeTimedFromLastTrigger, Waiting, Fading, Faded, Cycle
<1>2. QED
  BY InitIInv, NextIInv, <1>1, PTL DEF Spec

-----------------------------------------------------------------------------
(* Refinement of ShownMessage                                              *)

\* The deadline the refinement mapping gives the abstract message.
Deadline == IF triggers = 0 THEN 0 ELSE lastTrigger + Delay + FadeDuration

\* A click is an abstract click.
LEMMA ClickRefines == IInv /\ showAndFadeMessage => Shown!Click
<1> SUFFICES ASSUME IInv, showAndFadeMessage PROVE Shown!Click
  OBVIOUS
<1>1. triggers' = triggers + 1 /\ triggers' # 0 /\ lastTrigger' = now /\ now' = now
      /\ triggers < MaxTriggers
  BY DEF showAndFadeMessage, IInv
<1>2. (~hidden)' = TRUE
  BY DEF showAndFadeMessage
<1>3. Deadline' = now + (Delay + FadeDuration)
  BY <1>1 DEF Deadline, IInv
<1>4. QED
  BY <1>1, <1>2, <1>3 DEF Shown!Click, Deadline

\* The end of the fade-out is the abstract expiry; the end of the fade-in
\* changes nothing the abstract message sees.
LEMMA EndRefines ==
    IInv /\ animationEnds =>
        Shown!Expire \/ UNCHANGED <<now, hidden, Deadline, triggers>>
<1> SUFFICES ASSUME IInv, animationEnds
             PROVE  Shown!Expire \/ UNCHANGED <<now, hidden, Deadline, triggers>>
  OBVIOUS
<1>0. now \in Nat /\ lastTrigger \in Nat /\ triggers \in 0..MaxTriggers /\ triggers > 0
  BY DEF IInv, animationEnds
<1>1. UNCHANGED <<now, timers, lastTrigger, triggers>>
  BY DEF animationEnds
<1>2. UNCHANGED Deadline
  BY <1>1 DEF Deadline
<1>3. CASE Waiting
  <2>1. fx = <<"in">>
    BY <1>0, <1>3, SeqFacts DEF Waiting, animationEnds
  <2>2. ~hidden /\ ~hidden'
    BY <1>3, <2>1, SeqFacts DEF animationEnds, Waiting
  <2>3. hidden \in BOOLEAN /\ hidden' \in BOOLEAN
    BY DEF IInv, animationEnds
  <2>4. hidden' = hidden
    BY <2>2, <2>3
  <2>5. QED
    BY <1>1, <1>2, <2>4
<1>4. CASE Fading
  <2>1. hidden' = TRUE /\ ~hidden
    BY <1>4, SeqFacts DEF Fading, animationEnds
  <2>2. now = Deadline
    BY <1>0, <1>4 DEF Fading, animationEnds, Deadline, Cycle
  <2>3. (~hidden)' = FALSE
    BY <2>1
  <2>4. QED
    BY <1>1, <1>2, <2>1, <2>2, <2>3 DEF Shown!Expire, Deadline
<1>5. CASE Faded
  BY <1>5, SeqFacts DEF Faded, animationEnds
<1>6. QED
  BY <1>0, <1>3, <1>4, <1>5 DEF IInv

\* Time passes only while the message is shown and before its deadline.
LEMMA TickRefines == IInv /\ Tick => Shown!Tick
<1> SUFFICES ASSUME IInv, Tick PROVE Shown!Tick
  OBVIOUS
<1>0. now \in Nat /\ lastTrigger \in Nat /\ triggers \in 0..MaxTriggers /\ triggers > 0
  BY DEF IInv, Tick
<1>1. ~hidden /\ now < lastTrigger + Cycle
  <2>1. CASE Waiting
    BY <1>0, <2>1 DEF Waiting, Cycle
  <2>2. CASE Fading
    BY <1>0, <2>2 DEF Fading, Tick, IInv
  <2>3. CASE Faded
    BY <2>3 DEF Faded, Tick
  <2>4. QED
    BY <1>0, <2>1, <2>2, <2>3 DEF IInv
<1>2. now < Deadline
  BY <1>0, <1>1 DEF Deadline, Cycle
<1>3. QED
  BY <1>1, <1>2 DEF Tick, Shown!Tick, Deadline

\* Spec 8 for every duration: the element implements the abstract message
\* whose lifetime is Delay + FadeDuration from the last click.
THEOREM FadeRefinesShown == Spec => Shown!SafetySpec
<1>1. Init => Shown!Init
  BY DEF Init, Shown!Init
<1>2. IInv /\ [Next]_vars => [Shown!Next]_<<now, ~hidden, Deadline, triggers>>
  <2> SUFFICES ASSUME IInv, [Next]_vars
               PROVE  [Shown!Next]_<<now, ~hidden, Deadline, triggers>>
    OBVIOUS
  <2>1. CASE showAndFadeMessage
    BY <2>1, ClickRefines DEF Shown!Next
  <2>2. CASE fadeOutTimer
    BY <2>2 DEF fadeOutTimer, Deadline
  <2>3. CASE animationEnds
    BY <2>3, EndRefines DEF Shown!Next
  <2>4. CASE Tick
    BY <2>4, TickRefines DEF Shown!Next
  <2>5. CASE UNCHANGED vars
    BY <2>5 DEF vars, Deadline
  <2>6. QED
    BY <2>1, <2>2, <2>3, <2>4, <2>5 DEF Next
<1>3. QED
  BY <1>1, <1>2, InitIInv, NextIInv, PTL DEF Spec, Shown!SafetySpec, Deadline

=============================================================================
