--------------------------- MODULE SpinnerProofs ---------------------------
(***************************************************************************)
(* Proof that, for any number of showSpinner calls on one element, the    *)
(* element is visible only while a spinner whose handle has not been      *)
(* stopped is spinning.                                                    *)
(***************************************************************************)
EXTENDS Spinner, TLAPS

\* The inductive invariant: a stopped handle has neither a pending timer,
\* which stop() cleared, nor a spinning spinner.
IInv ==
    /\ TypeOK
    /\ timers \cap stopped = {}
    /\ spinning \cap stopped = {}
    /\ VisibleOnlyWhileLoading

LEMMA InitIInv == Init => IInv
BY DEF Init, IInv, TypeOK, VisibleOnlyWhileLoading

LEMMA NextIInv == IInv /\ [Next]_vars => IInv'
<1> SUFFICES ASSUME IInv, [Next]_vars PROVE IInv'
  OBVIOUS
<1>1. ASSUME NEW h \in Handles, showSpinner(h) PROVE IInv'
  <2>1. h \notin stopped
    BY <1>1 DEF showSpinner, IInv, TypeOK
  <2>2. QED
    BY <1>1, <2>1 DEF showSpinner, IInv, TypeOK, VisibleOnlyWhileLoading
<1>2. ASSUME NEW h \in Handles, timerFires(h) PROVE IInv'
  <2>1. h \notin stopped /\ h \in spinning'
    BY <1>2 DEF timerFires, IInv
  <2>2. VisibleOnlyWhileLoading'
    BY <1>2, <2>1 DEF timerFires, VisibleOnlyWhileLoading
  <2>3. QED
    BY <1>2, <2>2 DEF timerFires, IInv, TypeOK
<1>3. ASSUME NEW h \in Handles, stop(h) PROVE IInv'
  BY <1>3 DEF stop, IInv, TypeOK, VisibleOnlyWhileLoading
<1>4. CASE UNCHANGED vars
  BY <1>4 DEF vars, IInv, TypeOK, VisibleOnlyWhileLoading
<1>5. QED
  BY <1>1, <1>2, <1>3, <1>4 DEF Next

\* stop() before the 100 ms timer keeps the element hidden: it is visible
\* only while some spinner that has not been stopped spins, for any number
\* of calls.
THEOREM SpinnerHiddenWhenIdle == Spec => []VisibleOnlyWhileLoading
<1>1. IInv => VisibleOnlyWhileLoading
  BY DEF IInv
<1>2. QED
  BY InitIInv, NextIInv, <1>1, PTL DEF Spec

=============================================================================
