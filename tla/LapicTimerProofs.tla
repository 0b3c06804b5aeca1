--------------------------- MODULE LapicTimerProofs ---------------------------
(***************************************************************************)
(* Proofs about LapicTimer, for any set of timeouts.                       *)
(***************************************************************************)
EXTENDS LapicTimer, TLAPS

\* Every step keeps the variables within their types.
LEMMA NextType ==
    ASSUME TypeOK, ServiceInv, [Next]_vars
    PROVE  TypeOK'
<1> USE TicksAssumption DEF TypeOK, ServiceInv, Pcs, HandlerPcs
<1>1. CASE UNCHANGED vars
  BY <1>1 DEF vars, hwVars
<1>2. CASE CountDown
  <2>1. requested' \in BOOLEAN
    BY <1>2, Zenon DEF CountDown
  <2>2. counter' \in Nat
    BY <1>2 DEF CountDown
  <2>3. QED
    BY <1>2, <2>1, <2>2 DEF CountDown
<1>3. CASE \E flag \in BOOLEAN : SetCritical(flag)
  BY <1>3 DEF SetCritical, hwVars
<1>4. CASE \E t \in Ticks : SetTimeout(t)
  BY <1>4 DEF SetTimeout, hwVars
<1>5. CASE ClearTimeout
  BY <1>5 DEF ClearTimeout, hwVars
<1>6. CASE Unmask
  BY <1>6 DEF Unmask, hwVars
<1>7. CASE StartCount
  BY <1>7 DEF StartCount, hwVars
<1>8. CASE NotExpected
  BY <1>8 DEF NotExpected, hwVars, Return
<1>9. CASE Expected
  BY <1>9 DEF Expected, hwVars, IsTimerRunning
<1>10. CASE EoiRunning
  BY <1>10 DEF EoiRunning, hwVars
<1>11. CASE EoiStopped
  BY <1>11 DEF EoiStopped, hwVars
<1>12. CASE Check
  BY <1>12 DEF Check, hwVars, Return
<1>13. CASE Call
  BY <1>13 DEF Call, hwVars
<1>14. CASE TakeInterrupt
  BY <1>14 DEF TakeInterrupt, hwVars
<1>15. QED
  BY <1>1, <1>2, <1>3, <1>4, <1>5, <1>6, <1>7, <1>8,
     <1>9, <1>10, <1>11, <1>12, <1>13, <1>14
     DEF Next, Caller, Proceed

\* Every step keeps the vector in service exactly until SendEoi.
LEMMA NextService ==
    ASSUME TypeOK, ServiceInv, [Next]_vars
    PROVE  ServiceInv'
<1> USE TicksAssumption DEF TypeOK, ServiceInv, Pcs, HandlerPcs
<1>1. CASE UNCHANGED vars
  BY <1>1 DEF vars, hwVars
<1>2. CASE CountDown
  BY <1>2 DEF CountDown, hwVars
<1>3. CASE \E flag \in BOOLEAN : SetCritical(flag)
  BY <1>3 DEF SetCritical, hwVars
<1>4. CASE \E t \in Ticks : SetTimeout(t)
  BY <1>4 DEF SetTimeout, hwVars
<1>5. CASE ClearTimeout
  BY <1>5 DEF ClearTimeout, hwVars
<1>6. CASE Unmask
  BY <1>6 DEF Unmask, hwVars
<1>7. CASE StartCount
  BY <1>7 DEF StartCount, hwVars
<1>8. CASE NotExpected
  BY <1>8 DEF NotExpected, hwVars, Return
<1>9. CASE Expected
  BY <1>9 DEF Expected, hwVars, IsTimerRunning
<1>10. CASE EoiRunning
  BY <1>10 DEF EoiRunning, hwVars
<1>11. CASE EoiStopped
  BY <1>11 DEF EoiStopped, hwVars
<1>12. CASE Check
  BY <1>12 DEF Check, hwVars, Return
<1>13. CASE Call
  BY <1>13 DEF Call, hwVars
<1>14. CASE TakeInterrupt
  BY <1>14 DEF TakeInterrupt, hwVars
<1>15. QED
  BY <1>1, <1>2, <1>3, <1>4, <1>5, <1>6, <1>7, <1>8,
     <1>9, <1>10, <1>11, <1>12, <1>13, <1>14
     DEF Next, Caller, Proceed

\* Every step keeps an interrupt ahead of an expected timeout.
LEMMA NextLost ==
    ASSUME TypeOK, ServiceInv, NoTimeoutLost, [Next]_vars
    PROVE  NoTimeoutLost'
<1> USE TicksAssumption DEF TypeOK, ServiceInv, NoTimeoutLost, HandlerPcs
<1>1. CASE UNCHANGED vars
  BY <1>1 DEF vars, hwVars
<1>2. CASE CountDown
  <2>1. CASE counter = 1 /\ ~masked
    BY <1>2, <2>1 DEF CountDown
  <2>2. CASE ~(counter = 1 /\ ~masked)
    <3>1. requested' = requested /\ masked' = masked /\ expecting' = expecting
          /\ pc' = pc
      BY <1>2, <2>2 DEF CountDown
    <3>2. ~masked => counter' > 0
      BY <1>2, <2>2 DEF CountDown
    <3>3. QED
      BY <3>1, <3>2
  <2>3. QED
    BY <2>1, <2>2
<1>3. CASE \E flag \in BOOLEAN : SetCritical(flag)
  BY <1>3 DEF SetCritical, hwVars
<1>4. CASE \E t \in Ticks : SetTimeout(t)
  BY <1>4 DEF SetTimeout, hwVars
<1>5. CASE ClearTimeout
  BY <1>5 DEF ClearTimeout, hwVars
<1>6. CASE Unmask
  BY <1>6 DEF Unmask, hwVars
<1>7. CASE StartCount
  BY <1>7 DEF StartCount, hwVars
<1>8. CASE NotExpected
  BY <1>8 DEF NotExpected, hwVars, Return
<1>9. CASE Expected
  BY <1>9 DEF Expected, hwVars, IsTimerRunning
<1>10. CASE EoiRunning
  BY <1>10 DEF EoiRunning, hwVars
<1>11. CASE EoiStopped
  BY <1>11 DEF EoiStopped, hwVars
<1>12. CASE Check
  BY <1>12 DEF Check, hwVars, Return
<1>13. CASE Call
  BY <1>13 DEF Call, hwVars
<1>14. CASE TakeInterrupt
  BY <1>14 DEF TakeInterrupt, hwVars
<1>15. QED
  BY <1>1, <1>2, <1>3, <1>4, <1>5, <1>6, <1>7, <1>8,
     <1>9, <1>10, <1>11, <1>12, <1>13, <1>14
     DEF Next, Caller, Proceed

\* The inductive invariant of the timer.
THEOREM Invariance == Spec => []IInv
<1>1. Init => IInv
  <2>1. Init => TypeOK
    <3>1. Init => pc \in Pcs /\ want \in Ticks \union {0} /\ counter \in Nat
      BY DEF Init, Pcs
    <3>2. Init => /\ crit \in BOOLEAN /\ masked \in BOOLEAN
                  /\ requested \in BOOLEAN /\ inService \in BOOLEAN
                  /\ expecting \in BOOLEAN
      BY Zenon DEF Init
    <3>3. QED
      BY <3>1, <3>2 DEF TypeOK
  <2>2. Init => ServiceInv
    <3>1. Init => ~inService /\ pc = "run" /\ want = 0
      BY DEF Init
    <3>2. QED
      BY <3>1 DEF ServiceInv
  <2>3. Init => NoTimeoutLost
    BY DEF Init, NoTimeoutLost
  <2>4. QED
    BY <2>1, <2>2, <2>3 DEF IInv
<1>2. IInv /\ [Next]_vars => IInv'
  BY NextType, NextService, NextLost DEF IInv
<1>3. QED
  BY <1>1, <1>2, PTL DEF Spec

\* No order of SetTimeout, ClearTimeout, expiry and stale interrupts leaves an
\* expected timeout without an interrupt.
THEOREM TimeoutsAreKept == Spec => []NoTimeoutLost
<1>1. IInv => NoTimeoutLost
  BY DEF IInv
<1>2. QED
  BY <1>1, Invariance, PTL
=============================================================================
