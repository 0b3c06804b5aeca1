------------------------------ MODULE LapicTimer ------------------------------
(***************************************************************************)
(* LapicTimer (arch/x64/timer/lapic-timer.cpp) and the registers of the    *)
(* local APIC it drives (arch/x64/interrupts/apic/lapic.cpp), for the one  *)
(* CPU that owns both.                                                     *)
(*                                                                         *)
(* The APIC counts down on its own and, unless the timer is masked,        *)
(* requests its vector on reaching zero.  A request outlives a reset or a  *)
(* cancellation of the timer, which is what makes the handler delicate.    *)
(* The callback runs in a critical section and may set the next timeout.   *)
(***************************************************************************)
EXTENDS Integers

CONSTANT Ticks   \* the timeouts callers ask for

\* A count of zero would stop the timer of the APIC instead of starting it.
ASSUME TicksAssumption == Ticks \subseteq Nat \ {0}

VARIABLES
    pc,         \* what the CPU does next
    crit,       \* it is in a critical section (interrupts are off)
    want,       \* the ticks SetTimeout was called with
    masked,     \* bit 16 of RegLvtTimer
    counter,    \* RegTimerCurrCount
    requested,  \* IsRequested(IntVectors::LapicTimer)
    inService,  \* IsInService(IntVectors::LapicTimer)
    expecting   \* isExpecting

hwVars == <<masked, counter, requested, inService>>
vars == <<pc, crit, want, masked, counter, requested, inService, expecting>>

HandlerPcs == {"test", "eoiRunning", "eoiStopped", "check", "call"}

Pcs == {"run", "lvt", "count"} \union HandlerPcs

\* SetDefaults() leaves the timer masked.
Init ==
    /\ pc = "run"
    /\ crit = FALSE
    /\ want = 0
    /\ masked = TRUE
    /\ counter = 0
    /\ requested = FALSE
    /\ inService = FALSE
    /\ expecting = FALSE

\* One tick of the APIC.
CountDown ==
    /\ counter > 0
    /\ counter' = counter - 1
    /\ requested' = IF counter = 1 /\ ~masked THEN TRUE ELSE requested
    /\ UNCHANGED <<pc, crit, want, masked, inService, expecting>>

\* Callers enter and leave critical sections; WaitTimeout leaves one, and so
\* does the return from the interrupt after a callback.
SetCritical(flag) ==
    /\ pc = "run"
    /\ crit' = flag
    /\ UNCHANGED <<pc, want, hwVars, expecting>>

-----------------------------------------------------------------------------
(* The calls, in critical sections: the interrupt is not taken between     *)
(* their steps, but the counter goes on.                                   *)

SetTimeout(ticks) ==
    /\ pc = "run"
    /\ crit
    /\ want' = ticks
    /\ pc' = "lvt"
    /\ UNCHANGED <<crit, hwVars, expecting>>

\* Mutant: the mask that ClearTimeout has set stays.
KeepMask ==
    /\ pc = "lvt"
    /\ pc' = "count"
    /\ UNCHANGED <<crit, want, hwVars, expecting>>

\* RegLvtTimer is written first: an old count may run out now.
Unmask ==
    /\ pc = "lvt"
    /\ masked' = FALSE
    /\ pc' = "count"
    /\ UNCHANGED <<crit, want, counter, requested, inService, expecting>>

\* RegTimerInitCount, then isExpecting and the callback.
StartCount ==
    /\ pc = "count"
    /\ counter' = want
    /\ expecting' = TRUE
    /\ want' = 0
    /\ pc' = "run"
    /\ UNCHANGED <<crit, masked, requested, inService>>

\* The timer is masked; the counter goes on and a request stays.
ClearTimeout ==
    /\ pc = "run"
    /\ crit
    /\ masked' = TRUE
    /\ expecting' = FALSE
    /\ UNCHANGED <<pc, crit, want, counter, requested, inService>>

-----------------------------------------------------------------------------
(* GeneralTimerCallback.                                                   *)

TakeInterrupt ==
    /\ pc = "run"
    /\ ~crit
    /\ requested
    /\ ~inService
    /\ requested' = FALSE
    /\ inService' = TRUE
    /\ crit' = TRUE
    /\ pc' = "test"
    /\ UNCHANGED <<want, masked, counter, expecting>>

\* The handler returns, and the interrupt with it.
Return == pc' = "run" /\ crit' = FALSE

IsTimerRunning == ~masked /\ counter # 0

\* Mutant: no SendEoi() for an interrupt nobody expects.
NotExpectedNoEoi ==
    /\ pc = "test"
    /\ ~expecting
    /\ Return
    /\ UNCHANGED <<want, hwVars, expecting>>

NotExpected ==
    /\ pc = "test"
    /\ ~expecting
    /\ inService' = FALSE
    /\ Return
    /\ UNCHANGED <<want, masked, counter, requested, expecting>>

Expected ==
    /\ pc = "test"
    /\ expecting
    /\ pc' = IF IsTimerRunning THEN "eoiRunning" ELSE "eoiStopped"
    /\ UNCHANGED <<crit, want, hwVars, expecting>>

EoiRunning ==
    /\ pc = "eoiRunning"
    /\ inService' = FALSE
    /\ pc' = "check"
    /\ UNCHANGED <<crit, want, masked, counter, requested, expecting>>

EoiStopped ==
    /\ pc = "eoiStopped"
    /\ inService' = FALSE
    /\ pc' = "call"
    /\ UNCHANGED <<crit, want, masked, counter, requested, expecting>>

\* The timer is running: return if its own interrupt is already there.
Check ==
    /\ pc = "check"
    /\ IF inService \/ requested THEN Return ELSE pc' = "call" /\ crit' = crit
    /\ UNCHANGED <<want, hwVars, expecting>>

\* isExpecting = false, and on to the callback.
Call ==
    /\ pc = "call"
    /\ expecting' = FALSE
    /\ pc' = "run"
    /\ UNCHANGED <<crit, want, hwVars>>

-----------------------------------------------------------------------------

\* Callbacks and other code of the kernel.
Caller ==
    \/ \E flag \in BOOLEAN : SetCritical(flag)
    \/ \E t \in Ticks : SetTimeout(t)
    \/ ClearTimeout

\* The steps of a call that has been made.
Proceed ==
    Unmask \/ StartCount \/ NotExpected \/ Expected \/ EoiRunning \/ EoiStopped
           \/ Check \/ Call

Next == CountDown \/ Caller \/ Proceed \/ TakeInterrupt

Spec == Init /\ [][Next]_vars

\* The APIC counts, calls go on to their end, critical sections end, and an
\* interrupt that is requested is taken if interrupts are on again and again.
FairSpec ==
    /\ Spec
    /\ WF_vars(CountDown)
    /\ WF_vars(Proceed)
    /\ SF_vars(SetCritical(FALSE))
    /\ SF_vars(TakeInterrupt)

-----------------------------------------------------------------------------

\* Every variable keeps to its type.
TypeOK ==
    /\ pc \in Pcs
    /\ crit \in BOOLEAN
    /\ want \in Ticks \union {0}
    /\ masked \in BOOLEAN
    /\ counter \in Nat
    /\ requested \in BOOLEAN
    /\ inService \in BOOLEAN
    /\ expecting \in BOOLEAN

\* A timeout that somebody expects has its interrupt ahead of it: the counter
\* runs unmasked, the vector is requested, or the handler is on its way to the
\* callback.  Neither a stale interrupt nor a reset nor a handler that returns
\* early leaves a timeout behind that never fires.
NoTimeoutLost ==
    expecting => \/ ~masked /\ counter > 0
                 \/ requested
                 \/ pc \in HandlerPcs

\* A timeout fires, unless it is cancelled or set again.
TimeoutFires == expecting ~> (~expecting \/ pc = "lvt")

\* The comment in GeneralTimerCallback: "prevent race conditions with a reset".
\* The callback of a timeout that was set again does not run while the timer
\* is still counting.
NotBeforeTimeout == pc = "call" => counter = 0

-----------------------------------------------------------------------------
(* The inductive invariant behind NoTimeoutLost.                           *)

\* The handler runs in a critical section, and the vector is in service until
\* SendEoi.
ServiceInv ==
    /\ pc # "run" => crit
    /\ inService <=> pc \in {"test", "eoiRunning", "eoiStopped"}
    /\ pc = "count" => ~masked
    /\ pc \in {"lvt", "count"} <=> want # 0

IInv == TypeOK /\ ServiceInv /\ NoTimeoutLost
=============================================================================
