------------------------------ MODULE ModuleInit ------------------------------
(***************************************************************************)
(* The two modules that set up every CPU, on top of the mailboxes of       *)
(* Wakeup: SyscallModule::Initialize (arch/x64/syscall/module.cpp) sends   *)
(* SetCpuRegisters to the other CPUs and spins, in a critical section,     *)
(* until initCount is back at zero; TimerModule::Initialize                *)
(* (arch/x64/timer/module.cpp) sends CalibrateMethod, which measures the   *)
(* LAPIC timer against the clock, and polls until all are calibrated.      *)
(* Both depend on DomainList only: they run one after the other, in either *)
(* order, on the boot CPU, while the others wait in CpuStall.              *)
(*                                                                         *)
(* The clock is the Pit (arch/x64/clock/pit.cpp): it ticks when the boot   *)
(* CPU, to which MapIrq routes the IRQ, takes the interrupt.  A tick is    *)
(* lost if the last one is still pending.  Clock::MicroSleep is modelled   *)
(* by the number of ticks a CPU still has to see.                          *)
(***************************************************************************)
EXTENDS Wakeup, FiniteSets, Sequences

CONSTANTS
    Boot,             \* the CPU that initializes the modules
    SetCpuRegisters,  \* the message of SyscallModule
    Calibrate,        \* the message of TimerModule, CalibrateMethod
    SleepTicks        \* the 500000 microseconds of CalibrateMethod, in ticks

ASSUME BootAssumption == Boot \in Cpus

ASSUME FunctionAssumption ==
    Messages = {SetCpuRegisters, Calibrate} /\ SetCpuRegisters # Calibrate

ASSUME SleepAssumption == SleepTicks \in Nat

ASSUME FiniteAssumption == IsFiniteSet(Cpus)

VARIABLES
    todo,        \* the modules to be initialized, each named by its message
    module,      \* the one whose Initialize was called last
    stage,       \* how far this Initialize has come
    left,        \* CPUs its current loop has not come to yet
    running,     \* running[c]: the functions c runs, the innermost first
    initCount,   \* SyscallModule::initCount
    regs,        \* regs[c]: c's progress in SetCpuRegisters
    body,        \* body[c]: c's progress in CalibrateMethod
    sleep,       \* sleep[c]: ticks until c's MicroSleep returns
    counting,    \* counting[c]: CalibrateMethod uses c's LAPIC timer
    calibrated,  \* calibrated of c's LapicTimer
    irq          \* the Pit vector is requested at the boot CPU

loopVars == <<todo, module, stage, left>>
bodyVars == <<body, sleep, counting, calibrated>>
initVars == <<todo, module, stage, left, running, initCount, regs, body, sleep,
              counting, calibrated, irq>>
allVars == <<vars, initVars>>

InitState ==
    /\ Init
    /\ todo = Messages
    /\ module = NoFunc
    /\ stage = "idle"
    /\ left = {}
    /\ running = [c \in Cpus |-> <<>>]
    /\ initCount = 0
    /\ regs = [c \in Cpus |-> "unset"]
    /\ body = [c \in Cpus |-> "start"]
    /\ sleep = [c \in Cpus |-> 0]
    /\ counting = [c \in Cpus |-> FALSE]
    /\ calibrated = [c \in Cpus |-> FALSE]
    /\ irq = FALSE

\* CPU c runs its own flow of control, in function f.
In(c, f) == pc[c] = "run" /\ running[c] # <<>> /\ Head(running[c]) = f

-----------------------------------------------------------------------------
(* The Pit.                                                                *)

PitPulse ==
    /\ ~irq
    /\ irq' = TRUE
    /\ UNCHANGED <<vars, loopVars, running, initCount, regs, bodyVars>>

\* Pit::InterruptHandler: one more tick for everybody who sleeps.
PitInterrupt ==
    /\ irq
    /\ pc[Boot] = "run"
    /\ ~crit[Boot]
    /\ irq' = FALSE
    /\ sleep' = [c \in Cpus |-> IF sleep[c] > 0 THEN sleep[c] - 1 ELSE 0]
    /\ UNCHANGED <<vars, loopVars, running, initCount, regs, body, counting,
                   calibrated>>

-----------------------------------------------------------------------------
(* SyscallModule::SetCpuRegisters.                                         *)

\* --initCount comes before the registers are written.
CountDown(c) ==
    /\ In(c, SetCpuRegisters)
    /\ regs[c] = "unset"
    /\ initCount' = initCount - 1
    /\ regs' = [regs EXCEPT ![c] = "counted"]
    /\ UNCHANGED <<vars, loopVars, running, bodyVars, irq>>

WriteMsrs(c) ==
    /\ In(c, SetCpuRegisters)
    /\ regs[c] = "counted"
    /\ regs' = [regs EXCEPT ![c] = "set"]
    /\ UNCHANGED <<vars, loopVars, running, initCount, bodyVars, irq>>

-----------------------------------------------------------------------------
(* TimerModule::CalibrateMethod.                                           *)

\* Mutant: the CPU is marked as calibrated before it sleeps.
MarkBeforeSleep(c) ==
    /\ In(c, Calibrate)
    /\ body[c] = "start"
    /\ counting' = [counting EXCEPT ![c] = TRUE]
    /\ calibrated' = [calibrated EXCEPT ![c] = TRUE]
    /\ SetCritical(c, FALSE)
    /\ sleep' = [sleep EXCEPT ![c] = SleepTicks]
    /\ body' = [body EXCEPT ![c] = "asleep"]
    /\ UNCHANGED <<loopVars, running, initCount, regs, irq>>

\* The timer is started, the critical section left, and MicroSleep called.
StartCount(c) ==
    /\ In(c, Calibrate)
    /\ body[c] = "start"
    /\ counting' = [counting EXCEPT ![c] = TRUE]
    /\ SetCritical(c, FALSE)
    /\ sleep' = [sleep EXCEPT ![c] = SleepTicks]
    /\ body' = [body EXCEPT ![c] = "asleep"]
    /\ UNCHANGED <<loopVars, running, initCount, regs, calibrated, irq>>

Awake(c) ==
    /\ In(c, Calibrate)
    /\ body[c] = "asleep"
    /\ sleep[c] = 0
    /\ SetCritical(c, TRUE)
    /\ body' = [body EXCEPT ![c] = "stop"]
    /\ UNCHANGED <<loopVars, running, initCount, regs, sleep, counting, calibrated,
                   irq>>

\* Mutant: the CPU is marked as calibrated before its timer is stopped.
StopAfterMark(c) ==
    /\ In(c, Calibrate)
    /\ body[c] = "stop"
    /\ calibrated' = [calibrated EXCEPT ![c] = TRUE]
    /\ body' = [body EXCEPT ![c] = "mark"]
    /\ UNCHANGED <<vars, loopVars, running, initCount, regs, sleep, counting, irq>>

\* lapic.ClearTimeout().
StopCount(c) ==
    /\ In(c, Calibrate)
    /\ body[c] = "stop"
    /\ counting' = [counting EXCEPT ![c] = FALSE]
    /\ body' = [body EXCEPT ![c] = "mark"]
    /\ UNCHANGED <<vars, loopVars, running, initCount, regs, sleep, calibrated, irq>>

Mark(c) ==
    /\ In(c, Calibrate)
    /\ body[c] = "mark"
    /\ calibrated' = [calibrated EXCEPT ![c] = TRUE]
    /\ body' = [body EXCEPT ![c] = "done"]
    /\ UNCHANGED <<vars, loopVars, running, initCount, regs, sleep, counting, irq>>

-----------------------------------------------------------------------------
(* What both Initialize methods do: enter a critical section, send the     *)
(* function to the other CPUs and call it.                                 *)

\* The function f has come to its end on c.
Ended(c, f) ==
    /\ In(c, f)
    /\ IF f = SetCpuRegisters THEN regs[c] = "set" ELSE body[c] = "done"

Enter(m) ==
    /\ stage = "idle"
    /\ SetCritical(Boot, TRUE)
    /\ module' = m
    /\ left' = Cpus \ {Boot}
    /\ stage' = "post"
    /\ UNCHANGED <<todo, running, initCount, regs, bodyVars, irq>>

Post(d) ==
    /\ stage = "post"
    /\ RunAsync(Boot, d, module)
    /\ left' = left \ {d}
    /\ stage' = IF module = SetCpuRegisters THEN "count" ELSE "post"
    /\ UNCHANGED <<todo, module, running, initCount, regs, bodyVars, irq>>

\* ++initCount in the loop, after RunAsync has returned.
CountPost ==
    /\ stage = "count"
    /\ pc[Boot] = "run"
    /\ initCount' = initCount + 1
    /\ stage' = "post"
    /\ UNCHANGED <<vars, todo, module, left, running, regs, bodyVars, irq>>

\* Mutant: the boot CPU does not count itself.
CallSelfUncounted ==
    /\ stage = "post"
    /\ pc[Boot] = "run"
    /\ left = {}
    /\ running' = [running EXCEPT ![Boot] = <<module>>]
    /\ stage' = "self"
    /\ UNCHANGED <<vars, todo, module, left, initCount, regs, bodyVars, irq>>

\* The boot CPU counts itself, in SyscallModule, and calls the function.
CallSelf ==
    /\ stage = "post"
    /\ pc[Boot] = "run"
    /\ left = {}
    /\ initCount' = IF module = SetCpuRegisters THEN initCount + 1 ELSE initCount
    /\ running' = [running EXCEPT ![Boot] = <<module>>]
    /\ stage' = "self"
    /\ UNCHANGED <<vars, todo, module, left, regs, bodyVars, irq>>

SelfReturns ==
    /\ stage = "self"
    /\ Ended(Boot, module)
    /\ running' = [running EXCEPT ![Boot] = Tail(@)]
    /\ left' = Cpus
    /\ stage' = IF module = SetCpuRegisters THEN "wait" ELSE "next"
    /\ UNCHANGED <<vars, todo, module, initCount, regs, bodyVars, irq>>

\* Initialize returns, and its critical section ends.
ModuleDone ==
    /\ SetCritical(Boot, FALSE)
    /\ todo' = todo \ {module}
    /\ stage' = "idle"
    /\ UNCHANGED <<module, left, running, initCount, regs, bodyVars, irq>>

-----------------------------------------------------------------------------
(* The end of SyscallModule::Initialize.                                   *)

\* Mutant: the loop ends as soon as any CPU has answered.
WaitForFirst ==
    /\ stage = "wait"
    /\ initCount < Cardinality(Cpus)
    /\ ModuleDone

\* while (initCount); ends.
WaitOver ==
    /\ stage = "wait"
    /\ initCount = 0
    /\ ModuleDone

-----------------------------------------------------------------------------
(* The end of TimerModule::Initialize.                                     *)

\* Mutant: the boot CPU polls in its critical section.
PollCritical ==
    /\ stage = "next"
    /\ left # {}
    /\ stage' = "poll"
    /\ UNCHANGED <<vars, todo, module, left, running, initCount, regs, bodyVars, irq>>

\* SetCritical(false) before polling the next CPU.
Poll ==
    /\ stage = "next"
    /\ left # {}
    /\ SetCritical(Boot, FALSE)
    /\ stage' = "poll"
    /\ UNCHANGED <<todo, module, left, running, initCount, regs, bodyVars, irq>>

\* while (!timer.calibrated) ends, SetCritical(true).
Polled(d) ==
    /\ stage = "poll"
    /\ calibrated[d]
    /\ SetCritical(Boot, TRUE)
    /\ left' = left \ {d}
    /\ stage' = "next"
    /\ UNCHANGED <<todo, module, running, initCount, regs, bodyVars, irq>>

\* Irt::Set: from here on the vector runs LapicTimer::GeneralTimerCallback.
TimersDone ==
    /\ stage = "next"
    /\ left = {}
    /\ ModuleDone

-----------------------------------------------------------------------------

\* HandleWakeup calls the function it has found.
CallFunction(c) ==
    /\ HandlerCall(c)
    /\ running' = IF got[c].func = NoFunc THEN running
                  ELSE [running EXCEPT ![c] = <<got[c].func>> \o @]

\* The function ends, and HandleWakeup with it.
FunctionReturns(c) ==
    /\ \E f \in Messages : Ended(c, f)
    /\ Return(c)
    /\ running' = [running EXCEPT ![c] = Tail(@)]

\* The steps of Wakeup that these calls lead to.
Deliver(c) ==
    /\ \/ (Send(c) \/ TakeWakeup(c) \/ SendEoi(c) \/ HandlerSeize(c) \/ LoadFunc(c)
             \/ LoadArg(c) \/ ClearFunc(c)) /\ UNCHANGED running
       \/ CallFunction(c)
       \/ FunctionReturns(c)
    /\ UNCHANGED <<loopVars, initCount, regs, bodyVars, irq>>

Function(c) ==
    \/ CountDown(c)
    \/ WriteMsrs(c)
    \/ StartCount(c)
    \/ Awake(c)
    \/ StopCount(c)
    \/ Mark(c)

Initialize ==
    \/ \E m \in todo : Enter(m)
    \/ \E d \in left : Post(d) \/ Polled(d)
    \/ CountPost
    \/ CallSelf
    \/ SelfReturns
    \/ WaitOver
    \/ Poll
    \/ TimersDone

InitNext ==
    \/ PitPulse
    \/ PitInterrupt
    \/ Initialize
    \/ \E c \in Cpus : Function(c) \/ Deliver(c)

InitSpec == InitState /\ [][InitNext]_allVars

\* The Pit keeps pulsing, and its interrupt is taken if the boot CPU has its
\* interrupts on often enough.  The flows of the CPUs go on whenever they can.
InitFairSpec ==
    /\ InitSpec
    /\ WF_allVars(PitPulse)
    /\ SF_allVars(PitInterrupt)
    /\ WF_allVars(Initialize)
    /\ \A c \in Cpus : WF_allVars(Function(c) \/ Deliver(c))

-----------------------------------------------------------------------------

\* Initialize of module m has returned.
Initialized(m) == m \notin todo

\* The CPUs SetCpuRegisters has not counted down for yet.
Uncounted == {c \in Cpus : regs[c] = "unset"}

\* What the boot CPU has yet to count up.
Ahead ==
    IF Initialized(SetCpuRegisters) THEN 0
    ELSE IF module # SetCpuRegisters THEN Cardinality(Cpus)
    ELSE IF stage = "post" THEN Cardinality(left) + 1
    ELSE IF stage = "count" THEN Cardinality(left) + 2
    ELSE 0

\* SyscallModule::initCount is incremented after the message is out, so a fast
\* CPU makes it negative for a while; yet at all times it is the number of CPUs
\* that have not counted down, short of those the boot CPU has not counted up
\* for, so that the loop of Initialize ends when every CPU has counted down and
\* not before.
CountsAreBalanced == initCount + Ahead = Cardinality(Uncounted)

\* RunAsync replaces a message that has not been received yet: a CPU would miss
\* it, and Initialize would wait for that CPU forever.  The two modules never
\* do: what they wait for implies that the mailboxes are empty again.
NoMessageOverwritten ==
    pc[Boot] = "func" => func[job[Boot].to] \notin Messages

\* HandleWakeup sends its EOI first, so a Wakeup could be handled on top of the
\* function of the last one while CalibrateMethod sleeps: this never happens,
\* so that one stack frame of HandleWakeup per CPU is enough.
NotNested == \A c \in Cpus : Len(running[c]) <= 1

\* When the LapicTimer vector gets its handler, no CPU is still calibrating: a
\* SetTimeout is not disturbed by the count or the stop of a calibration.
NoCalibrationLeft ==
    Initialized(Calibrate) => \A c \in Cpus : calibrated[c] /\ ~counting[c]

\* The comment in TimerModule::Initialize: "we must leave our critical section
\* while we poll because the PIT timer may require interrupts on the boot CPU".
\* Nobody waits forever for a tick the boot CPU keeps back, or for a count:
\* both Initialize methods return, in either order.
InitializeReturns == <>(todo = {})

\* The comment in SyscallModule::Initialize: "send an IPI to each CPU to setup
\* the syscall registers".  When Initialize has waited for them, they are set.
RegistersSet ==
    Initialized(SetCpuRegisters) => \A c \in Cpus : regs[c] = "set"
=============================================================================
