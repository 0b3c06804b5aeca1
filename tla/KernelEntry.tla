----------------------------- MODULE KernelEntry -----------------------------
(***************************************************************************)
(* How a CPU gets into the kernel and out of it again: interrupts and      *)
(* exceptions (raw-isr.s, isr.cpp, local-segment.cpp), system calls        *)
(* (syscall/handler.s) and the States that it runs (state.cpp, cpu.cpp).   *)
(*                                                                         *)
(* A State has a kernel stack of its own; a CPU has one for the functions  *)
(* that run between States.  gs is the base of the GS segment: the data of *)
(* the CPU in the kernel, 0 in user code; swapgs exchanges it with alt.    *)
(*                                                                         *)
(* NMIs and machine checks run on the stack of the CPU, from its top.  The *)
(* code has no defence against one that comes while that stack is in use:  *)
(* here they come while a State runs, one at a time.  A CPU that pushes a  *)
(* frame on a user stack, or returns through one that is not what iretq    *)
(* expects, is lost: what it does then is not followed.                    *)
(***************************************************************************)
EXTENDS Integers, Sequences, FiniteSets

CONSTANTS
    Cpus,
    States,
    NoState,
    UserStack,    \* whatever user code has in its stack register
    MaxNesting    \* interrupts on one stack

\* Two stacks are never the same memory, and no CPU has its data at address 0.
ASSUME StackAssumption ==
    /\ Cpus \intersect States = {}
    /\ UserStack \notin Cpus \union States
    /\ NoState \notin Cpus \union States
ASSUME GsAssumption == 0 \notin Cpus

VARIABLES
    cpu,        \* registers and TSS of each CPU
    stack,      \* the frames on each kernel stack
    state,      \* the State objects
    ist,        \* vectors with an entry in the interrupt stack table
    lstar,      \* CPUs whose syscall registers are set
    routines,   \* vectors with a routine in the Irt
    delegate    \* a page delegate is set

vars == <<cpu, stack, state, ist, lstar, routines, delegate>>

Nmi               == 2
GeneralProtection == 13
PageFault         == 14
Timer             == 33
Spurious          == 247
Vectors           == {Nmi, GeneralProtection, PageFault, Timer, Spurious}

UserGs == 0

\* What a CPU pushes: five words, and an error code for some exceptions.
PushesCode == {8, 17} \union 10 .. 14
Pushed(v)  == IF v \in PushesCode THEN 6 ELSE 5

\* Irt::Configure: the vectors of RawCodedIsr, which discards the error code.
HasCode(v)   == v = 8 \/ v = 17 \/ (v >= 10 /\ v <= 14)
Discarded(v) == IF HasCode(v) THEN 1 ELSE 0

\* New States: a user function, and a kernel function on the State's own stack.
Context(pc, rsp, critical) == [pc |-> pc, rsp |-> rsp, critical |-> critical]
NewUser      == [life |-> "ready", context |-> Context("user", UserStack, FALSE)]
NewKernel(s) == [life |-> "ready", context |-> Context("kernel", s, FALSE)]
NoObject     == [life |-> "none", context |-> Context("user", UserStack, FALSE)]

\* CPUs as their constructor leaves them: GS is set and no State runs.
Init ==
    /\ cpu = [c \in Cpus |-> [pc |-> "boot", rsp |-> c, critical |-> TRUE, gs |-> c,
                              alt |-> UserGs, top |-> NoState, state |-> NoState]]
    /\ stack = [x \in Cpus \union States |-> <<>>]
    /\ state = [s \in States |-> NoObject]
    /\ ist = {}
    /\ lstar = {}
    /\ routines \in {{Timer, Nmi}, {Timer, Nmi, PageFault}}
    /\ delegate \in BOOLEAN

Top(x) == stack[x][Len(stack[x])]
Pop(x) == stack' = [stack EXCEPT ![x] = SubSeq(@, 1, Len(@) - 1)]

Goto(c, pc) == cpu' = [cpu EXCEPT ![c].pc = pc]
Swapgs(c, pc) == cpu' = [cpu EXCEPT ![c].pc = pc, ![c].gs = cpu[c].alt, ![c].alt = cpu[c].gs]

-----------------------------------------------------------------------------
(* System calls.                                                           *)

\* Mutant: the registers are set before the interrupt stack table.
CpuRegistersFirst(c) ==
    /\ lstar' = lstar \union {c}
    /\ ist' = IF lstar = {} THEN ist ELSE {Nmi}

\* SetCpuRegisters.  The IDT with its stack table is one for all CPUs.
CpuRegisters(c) ==
    /\ lstar' = lstar \union {c}
    /\ ist' = {Nmi}

SetCpuRegisters(c) ==
    /\ cpu[c].pc = "boot" /\ c \notin lstar
    /\ CpuRegisters(c)
    /\ UNCHANGED <<cpu, stack, state, routines, delegate>>

\* The SYSCALL instruction: SFMASK clears the interrupt flag.
Syscall(c) ==
    /\ cpu[c].pc = "user" /\ c \in lstar
    /\ cpu' = [cpu EXCEPT ![c].pc = "syscall", ![c].critical = TRUE]
    /\ UNCHANGED <<stack, state, ist, lstar, routines, delegate>>

SyscallSwap(c) ==
    /\ cpu[c].pc = "syscall"
    /\ Swapgs(c, "syscallStack")
    /\ UNCHANGED <<stack, state, ist, lstar, routines, delegate>>

\* The stack of the State is used from its top, and the handler is called.
SyscallStack(c) ==
    /\ cpu[c].pc = "syscallStack"
    /\ IF cpu[c].gs # c THEN Goto(c, "lost") /\ UNCHANGED stack
       ELSE /\ stack' = [stack EXCEPT ![cpu[c].top] = <<>>]
            /\ cpu' = [cpu EXCEPT ![c].pc = "handler", ![c].rsp = cpu[c].top]
    /\ UNCHANGED <<state, ist, lstar, routines, delegate>>

\* Handlers and kernel functions leave and enter critical sections.
SetCritical(c, b) ==
    /\ cpu[c].pc \in {"handler", "kernel", "sched"} /\ cpu[c].critical # b
    /\ cpu' = [cpu EXCEPT ![c].critical = b]
    /\ UNCHANGED <<stack, state, ist, lstar, routines, delegate>>

\* The handler returns, in a critical section, and the user stack is restored.
HandlerReturns(c) ==
    /\ cpu[c].pc = "handler" /\ cpu[c].critical
    /\ cpu' = [cpu EXCEPT ![c].pc = "return", ![c].rsp = UserStack]
    /\ UNCHANGED <<stack, state, ist, lstar, routines, delegate>>

ReturnSwap(c) ==
    /\ cpu[c].pc = "return"
    /\ Swapgs(c, "sysret")
    /\ UNCHANGED <<stack, state, ist, lstar, routines, delegate>>

\* The return address is not verified: user code that makes the call from the end of
\* the canonical addresses gets a GeneralProtection instead.
Sysret(c) ==
    /\ cpu[c].pc = "sysret"
    /\ cpu' = [cpu EXCEPT ![c].pc = "user", ![c].critical = FALSE]
    /\ UNCHANGED <<stack, state, ist, lstar, routines, delegate>>

-----------------------------------------------------------------------------
(* Interrupts and exceptions.                                              *)

InCode == {"user", "handler", "kernel", "sched"}

\* When a vector may come.
MayCome(c, v) ==
    CASE v = Nmi               -> /\ cpu[c].rsp # c /\ stack[c] = <<>>
                                  /\ cpu[c].state # NoState /\ cpu[c].pc # "lost"
      [] v = GeneralProtection -> cpu[c].pc \in {"user", "handler", "kernel", "sysret"}
      [] v = PageFault         -> cpu[c].pc \in {"user", "handler", "kernel"}
      [] OTHER                 -> ~cpu[c].critical /\ cpu[c].pc \in InCode

\* The stack it is handled on.  The first two are used from their top.
IsFromUser(c) == cpu[c].pc = "user"
StackFor(c, v) == IF v \in ist THEN c ELSE IF IsFromUser(c) THEN cpu[c].top ELSE cpu[c].rsp

Interrupt(c, v) ==
    LET x == StackFor(c, v)
        frame == [vector |-> v, words |-> Pushed(v), user |-> IsFromUser(c), swapped |-> FALSE,
                  context |-> Context(cpu[c].pc, cpu[c].rsp, cpu[c].critical)]
    IN  /\ MayCome(c, v)
        /\ IF x = UserStack
           THEN Goto(c, "lost") /\ UNCHANGED stack
           ELSE /\ Len(stack[x]) < MaxNesting
                /\ stack' = [stack EXCEPT ![x] = IF x # cpu[c].rsp THEN <<frame>>
                                                 ELSE Append(@, frame)]
                /\ cpu' = [cpu EXCEPT ![c].pc = "isr", ![c].rsp = x, ![c].critical = TRUE]
        /\ UNCHANGED <<state, ist, lstar, routines, delegate>>

\* Mutant: the code segment decides for every vector.
MustSwapByCs(c, frame) == frame.user

\* SwapScope: an NMI or a machine check may come between a swapgs and the change
\* of the code segment that goes with it.
MustSwap(c, frame) ==
    IF frame.vector = Nmi THEN cpu[c].gs = UserGs ELSE frame.user

\* InterruptCoded and InterruptNonCoded up to the routine.
IsHandled(v) == v \in routines \/ (v = PageFault /\ delegate)

EnterScope(c) ==
    /\ cpu[c].pc = "isr"
    /\ LET x == cpu[c].rsp
           v == Top(x).vector
           next == IF IsHandled(v) THEN "routine"
                   ELSE IF v < 240 THEN "panic" ELSE "routineDone"
       IN  /\ stack' = [stack EXCEPT ![x][Len(stack[x])].swapped = MustSwap(c, Top(x))]
           /\ IF MustSwap(c, Top(x)) THEN Swapgs(c, next) ELSE Goto(c, next)
    /\ UNCHANGED <<state, ist, lstar, routines, delegate>>

RoutineReturns(c) ==
    /\ cpu[c].pc = "routine"
    /\ Goto(c, "routineDone")
    /\ UNCHANGED <<stack, state, ist, lstar, routines, delegate>>

LeaveScope(c) ==
    /\ cpu[c].pc = "routineDone"
    /\ IF Top(cpu[c].rsp).swapped THEN Swapgs(c, "iret") ELSE Goto(c, "iret")
    /\ UNCHANGED <<stack, state, ist, lstar, routines, delegate>>

\* What is left of the frame must be the five words of iretq.
Iret(c) ==
    /\ cpu[c].pc = "iret"
    /\ LET f == Top(cpu[c].rsp)
       IN  /\ cpu' = [cpu EXCEPT ![c].pc = IF f.words - Discarded(f.vector) = 5
                                           THEN f.context.pc ELSE "lost",
                                 ![c].rsp = f.context.rsp,
                                 ![c].critical = f.context.critical]
           /\ Pop(cpu[c].rsp)
    /\ UNCHANGED <<state, ist, lstar, routines, delegate>>

-----------------------------------------------------------------------------
(* States.                                                                 *)

New(s) ==
    /\ state[s].life = "none"
    /\ \E o \in {NewUser, NewKernel(s)} : state' = [state EXCEPT ![s] = o]
    /\ stack' = [stack EXCEPT ![s] = <<>>]
    /\ UNCHANGED <<cpu, ist, lstar, routines, delegate>>

Delete(s) ==
    /\ state[s].life = "ready"
    /\ state' = [state EXCEPT ![s] = NoObject]
    /\ stack' = [stack EXCEPT ![s] = <<>>]
    /\ UNCHANGED <<cpu, ist, lstar, routines, delegate>>

\* RunSync: a function that does not return takes over the stack of the CPU.  It is
\* called when no State runs and system calls have been set up.
RunSync(c) ==
    /\ cpu[c].pc \in {"boot", "sched", "routine"} /\ cpu[c].critical
    /\ cpu[c].state = NoState /\ c \in lstar
    /\ cpu' = [cpu EXCEPT ![c].pc = "sched", ![c].rsp = c]
    /\ stack' = [stack EXCEPT ![c] = <<>>]
    /\ UNCHANGED <<state, ist, lstar, routines, delegate>>

\* SuspendAndCall: what the State does is saved, with the segments of the kernel,
\* and a function runs on the stack of the CPU.
SuspendAndCall(c) ==
    LET s == cpu[c].state IN
    /\ cpu[c].pc \in {"handler", "kernel", "routine"} /\ cpu[c].critical
    /\ s # NoState /\ cpu[c].rsp = s
    /\ state' = [state EXCEPT ![s] = [life |-> "ready",
                                      context |-> Context(cpu[c].pc, s, TRUE)]]
    /\ stack' = [stack EXCEPT ![c] = <<>>]
    /\ cpu' = [cpu EXCEPT ![c].pc = "sched", ![c].rsp = c, ![c].state = NoState]
    /\ UNCHANGED <<ist, lstar, routines, delegate>>

\* Mutant: the stack for the next entry is that of the last State.
AsyncKernelTopKept(c, s) == IF cpu[c].top = NoState THEN s ELSE cpu[c].top

\* Cpu::SetAsyncKernelTop, for interrupts and system calls from user code.
AsyncKernelTop(c, s) == s

Resume(c, s) ==
    /\ cpu[c].pc = "sched" /\ cpu[c].critical /\ stack[c] = <<>>
    /\ state[s].life = "ready"
    /\ cpu' = [cpu EXCEPT ![c].pc = "resume", ![c].top = AsyncKernelTop(c, s),
                          ![c].state = s]
    /\ state' = [state EXCEPT ![s].life = "running"]
    /\ UNCHANGED <<stack, ist, lstar, routines, delegate>>

ResumeSwap(c) ==
    /\ cpu[c].pc = "resume"
    /\ IF state[cpu[c].state].context.pc = "user"
       THEN Swapgs(c, "resumeIret") ELSE Goto(c, "resumeIret")
    /\ UNCHANGED <<stack, state, ist, lstar, routines, delegate>>

ResumeIret(c) ==
    /\ cpu[c].pc = "resumeIret"
    /\ LET x == state[cpu[c].state].context
       IN  cpu' = [cpu EXCEPT ![c].pc = x.pc, ![c].rsp = x.rsp, ![c].critical = x.critical]
    /\ UNCHANGED <<stack, state, ist, lstar, routines, delegate>>

Next ==
    \/ \E c \in Cpus :
          \/ SetCpuRegisters(c) \/ RunSync(c)
          \/ Syscall(c) \/ SyscallSwap(c) \/ SyscallStack(c)
          \/ HandlerReturns(c) \/ ReturnSwap(c) \/ Sysret(c)
          \/ \E b \in BOOLEAN : SetCritical(c, b)
          \/ \E v \in Vectors : Interrupt(c, v)
          \/ EnterScope(c) \/ RoutineReturns(c) \/ LeaveScope(c) \/ Iret(c)
          \/ SuspendAndCall(c) \/ ResumeSwap(c) \/ ResumeIret(c)
          \/ \E s \in States : Resume(c, s)
    \/ \E s \in States : New(s) \/ Delete(s)

Spec == Init /\ [][Next]_vars

-----------------------------------------------------------------------------
(* Properties.                                                             *)

\* Wherever an interrupt, an NMI or a migration to another CPU falls, kernel code
\* finds the data of its own CPU through GS and user code never does.  The exception
\* is the handler of a sysret that faults: it has the GS of user code.
GsIsOwn ==
    \A c \in Cpus :
        /\ {cpu[c].gs, cpu[c].alt} = {c, UserGs}
        /\ cpu[c].pc \in {"routine", "handler", "kernel", "sched", "panic"} => cpu[c].gs = c
        /\ cpu[c].pc \in {"user", "lost"} => cpu[c].gs = UserGs

\* The stack on which the next interrupt or system call from user code begins at
\* the top is that of the State that runs, and nothing on it is still needed.
EntryStackFree ==
    \A c \in Cpus :
        cpu[c].pc \in {"user", "syscall", "syscallStack"} =>
            /\ cpu[c].top = cpu[c].state
            /\ stack[cpu[c].top] = <<>>

\* The kernel pushes a frame on a user stack in one case, which handler.s:23 warns
\* of: sysret to an address that is not canonical.  Otherwise it never does so, nor
\* reads a stack pointer from user memory, nor returns through a frame with an error
\* code left on it.
LostOnlyBySysret ==
    [][\A c \in Cpus :
          cpu[c].pc # "lost" /\ cpu'[c].pc = "lost" =>
              cpu[c].pc = "sysret" /\ Interrupt(c, GeneralProtection)]_vars

\* Does not hold: the kernel never pushes a frame on a user stack.
NeverLost == \A c \in Cpus : cpu[c].pc # "lost"

=============================================================================
