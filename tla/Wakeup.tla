-------------------------------- MODULE Wakeup --------------------------------
(***************************************************************************)
(* Thread::RunAsync as arch/x64/smp/cpu.cpp implements it: a one-slot      *)
(* mailbox per CPU (wakeupFunction, wakeupArg) behind a CriticalLock, and  *)
(* a Wakeup IPI whose handler, Cpu::HandleWakeup, empties the mailbox and  *)
(* runs what it found.                                                     *)
(*                                                                         *)
(* A message is a function together with its argument; both fields of the  *)
(* mailbox hold the message they were stored for, so that a torn pair is a *)
(* pair of different messages.  Interrupts are taken outside of critical   *)
(* sections only.  The function a handler runs may leave its critical      *)
(* section for a while, as TimerModule::CalibrateMethod does, and then be  *)
(* interrupted by the next Wakeup.                                         *)
(***************************************************************************)
EXTENDS Integers

CONSTANTS
    Cpus,      \* the hardware threads
    Messages,  \* what callers send: a function with its argument
    NoFunc,    \* NULL in wakeupFunction
    Unset,     \* what the fields hold before the first store: the constructor
               \* of Cpu leaves them uninitialized
    NoCpu,     \* a wakeupLock nobody holds
    MaxDepth   \* bound: handlers nested on one CPU

ASSUME MessageAssumption == NoFunc \notin Messages /\ Unset \notin Messages

ASSUME EmptyAssumption == NoFunc # Unset

ASSUME HolderAssumption == NoCpu \notin Cpus

ASSUME DepthAssumption == MaxDepth \in Nat

VARIABLES
    pc,        \* pc[c]: what CPU c does next
    crit,      \* crit[c]: c is in a critical section (interrupts are off)
    depth,     \* depth[c]: functions c runs on behalf of HandleWakeup
    job,       \* job[c]: the CPU and the message of c's RunAsync
    lock,      \* lock[d]: the holder of wakeupLock of d
    func,      \* func[d]: wakeupFunction of d
    arg,       \* arg[d]: wakeupArg of d
    got,       \* got[c]: the locals func and arg of c's HandleWakeup
    pending    \* pending[d]: Wakeup vector requested at d's LAPIC

boxVars == <<lock, func, arg>>
vars == <<pc, crit, depth, job, lock, func, arg, got, pending>>

SenderPcs   == {"seize", "func", "arg", "release", "ipi"}
HandlerPcs  == {"eoi", "hseize", "hfunc", "harg", "hclear", "hrelease"}
Pcs == {"run"} \union SenderPcs \union HandlerPcs

\* The arguments and locals of a call that is not under way.
NoJob == [to |-> NoCpu, msg |-> NoFunc]
NothingLoaded == [func |-> NoFunc, arg |-> Unset]

Goto(c, label) == pc' = [pc EXCEPT ![c] = label]

Init ==
    /\ pc = [c \in Cpus |-> "run"]
    /\ crit = [c \in Cpus |-> FALSE]
    /\ depth = [c \in Cpus |-> 0]
    /\ job = [c \in Cpus |-> NoJob]
    /\ lock = [c \in Cpus |-> NoCpu]
    /\ func = [c \in Cpus |-> Unset]
    /\ arg = [c \in Cpus |-> Unset]
    /\ got = [c \in Cpus |-> NothingLoaded]
    /\ pending = [c \in Cpus |-> FALSE]

\* Code outside of this module enters and leaves critical sections.
SetCritical(c, flag) ==
    /\ pc[c] = "run"
    /\ crit' = [crit EXCEPT ![c] = flag]
    /\ UNCHANGED <<pc, depth, job, boxVars, got, pending>>

-----------------------------------------------------------------------------
(* Cpu::RunAsync, in a critical section of the caller.                     *)

\* Mutant: the IPI is sent before the mailbox is filled.
RunAsyncIpiFirst(c, d, m) ==
    /\ pc[c] = "run"
    /\ crit[c]
    /\ job' = [job EXCEPT ![c] = [to |-> d, msg |-> m]]
    /\ pending' = [pending EXCEPT ![d] = TRUE]
    /\ Goto(c, "seize")
    /\ UNCHANGED <<crit, depth, boxVars, got>>

\* CPU c calls d.RunAsync(m).
RunAsync(c, d, m) ==
    /\ pc[c] = "run"
    /\ crit[c]
    /\ job' = [job EXCEPT ![c] = [to |-> d, msg |-> m]]
    /\ Goto(c, "seize")
    /\ UNCHANGED <<crit, depth, boxVars, got, pending>>

Seize(c) ==
    /\ pc[c] = "seize"
    /\ lock[job[c].to] = NoCpu
    /\ lock' = [lock EXCEPT ![job[c].to] = c]
    /\ Goto(c, "func")
    /\ UNCHANGED <<crit, depth, job, func, arg, got, pending>>

StoreFunc(c) ==
    /\ pc[c] = "func"
    /\ func' = [func EXCEPT ![job[c].to] = job[c].msg]
    /\ Goto(c, "arg")
    /\ UNCHANGED <<crit, depth, job, lock, arg, got, pending>>

StoreArg(c) ==
    /\ pc[c] = "arg"
    /\ arg' = [arg EXCEPT ![job[c].to] = job[c].msg]
    /\ Goto(c, "release")
    /\ UNCHANGED <<crit, depth, job, lock, func, got, pending>>

Release(c) ==
    /\ pc[c] = "release"
    /\ lock' = [lock EXCEPT ![job[c].to] = NoCpu]
    /\ Goto(c, "ipi")
    /\ UNCHANGED <<crit, depth, job, func, arg, got, pending>>

SendIpi(c) ==
    /\ pc[c] = "ipi"
    /\ pending' = [pending EXCEPT ![job[c].to] = TRUE]
    /\ job' = [job EXCEPT ![c] = NoJob]
    /\ Goto(c, "run")
    /\ UNCHANGED <<crit, depth, boxVars, got>>

-----------------------------------------------------------------------------
(* Cpu::HandleWakeup.                                                      *)

\* The LAPIC delivers the vector; interrupts go off.
TakeWakeup(c) ==
    /\ pc[c] = "run"
    /\ ~crit[c]
    /\ pending[c]
    /\ depth[c] < MaxDepth
    /\ pending' = [pending EXCEPT ![c] = FALSE]
    /\ crit' = [crit EXCEPT ![c] = TRUE]
    /\ Goto(c, "eoi")
    /\ UNCHANGED <<depth, job, boxVars, got>>

\* SendEoi() comes first: the next Wakeup can be delivered while the function
\* runs, as soon as the function leaves its critical section.
SendEoi(c) ==
    /\ pc[c] = "eoi"
    /\ Goto(c, "hseize")
    /\ UNCHANGED <<crit, depth, job, boxVars, got, pending>>

HandlerSeize(c) ==
    /\ pc[c] = "hseize"
    /\ lock[c] = NoCpu
    /\ lock' = [lock EXCEPT ![c] = c]
    /\ Goto(c, "hfunc")
    /\ UNCHANGED <<crit, depth, job, func, arg, got, pending>>

LoadFunc(c) ==
    /\ pc[c] = "hfunc"
    /\ got' = [got EXCEPT ![c] = [func |-> func[c], arg |-> @.arg]]
    /\ Goto(c, "harg")
    /\ UNCHANGED <<crit, depth, job, boxVars, pending>>

LoadArg(c) ==
    /\ pc[c] = "harg"
    /\ got' = [got EXCEPT ![c] = [func |-> @.func, arg |-> arg[c]]]
    /\ Goto(c, "hclear")
    /\ UNCHANGED <<crit, depth, job, boxVars, pending>>

\* Mutant: the mailbox is not emptied.
ClearNothing(c) ==
    /\ pc[c] = "hclear"
    /\ Goto(c, "hrelease")
    /\ UNCHANGED <<crit, depth, job, boxVars, got, pending>>

ClearFunc(c) ==
    /\ pc[c] = "hclear"
    /\ func' = [func EXCEPT ![c] = NoFunc]
    /\ Goto(c, "hrelease")
    /\ UNCHANGED <<crit, depth, job, lock, arg, got, pending>>

\* wakeupLock.Release(), and the call of the function if there is one.
HandlerCall(c) ==
    /\ pc[c] = "hrelease"
    /\ lock' = [lock EXCEPT ![c] = NoCpu]
    /\ got' = [got EXCEPT ![c] = NothingLoaded]
    /\ Goto(c, "run")
    /\ IF got[c].func = NoFunc
         THEN crit' = [crit EXCEPT ![c] = FALSE] /\ depth' = depth
         ELSE depth' = [depth EXCEPT ![c] = @ + 1] /\ crit' = crit
    /\ UNCHANGED <<job, func, arg, pending>>

\* The function returns, and HandleWakeup and the interrupt with it.
Return(c) ==
    /\ pc[c] = "run"
    /\ crit[c]
    /\ depth[c] > 0
    /\ depth' = [depth EXCEPT ![c] = @ - 1]
    /\ crit' = [crit EXCEPT ![c] = FALSE]
    /\ UNCHANGED <<pc, job, boxVars, got, pending>>

-----------------------------------------------------------------------------

\* The rest of a RunAsync that has been called.
Send(c) ==
    Seize(c) \/ StoreFunc(c) \/ StoreArg(c) \/ Release(c) \/ SendIpi(c)

HandleWakeup(c) ==
    \/ SendEoi(c)
    \/ HandlerSeize(c)
    \/ LoadFunc(c)
    \/ LoadArg(c)
    \/ ClearFunc(c)
    \/ HandlerCall(c)

Next ==
    \E c \in Cpus :
        \/ \E flag \in BOOLEAN : SetCritical(c, flag)
        \/ \E d \in Cpus, m \in Messages : RunAsync(c, d, m)
        \/ Send(c)
        \/ TakeWakeup(c)
        \/ HandleWakeup(c)
        \/ Return(c)

Spec == Init /\ [][Next]_vars

-----------------------------------------------------------------------------

\* Every variable keeps to its type: the mailbox holds a message, NULL or what
\* it held before it was first used.
TypeOK ==
    /\ pc \in [Cpus -> Pcs]
    /\ crit \in [Cpus -> BOOLEAN]
    /\ depth \in [Cpus -> 0 .. MaxDepth]
    /\ job \in [Cpus -> [to : Cpus, msg : Messages] \union {NoJob}]
    /\ lock \in [Cpus -> Cpus \union {NoCpu}]
    /\ func \in [Cpus -> Messages \union {NoFunc, Unset}]
    /\ arg \in [Cpus -> Messages \union {Unset}]
    /\ got \in [Cpus -> [func : Messages \union {NoFunc, Unset},
                         arg  : Messages \union {Unset}]]
    /\ pending \in [Cpus -> BOOLEAN]

\* HandleWakeup runs a function with the argument it was sent with, and never
\* the field the constructor of Cpu leaves uninitialized, however senders and
\* the handler interleave.
CallsWhatWasSent ==
    \A c \in Cpus :
        pc[c] = "hrelease" /\ got[c].func # NoFunc =>
            got[c].func \in Messages /\ got[c].arg = got[c].func

\* A message in d's mailbox has a Wakeup under way: the sender will send it,
\* the LAPIC has it, or the handler is about to look.
WakeupUnderWay(d) ==
    \/ pending[d]
    \/ pc[d] \in {"eoi", "hseize", "hfunc", "harg", "hclear"}
    \/ \E c \in Cpus : pc[c] \in {"arg", "release", "ipi"} /\ job[c].to = d

\* "it will receive at least one": a message that RunAsync has stored never
\* stays behind without an IPI that makes the CPU look for it.
NoMessageForgotten ==
    \A d \in Cpus : func[d] \in Messages => WakeupUnderWay(d)

-----------------------------------------------------------------------------
(* The inductive invariant behind CallsWhatWasSent and NoMessageForgotten. *)

\* CPU c is between Seize and Release of the mailbox of d.
Inside(c, d) ==
    \/ pc[c] \in {"func", "arg", "release"} /\ job[c].to = d
    \/ pc[c] \in {"hfunc", "harg", "hclear", "hrelease"} /\ c = d

\* Each mailbox is locked by the CPU that is using it.  Senders and handlers
\* are in a critical section, so no CPU is both.
LockInv ==
    \A c \in Cpus :
        /\ \A d \in Cpus : Inside(c, d) <=> lock[d] = c
        /\ pc[c] # "run" => crit[c]
        /\ pc[c] \in SenderPcs => job[c] \in [to : Cpus, msg : Messages]
        /\ pc[c] \in HandlerPcs => depth[c] < MaxDepth

\* Once initialized, the fields of a mailbox that is not being written belong
\* together, and so does what the handler has loaded of them.  Nobody looks at
\* a mailbox nothing was ever stored in.
BoxInv ==
    \A d \in Cpus :
        /\ func[d] \in Messages =>
               \/ arg[d] = func[d]
               \/ \E c \in Cpus : pc[c] = "arg" /\ job[c].to = d
        /\ func[d] = Unset =>
               /\ ~pending[d]
               /\ pc[d] \notin HandlerPcs
               /\ \A c \in Cpus :
                      pc[c] \in {"arg", "release", "ipi"} => job[c].to # d

\* What is loaded agrees with the mailbox as long as the handler has the lock.
LoadInv ==
    \A c \in Cpus :
        /\ pc[c] \in {"harg", "hclear"} => got[c].func = func[c]
        /\ pc[c] = "arg" => func[job[c].to] = job[c].msg
        /\ pc[c] \in {"hclear", "hrelease"} /\ got[c].func # NoFunc =>
               got[c].func \in Messages /\ got[c].arg = got[c].func

IInv == TypeOK /\ LockInv /\ BoxInv /\ LoadInv /\ NoMessageForgotten
=============================================================================
