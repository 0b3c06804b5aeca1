--------------------------------- MODULE Tlb ---------------------------------
(***************************************************************************)
(* Tlb (arch/x64/vmm/tlb.cpp) with the operations of GlobalMap and UserMap *)
(* that need it: changing page table entries, switching address spaces and *)
(* the TLB shootdown between CPUs.                                         *)
(*                                                                         *)
(* Every CPU runs one flow of control, pc[c], which an Invlpg interrupt    *)
(* suspends while isr[c] is not "none".  The hardware is modelled by its   *)
(* effects: a TLB that may cache any present entry at any moment, a LAPIC  *)
(* that keeps one request bit per vector, and interrupts that are taken    *)
(* only outside of critical sections.  Kernel pages are global pages       *)
(* (PageTable::CalcMask sets 0x100 for them): loading CR3 keeps them.      *)
(***************************************************************************)
EXTENDS AddressSpace, FiniteSets

CONSTANTS
    NoCpu,       \* a lock nobody holds
    FlushLimit   \* the 0x200000 bytes of Tlb::Invlpgs, in pages

ASSUME CpuAssumption == IsFiniteSet(Cpus) /\ NoCpu \notin Cpus

ASSUME LimitAssumption == FlushLimit \in Nat

VARIABLES
    ready,       \* Tlb::IsInitialized()
    pt,          \* pt[m][a]: the frame the page table of m maps page a to
    mapLock,     \* mapLock[m]: the CPU in a section locked by m's `lock`
    tlbLock,     \* the CPU that holds Tlb::lock
    pc,          \* pc[c]: what CPU c does next
    op,          \* op[c]: the range of c's page table operation
    entering,    \* entering[c]: the map whose Set() c is in
    todo,        \* todo[c]: CPUs the loop of DistributeKernel/User has left
    invl,        \* invlAddress and invlSize
    ipiCount,    \* ipiCount
    pending,     \* pending[c]: Invlpg vector requested at c's LAPIC
    isr,         \* isr[c]: progress of c's HandleNotification
    currentMap,  \* Cpu::currentMap
    cr3,         \* cr3[c]: the map whose page table c's hardware uses
    tlb          \* tlb[c][a]: the translation c has cached for page a

mapVars == <<pt, mapLock>>
ipiVars == <<invl, ipiCount, pending, isr>>
cpuVars == <<currentMap, cr3, entering>>
vars == <<ready, pt, mapLock, tlbLock, pc, op, entering, todo, invl, ipiCount,
          pending, isr, currentMap, cr3, tlb>>

\* Mutant: DistributeInvlpg enters its critical section before it locks.
CriticalBeforeLock == {"run", "leave"}

\* Where a CPU can be interrupted: everywhere outside of critical sections.
NoncriticalPcs == {"run", "lock", "critical", "unlock", "leave"}

\* From acquiring Tlb::lock to releasing it.
TlbLockPcs == {"critical", "publish", "send", "count", "wait", "unlock"}

\* From changing a page table to releasing the lock of its map.
MapLockPcs == {"lock", "leave"} \union TlbLockPcs

\* The request is published and IPIs may be under way.
ShootPcs == {"send", "count", "wait"}

Pcs == {"run", "cr3"} \union MapLockPcs

NoRequest == [start |-> 0, size |-> 0]

\* CPU c runs its own flow of control, not an interrupt handler.
Running(c) == isr[c] = "none"

Noncritical(c) == pc[c] \in NoncriticalPcs /\ Running(c)

Goto(c, label) == pc' = [pc EXCEPT ![c] = label]

\* The system before the Tlb module is initialized.
Init ==
    /\ ready = FALSE
    /\ pt = [m \in Maps |-> [a \in Addrs |-> NoFrame]]
    /\ mapLock = [m \in Maps |-> NoCpu]
    /\ tlbLock = NoCpu
    /\ pc = [c \in Cpus |-> "run"]
    /\ op = [c \in Cpus |-> NoRequest]
    /\ entering = [c \in Cpus |-> Global]
    /\ todo = [c \in Cpus |-> {}]
    /\ invl = NoRequest
    /\ ipiCount = 0
    /\ pending = [c \in Cpus |-> FALSE]
    /\ isr = [c \in Cpus |-> "none"]
    /\ currentMap = [c \in Cpus |-> Global]
    /\ cr3 = [c \in Cpus |-> Global]
    /\ tlb = [c \in Cpus |-> [a \in Addrs |-> NoFrame]]

-----------------------------------------------------------------------------
(* The hardware and the invalidation primitives.                           *)

\* The page walker caches a present entry of the loaded map.
Fill(c, a) ==
    LET f == pt[Owner(cr3[c], a)][a] IN
    /\ f # NoFrame
    /\ tlb[c][a] = NoFrame
    /\ tlb' = [tlb EXCEPT ![c] = [@ EXCEPT ![a] = f]]
    /\ UNCHANGED <<ready, mapVars, tlbLock, pc, op, todo, ipiVars, cpuVars>>

\* What Tlb::Invlpgs leaves of the cache t.  Above the limit it toggles
\* CR4.PGE, which drops everything, or reloads CR3, which keeps global pages.
Invlpgs(t, r) ==
    IF r.size > FlushLimit
      THEN IF r.start + r.size < KernelEnd
             THEN [a \in Addrs |-> NoFrame]
             ELSE KernelPart(t)
      ELSE SetPages(t, r, NoFrame)

\* The module's Initialize(): from here on IsInitialized() holds.
Initialize ==
    /\ ~ready /\ \A c \in Cpus : pc[c] = "run"
    /\ ready' = TRUE
    /\ UNCHANGED <<mapVars, tlbLock, pc, op, todo, ipiVars, cpuVars, tlb>>

-----------------------------------------------------------------------------
(* MemoryMap::Set(), a critical section of two steps.                      *)

WillSetAddressSpace(c, m) ==
    currentMap' = IF ready THEN [currentMap EXCEPT ![c] = m] ELSE currentMap

SetBegin(c, m) ==
    /\ pc[c] = "run"
    /\ Running(c)
    /\ WillSetAddressSpace(c, m)
    /\ entering' = [entering EXCEPT ![c] = m]
    /\ Goto(c, "cr3")
    /\ UNCHANGED <<ready, mapVars, tlbLock, op, todo, ipiVars, cr3, tlb>>

SetCr3(c) ==
    /\ pc[c] = "cr3"
    /\ cr3' = [cr3 EXCEPT ![c] = entering[c]]
    /\ tlb' = [tlb EXCEPT ![c] = KernelPart(@)]
    /\ Goto(c, "run")
    /\ UNCHANGED <<ready, mapVars, tlbLock, op, todo, ipiVars, currentMap,
                   entering>>

-----------------------------------------------------------------------------
(* Operations of GlobalMap and UserMap on the map the CPU is in            *)
(* (PageTable asserts IsSet()).                                            *)

\* CPU c can start an operation on r: r belongs to the map that is set, and
\* the map's lock, which the operation takes, is free.
CanOperate(c, r) ==
    /\ pc[c] = "run"
    /\ Running(c)
    /\ r.start < KernelEnd <=> cr3[c] = Global
    /\ mapLock[cr3[c]] = NoCpu

\* Map(): fresh pages, no flush; the lock is taken and released.
Map(c, r, f) ==
    /\ CanOperate(c, r)
    /\ \A a \in Pages(r) : pt[cr3[c]][a] = NoFrame
    /\ pt' = [pt EXCEPT ![cr3[c]] = SetPages(@, r, f)]
    /\ UNCHANGED <<ready, mapLock, tlbLock, pc, op, todo, ipiVars, cpuVars, tlb>>

\* The page table part of Unmap(), UnmapAndReserve() and MapAt(): the entries
\* are changed under the map's lock, and the CPU goes on to DistributeInvlpg,
\* or, when there is nothing to flush, to releasing the lock.
Change(c, r, f, flush) ==
    /\ CanOperate(c, r)
    /\ mapLock' = [mapLock EXCEPT ![cr3[c]] = c]
    /\ pt' = [pt EXCEPT ![cr3[c]] = SetPages(@, r, f)]
    /\ op' = [op EXCEPT ![c] = r]
    /\ Goto(c, IF flush THEN "lock" ELSE "leave")
    /\ UNCHANGED <<ready, tlbLock, todo, ipiVars, cpuVars, tlb>>

\* Pages that are mapped, or reserved in the table of GlobalMap, whose
\* Unreserve() and Rereserve() flush as well.
Unmap(c, r) == Change(c, r, NoFrame, TRUE)

\* UserMap::MapAt: SetList found an entry in the place of a new one.
Overwrote(c, r) == \E a \in Pages(r) : pt[cr3[c]][a] # NoFrame

\* GlobalMap::MapAt always flushes, UserMap::MapAt if it overwrote an entry.
MapAt(c, r, f) == Change(c, r, f, cr3[c] = Global \/ Overwrote(c, r))

\* The ScopedLock of the map operation goes out of scope.
Leave(c) ==
    /\ pc[c] = "leave"
    /\ Running(c)
    /\ mapLock' = [mapLock EXCEPT ![cr3[c]] = NoCpu]
    /\ op' = [op EXCEPT ![c] = NoRequest]
    /\ Goto(c, "run")
    /\ UNCHANGED <<ready, pt, tlbLock, todo, ipiVars, cpuVars, tlb>>

-----------------------------------------------------------------------------
(* Tlb::DistributeInvlpg.                                                  *)

\* Before initialization only the CPU itself is flushed.
FlushLocal(c) ==
    /\ pc[c] = "lock"
    /\ Running(c)
    /\ ~ready
    /\ tlb' = [tlb EXCEPT ![c] = Invlpgs(@, op[c])]
    /\ Goto(c, "leave")
    /\ UNCHANGED <<ready, mapVars, tlbLock, op, todo, ipiVars, cpuVars>>

\* Mutant: shootdowns are not serialized.
AcquireAlways(c) ==
    /\ pc[c] = "lock"
    /\ ready
    /\ tlbLock' = c
    /\ Goto(c, "critical")
    /\ UNCHANGED <<ready, mapVars, op, todo, ipiVars, cpuVars, tlb>>

\* ScopedLock scope(lock): a NoncriticalLock, waited for with interrupts on.
\* A lock with a queue may grant it while the waiter handles an interrupt.
Acquire(c) ==
    /\ pc[c] = "lock"
    /\ ready
    /\ tlbLock = NoCpu
    /\ tlbLock' = c
    /\ Goto(c, "critical")
    /\ UNCHANGED <<ready, mapVars, op, todo, ipiVars, cpuVars, tlb>>

\* Mutant: the calling CPU forgets its own cache.
FlushSelfNothing(c) ==
    /\ pc[c] = "critical"
    /\ Running(c)
    /\ Goto(c, "publish")
    /\ UNCHANGED <<ready, mapVars, tlbLock, op, todo, ipiVars, cpuVars, tlb>>

\* ScopedCritical critical; Invlpgs(start, size).
FlushSelf(c) ==
    /\ pc[c] = "critical"
    /\ Running(c)
    /\ tlb' = [tlb EXCEPT ![c] = Invlpgs(@, op[c])]
    /\ Goto(c, "publish")
    /\ UNCHANGED <<ready, mapVars, tlbLock, op, todo, ipiVars, cpuVars>>

\* The stores at the head of DistributeKernel and DistributeUser.
Publish(c) ==
    /\ pc[c] = "publish"
    /\ invl' = op[c]
    /\ ipiCount' = 0
    /\ todo' = [todo EXCEPT ![c] = Cpus \ {c}]
    /\ Goto(c, "send")
    /\ UNCHANGED <<ready, mapVars, tlbLock, op, pending, isr, cpuVars, tlb>>

\* Mutant: kernel memory is distributed like user memory.
SkippedByMap(c, d) == currentMap[d] # currentMap[c]

\* Which CPUs the loop passes over: none for kernel memory, those that are
\* not in the sender's map for user memory.
Skipped(c, d) ==
    /\ op[c].start >= KernelEnd
    /\ currentMap[d] # currentMap[c]

Skip(c, d) ==
    /\ pc[c] = "send"
    /\ Skipped(c, d)
    /\ todo' = [todo EXCEPT ![c] = @ \ {d}]
    /\ UNCHANGED <<ready, mapVars, tlbLock, pc, op, ipiVars, cpuVars, tlb>>

SendIpi(c, d) ==
    /\ pc[c] = "send"
    /\ ~Skipped(c, d)
    /\ pending' = [pending EXCEPT ![d] = TRUE]
    /\ todo' = [todo EXCEPT ![c] = @ \ {d}]
    /\ Goto(c, "count")
    /\ UNCHANGED <<ready, mapVars, tlbLock, op, invl, ipiCount, isr, cpuVars, tlb>>

\* Mutant: the count is set instead of incremented.
CountIpiOnce(c) ==
    /\ pc[c] = "count"
    /\ ipiCount' = 1
    /\ Goto(c, "send")
    /\ UNCHANGED <<ready, mapVars, tlbLock, op, todo, invl, pending, isr, cpuVars,
                   tlb>>

CountIpi(c) ==
    /\ pc[c] = "count"
    /\ ipiCount' = ipiCount + 1
    /\ Goto(c, "send")
    /\ UNCHANGED <<ready, mapVars, tlbLock, op, todo, invl, pending, isr, cpuVars,
                   tlb>>

SentAll(c) ==
    /\ pc[c] = "send"
    /\ todo[c] = {}
    /\ Goto(c, "wait")
    /\ UNCHANGED <<ready, mapVars, tlbLock, op, todo, ipiVars, cpuVars, tlb>>

\* while (ipiCount) {} ends, and the critical section with it.
WaitOver(c) ==
    /\ pc[c] = "wait"
    /\ ipiCount = 0
    /\ Goto(c, "unlock")
    /\ UNCHANGED <<ready, mapVars, tlbLock, op, todo, ipiVars, cpuVars, tlb>>

Unlock(c) ==
    /\ pc[c] = "unlock"
    /\ Running(c)
    /\ tlbLock' = NoCpu
    /\ Goto(c, "leave")
    /\ UNCHANGED <<ready, mapVars, op, todo, ipiVars, cpuVars, tlb>>

-----------------------------------------------------------------------------
(* Tlb::HandleNotification, entered through the Invlpg vector.             *)

TakeIpi(c) ==
    /\ Noncritical(c)
    /\ pending[c]
    /\ pending' = [pending EXCEPT ![c] = FALSE]
    /\ isr' = [isr EXCEPT ![c] = "invlpg"]
    /\ UNCHANGED <<ready, mapVars, tlbLock, pc, op, todo, invl, ipiCount, cpuVars,
                   tlb>>

HandleInvlpgs(c) ==
    /\ isr[c] = "invlpg"
    /\ tlb' = [tlb EXCEPT ![c] = Invlpgs(@, invl)]
    /\ isr' = [isr EXCEPT ![c] = "count"]
    /\ UNCHANGED <<ready, mapVars, tlbLock, pc, op, todo, invl, ipiCount, pending,
                   cpuVars>>

HandleCount(c) ==
    /\ isr[c] = "count"
    /\ ipiCount' = ipiCount - 1
    /\ isr' = [isr EXCEPT ![c] = "eoi"]
    /\ UNCHANGED <<ready, mapVars, tlbLock, pc, op, todo, invl, pending, cpuVars,
                   tlb>>

\* SendEoi() and the return from the interrupt.
HandleEoi(c) ==
    /\ isr[c] = "eoi"
    /\ isr' = [isr EXCEPT ![c] = "none"]
    /\ UNCHANGED <<ready, mapVars, tlbLock, pc, op, todo, invl, ipiCount, pending,
                   cpuVars, tlb>>

-----------------------------------------------------------------------------

\* What callers decide to do.
Call(c) ==
    \/ \E m \in Maps : SetBegin(c, m)
    \/ \E r \in Requests, f \in Frames : Map(c, r, f) \/ MapAt(c, r, f)
    \/ \E r \in Requests : Unmap(c, r)

\* The rest of a call that has been made.
Distribute(c) ==
    \/ FlushLocal(c)
    \/ Acquire(c)
    \/ FlushSelf(c)
    \/ Publish(c)
    \/ \E d \in todo[c] : Skip(c, d) \/ SendIpi(c, d)
    \/ CountIpi(c)
    \/ SentAll(c)
    \/ WaitOver(c)
    \/ Unlock(c)

HandleNotification(c) == HandleInvlpgs(c) \/ HandleCount(c) \/ HandleEoi(c)

Next ==
    \/ Initialize
    \/ \E c \in Cpus :
          \/ \E a \in Addrs : Fill(c, a)
          \/ Call(c)
          \/ SetCr3(c)
          \/ Distribute(c)
          \/ Leave(c)
          \/ TakeIpi(c)
          \/ HandleNotification(c)

\* Until the module is initialized one CPU uses the maps, and the others idle in
\* code that they have not left.  It leaves the user maps before the module starts
\* to keep track of them.
IsUnused(c) == pc[c] = "run" /\ cr3[c] = Global /\ tlb[c] = [a \in Addrs |-> NoFrame]
OneUses ==
    /\ \A c, d \in Cpus : IsUnused(c) \/ IsUnused(d) \/ c = d
    /\ ready => \A c \in Cpus : cr3[c] = Global

Step == Next /\ (ready \/ OneUses')

Spec == Init /\ [][Step]_vars

\* A critical section runs to its end.  A flow that interrupts can suspend
\* moves on if it can do so again and again: an interrupt handler does not
\* starve what it interrupts, and a NoncriticalLock, whose implementation is
\* the kernel's, is granted to whoever waits for it.  A pending interrupt is
\* taken if interrupts are on again and again.
Fairness ==
    \A c \in Cpus :
        /\ WF_vars(SetCr3(c))
        /\ WF_vars(HandleNotification(c))
        /\ SF_vars(TakeIpi(c))
        /\ SF_vars(Distribute(c) \/ Leave(c))

FairSpec == Spec /\ Fairness

-----------------------------------------------------------------------------
(* Properties.                                                             *)

Requested == Requests \union {NoRequest}

\* Every variable keeps to its type: locks name a CPU or nobody, a program
\* counter is one of the labels above, a cache maps pages to frames.
TypeOK ==
    /\ ready \in BOOLEAN
    /\ pt \in [Maps -> [Addrs -> Frames \union {NoFrame}]]
    /\ mapLock \in [Maps -> Cpus \union {NoCpu}]
    /\ tlbLock \in Cpus \union {NoCpu}
    /\ pc \in [Cpus -> Pcs]
    /\ op \in [Cpus -> Requested]
    /\ entering \in [Cpus -> Maps]
    /\ todo \in [Cpus -> SUBSET Cpus]
    /\ invl \in Requested
    /\ ipiCount \in Int
    /\ pending \in [Cpus -> BOOLEAN]
    /\ isr \in [Cpus -> {"none", "invlpg", "count", "eoi"}]
    /\ currentMap \in [Cpus -> Maps]
    /\ cr3 \in [Cpus -> Maps]
    /\ tlb \in [Cpus -> [Addrs -> Frames \union {NoFrame}]]

\* c has a cached translation of a that its page table does not give.
Stale(c, a) ==
    tlb[c][a] # NoFrame /\ tlb[c][a] # pt[Owner(cr3[c], a)][a]

\* d has changed page a of map m and has not finished telling the others.
Flushing(d, m, a) ==
    /\ pc[d] \in {"lock", "critical", "publish", "send", "count", "wait"}
    /\ cr3[d] = m
    /\ a \in Pages(op[d])

\* Coherence: once DistributeInvlpg has returned, no CPU has an old
\* translation of the pages it was called for.  The one exception is a CPU
\* inside of Set(), between announcing the new map and loading CR3: it is in
\* a critical section of the kernel and drops its user entries next.
NoStaleTranslation ==
    \A c \in Cpus, a \in Addrs :
        Stale(c, a) => \/ pc[c] = "cr3" /\ a >= KernelEnd
                       \/ \E d \in Cpus : Flushing(d, Owner(cr3[c], a), a)

\* The CPUs that have an Invlpg IPI they have not counted yet.
Outstanding ==
    {c \in Cpus : pending[c] \/ isr[c] \in {"invlpg", "count"}}

\* A LAPIC has one request bit per vector, so a second IPI sent before the
\* first is taken would be lost and the sender would wait forever: the next
\* shootdown never reaches a CPU that still has to count the last one.
NoIpiLost ==
    \A c, d \in Cpus :
        pc[c] = "send" /\ d \in todo[c] => d \notin Outstanding

\* ipiCount is exactly the number of CPUs still to answer, short of the one
\* the sender has signalled and not counted yet, and there is somebody to
\* answer to as long as there is an answer under way.
CountsOutstanding ==
    /\ \A c \in Cpus :
          /\ pc[c] \in {"send", "wait"} => ipiCount = Cardinality(Outstanding)
          /\ pc[c] = "count" => ipiCount + 1 = Cardinality(Outstanding)
    /\ Outstanding # {} => \E c \in Cpus : pc[c] \in ShootPcs

\* Every call of DistributeInvlpg returns: a CPU that waits for the lock keeps
\* answering the shootdown of the CPU that holds it.
DistributeReturns ==
    \A c \in Cpus : pc[c] = "lock" ~> pc[c] = "run"

\* The comment of Tlb::Invlpgs on a range above the limit: "just clear all the
\* caches".  What it leaves behind has no old translation of the range.
InvlpgsClears ==
    \A c \in Cpus :
        pc[c] = "publish" => \A a \in Pages(op[c]) : ~Stale(c, a)

-----------------------------------------------------------------------------
(* The inductive invariant behind NoIpiLost, CountsOutstanding and         *)
(* NoStaleTranslation.                                                     *)

\* Each lock is held by the CPU whose program counter says so, on behalf of a
\* request that belongs to the map this CPU is in.
LockInv ==
    \A c \in Cpus :
        /\ pc[c] \in TlbLockPcs <=> tlbLock = c
        /\ pc[c] \in MapLockPcs =>
               /\ mapLock[cr3[c]] = c
               /\ op[c] \in Requests
               /\ op[c].start < KernelEnd <=> cr3[c] = Global

\* Interrupt handlers run on top of noncritical code only, and a CPU is in the
\* map it announced unless it is inside of Set().  Nothing is announced before
\* the module is initialized.
CpuInv ==
    \A c \in Cpus :
        /\ isr[c] # "none" => pc[c] \in NoncriticalPcs
        /\ currentMap[c] = IF ~ready THEN Global
                           ELSE IF pc[c] = "cr3" THEN entering[c] ELSE cr3[c]

\* Until then there is one CPU to flush, which does it by itself.
BootInv ==
    ~ready => OneUses /\ tlbLock = NoCpu /\ \A c \in Cpus : isr[c] = "none"

\* An answer that is outstanding was asked for by the CPU that is sending or
\* waiting now, which has passed that CPU in its loop.
IpiInv ==
    \A c \in Cpus :
        /\ pending[c] => isr[c] \in {"none", "eoi"}
        /\ c \in Outstanding =>
               \E d \in Cpus : pc[d] \in ShootPcs /\ d # c /\ c \notin todo[d]
        /\ pc[c] \in ShootPcs => invl = op[c] /\ c \notin todo[c]
        /\ pc[c] = "wait" => todo[c] = {}

CountInv ==
    \A c \in Cpus :
        /\ pc[c] \in {"send", "wait"} => ipiCount = Cardinality(Outstanding)
        /\ pc[c] = "count" => ipiCount + 1 = Cardinality(Outstanding)

\* d has yet to see to it that c drops the pages of op[d].
AwaitsFlush(d, c) ==
    \/ pc[d] \in {"lock", "critical"}
    \/ pc[d] = "publish" /\ c # d
    \/ pc[d] \in ShootPcs /\ (c \in todo[d] \/ pending[c] \/ isr[c] = "invlpg")

\* c is going to drop page a before the operation that changed it ends.
FlushAhead(c, a) ==
    \/ pc[c] = "cr3" /\ a >= KernelEnd
    \/ \E d \in Cpus : /\ cr3[d] = Owner(cr3[c], a)
                       /\ a \in Pages(op[d])
                       /\ AwaitsFlush(d, c)

StaleInv == \A c \in Cpus, a \in Addrs : Stale(c, a) => FlushAhead(c, a)

\* No request is a kernel range above the limit that ends at KernelEnd: for
\* such a range Invlpgs reloads CR3, which keeps global pages.
NoLastRange ==
    \A r \in Requests :
        r.start < KernelEnd /\ r.size > FlushLimit => r.start + r.size < KernelEnd

IInv == TypeOK /\ LockInv /\ CpuInv /\ BootInv /\ IpiInv /\ CountInv /\ StaleInv

-----------------------------------------------------------------------------
(* What the callers see: Translation, with a CPU in the map it announces,   *)
(* and its user entries gone as soon as it announced it.                   *)

\* An operation is over when all are flushed; before initialization, when it leaves.
Busy(c) ==
    IF pc[c] \in MapLockPcs \ (IF ready THEN {"unlock", "leave"} ELSE {})
    THEN op[c] ELSE NoRequest

Space(c) == IF pc[c] = "cr3" THEN entering[c] ELSE cr3[c]

View(c) == IF pc[c] = "cr3" THEN KernelPart(tlb[c]) ELSE tlb[c]

Abstract ==
    INSTANCE Translation WITH
        Idle  <- NoRequest,
        space <- [c \in Cpus |-> Space(c)],
        busy  <- [c \in Cpus |-> Busy(c)],
        view  <- [c \in Cpus |-> View(c)]

\* A shootdown behaves like a single operation that ends when no CPU can use
\* an old translation, and entering a map like a single step.
ImplementsTranslation == Abstract!Spec
=============================================================================
