# A TLA+ verification of anarch

anarch is a library that brings up an x86-64 machine for a kernel: it reads the
memory map and the firmware's tables, starts the CPUs, manages kernel and user
address spaces, and gives the kernel timers, interrupts, system calls, allocators
and a console. Its hard parts are the ones in which several CPUs, or a CPU and its
interrupt handlers, work on the same state, and the ones in which a long sequence of
legal calls must keep two data structures in agreement. This project models those
parts in TLA+, checks them with TLC on small instances and proves the most important
results with TLAPS for instances of any size.

Paths below are relative to `src/src/` of the repository; `x64/` stands for
`arch/x64/`.

## Inventory

| Component | State | Operations | Interacts with | What makes it correct |
|---|---|---|---|---|
| `Tlb` (`x64/vmm/tlb.cpp`) | `lock`, `invlAddress`, `invlSize`, `ipiCount`, `Cpu::currentMap`, the TLBs | `WillSetAddressSpace`, `DistributeInvlpg`, `HandleNotification`, `Initialize` | called by every map under the map's lock; IPIs to other CPUs | no CPU uses an old translation after a flush returns; flushes return |
| `GlobalMap`, `PageTable`, `FreeFinder` (`x64/vmm`) | four levels of tables, one cached free region | `Map`, `MapAt`, `Unmap`, `Reserve`, `ReserveAt`, `Unreserve`, `Rereserve`, `UnmapAndReserve` | `Tlb`, the page allocator, `EasyMap` | tables neither leaked nor freed in use; found regions are free; nobody's range is disturbed |
| `UserMap` (`x64/vmm/user`) | page table, `FreeList` | the same, `CopyToKernel`, `CopyFromKernel` | `Tlb`, `FreeList` | a page is given out again only when no CPU has it cached |
| `FreeList` (`x64/vmm/user`) | list of free regions | `Alloc`, `AllocAt`, `Free` | called by `UserMap` under its lock | nothing lost, nothing invented |
| Region lists, `StepAllocator`, `MapSetup`, `BuddyAllocator` (`x64/public`, `x64/pmm`, `x64/vmm/global`) | usable regions, the first free address, boot page tables, two clusters of trees | `Initialize`, `Alloc`, `AllocLower`, `Free`, `Reserve` | the boot loader's memory map | memory counted once; what the boot has taken stays taken |
| `Malloc`, `Allocator`, `EasyMap` (`memory`, `arch/api`) | list of segments, blocks | `Alloc`, `Free`, `Owns`, `AllocAndMap`, `FreeAndUnmap` | `GlobalMap`, `BuddyAllocator` | no overlap, also when a step fails; frames return |
| `Cpu` (`x64/smp`) | mailbox `wakeupFunction`, `wakeupArg`, `wakeupLock`; TSS | `RunAsync`, `HandleWakeup` | IPIs; used by the syscall and timer modules | messages whole, each received |
| `SyscallModule` (`x64/syscall`) | `initCount`, MSRs | `Initialize`, `SetCpuRegisters`, the entry code | `RunAsync` on every CPU | returns, and only when all CPUs are set up |
| `TimerModule` (`x64/timer`) | `calibrated` per CPU | `Initialize`, `CalibrateMethod` | `RunAsync`, the clock, whose tick needs the boot CPU | returns; no calibration overlaps later use |
| `LapicTimer` (`x64/timer`) | `isExpecting`, LAPIC registers | `SetTimeout`, `ClearTimeout`, `GeneralTimerCallback` | LAPIC counter and vector | a timeout fires, and not early |
| ACPI (`x64/acpi`) | pointers to the APIC and HPET tables | search, `LookupIso`, `LookupIOApic`, iteration | `DomainList`, I/O APIC | the right tables, walked exactly to their end |
| `DomainList`, `Domain`, `StartupCode` (`x64/domains`, `x64/smp`) | `initLock`, `initFlag`, trampoline and startup stack in low memory, `count` | `StartCpus`, `BootstrapCpu`, `CpuEntrance`, `CpuStall`, `InitNewCpu` | INIT and STARTUP IPIs, the clock, ACPI | each CPU has the startup stack for itself; all are started |
| Interrupts (`x64/interrupts`) | IDT, `Irt` table, I/O APIC entries, PIC, LAPIC bits | `Set`, `MapIrq`, `MaskIrq`, dispatch, EOI | all drivers | entries whole, a routine for each interrupt, requests served |
| Segments and `State` (`x64/segments`, `x64/state`) | GS bases, TSS stacks, frames | interrupt and syscall entry, `Suspend`, `Resume` | interrupts, syscalls, the kernel's scheduler | own CPU data, free entry stack, matching frames |
| Clocks (`x64/clock`) | `counter`, `currentPit` | `Start`, `Stop`, `GetTicks`, interrupt handler | I/O APIC, `Irt` | ticks advance, late ticks are harmless |
| Panic (`x64/panic`) | `panicCount` | `Panic`, `DistributeError`, `HaltCpu` | IPIs to all CPUs | all CPUs stop |
| Console (`x64/console`, `util/stream.cpp`) | buffer, position, color | `PrintString`, `SetColor` | lock shared by all CPUs | the screen is the end of what was printed |
| Critical sections (`x64/critical`, `util/critical`) | the interrupt flag | `SetCritical`, asserts | everything | asserted contexts hold |

Hard behaviours: unsynchronized reads of other CPUs' `currentMap`; counters that
go up after the message that makes them go down; LAPIC request bits that merge
interrupts; waiting with interrupts off; interrupts that outlive what they were
set for; a shared startup stack; register pairs that are written in two steps;
`swapgs` windows; a cached free region beside the page table it is derived from;
allocations that fail half way. Each is listed, at its line, under `hazards` in
`PROJECT.json`.

## Modules

    AddressSpace <- Translation                 what the maps promise
         ^-------- Tlb <- MCTlb                 shootdown and address spaces
                    ^---- TlbProofs
    PageTable <- GlobalMap <- MCGlobalMap       kernel addresses and page tables
    FreeList <- MCFreeList, FreeListProofs      virtual addresses of a UserMap
    BootMemory <- Heap <- MCHeap, HeapProofs    physical memory, then the heap
    Wakeup <- ModuleInit <- MCModuleInit        RunAsync mailboxes; syscall and timer
                    ^------ ModuleInitProofs    modules, PIT (proofs about both)
    LapicTimer <- MCLapicTimer, LapicTimerProofs
    Acpi <- CpuBoot <- MCCpuBoot, CpuBootProofs         firmware tables, starting CPUs
       ^--- Interrupts <- MCInterrupts, InterruptsProofs    from a line to its routine, panic
    KernelEntry <- MCKernelEntry, KernelEntryProofs     into the kernel and out again
    TextConsole <- MCTextConsole

(`A <- B`: B extends or instantiates A.)  Definitions marked "Mutant" in a comment
are deliberately wrong forms of the definition after them: a property that does not
notice when one replaces the other would say nothing about the code. They are not
used.

**Tlb.** One flow of control per CPU (`pc`), suspended by the Invlpg handler
(`isr`). `SetBegin`/`SetCr3` are the two steps of `Set()`: the announcement in
`currentMap` and the load of CR3. `Map`, `Unmap`, `MapAt` change the table of the
map that is loaded, under its lock (`PageTable` asserts `IsSet()`); `Unmap` stands
for `UnmapAndReserve`, `Unreserve` and `Rereserve` as well, which have the same
effect on translations. The steps of `DistributeInvlpg` are separate actions
wherever another CPU can see the difference. The two loops of `DistributeKernel`
and `DistributeUser` are one, with `Skipped` for their difference, and visit the
CPUs in any order. The hardware is `Fill` (any present entry may be cached at any
time), one request bit per CPU, and global pages for the kernel half, which a
load of CR3 keeps. Eviction from a TLB is left out: it only removes entries.

**Translation** is the abstract specification: a change of a page table begins and
ends, and may end only when no CPU in the map has an old translation; entering
a map is one step. `Tlb!ImplementsTranslation` maps `space` to `currentMap`, and
`view` to the TLB without its user half while a CPU is between the steps of `Set()`.

**FreeList** keeps the linked list as a sequence and the 64-bit arithmetic as
arithmetic modulo `AddrMod`. An end of 0 means the end of the address space. The inner
loop of `Free` that takes up the regions behind is the number of its turns
(`Followers`), each of which is decided by where the one before it has led (`Reach`).

**Wakeup** has one action per store and load of `RunAsync` and `HandleWakeup`. The
fields hold the message they were stored for, so a torn pair shows.

**ModuleInit** composes it with its two users, `SyscallModule::Initialize` and
`TimerModule::Initialize`, which run one after the other in either order: their
own steps are conjoined with those of `Wakeup`, and a stack per CPU says which
function a handler is in. The PIT is one pending bit that only the boot CPU takes,
with its interrupts on; `MicroSleep` counts ticks.

**LapicTimer** separates the two register writes of `Lapic::SetTimeout`, because
the old count may run out between them, and the steps of the handler.

**Acpi** is the parsing of the firmware's tables as operators on a firmware record:
what lies in the BIOS areas, the tables by address, and what is stored behind the end
of each. `CpuBoot` starts from it and `Interrupts` takes its overrides from it.

**CpuBoot** has the boot CPU and the CPUs it starts as separate flows. The boot CPU
finds the tables, counts the usable LAPICs, and visits one entry of the APIC table
after the other. The contents of low memory are two bits: the trampoline is there, the
startup stack has its two words.

**PageTable** has the tables of `PageTable` as values, with any number of levels and
entries, and its methods as operators that return the new tables or say that the code
panics. Slots are numbered as the fractal map numbers them.

**GlobalMap** adds the FreeFinder, the operations of the map, each one step under the
lock, callers that hold one range each, and EasyMap. An operation asserts that the map
is loaded (`IsSet`). `fractal` is what a CPU's TLB has cached of the fractal map: the
tables that its operations touched. `Unset` flushes the address of each table it frees
(`FlushTable`), and the flush reaches the CPUs in the caller's address space
(`IsReached`). `blind` remembers that the FreeFinder has taken a reservation of small
pages, which reads as unmapped, for free: the ranges of two callers may then overlap, and
no property is about what follows.

**BootMemory** follows `GlobalMap::Initialize`: the region lists are filled from the
memory map entry by entry, the StepAllocator takes page tables and the trees of the
two clusters, and `Reserve` tells the BuddyAllocator what is taken. `StepAlloc` states
the loop of `StepAllocator::Alloc` by its outcome, the first region in order that fits,
with `lastAddr` where the loop leaves it, also after a failure. A tree is the set
of its free pages; which aligned block it returns is left open.

**Heap** adds callers on several CPUs: each lock-protected access of `Malloc` and
`Allocator` is a step. A `Free` of a block that is not in the first segment takes no
further step, since the loop in the code does not advance. `Reserve` gives what the
FreeFinder takes for free (`IsFree`), which includes the small pages that another CPU
has reserved and not yet mapped; `twice` remembers that this has happened, and the heap
stops there, since the two CPUs overwrite each other's pages from then on.

**Interrupts** has the module initializations in any order their dependencies allow,
every access to the I/O APIC as a selection and a data step, the request and
in-service bits of each LAPIC, and per CPU what its code does. A CPU may ask the others
for an answer and wait for it with interrupts off (`Ask`, `asked`), as
`Tlb::DistributeInvlpg` and `SyscallModule::Initialize` do. A CPU that has panicked, or
was told to, ends in `halted`.

**KernelEntry** keeps, per CPU, the place in the entry code, both GS bases, the stack
it is on and what the TSS says; per kernel stack the frames on it. A step that would
put a frame on a user stack, or return through one with an error code, goes to
`lost`, and what the CPU does then is not followed. One step does so: the
general-protection fault of `sysret`, at which the stack pointer and GS are those of user
code already.

**TextConsole** prints character by character under the lock, beside a roll of paper
on which the same strings are typed without a screen.

## Runs

| Run | Bounds | Shows |
|---|---|---|
| `shootdown` | 2 CPUs, 1 user map, a kernel range of 2 pages over a limit of 1, a user page, from before `Initialize`, fairness | types, coherence, no merged IPI, exact count, refinement of `Translation`, `DistributeInvlpg` returns |
| `kernel_map` | tables of 3 levels and 3 entries, maps, reservations and EasyMaps of both page sizes, 2 frames for tables, 2 callers, 2 CPUs in 2 spaces, until the finder is `blind` | tables exact, cached region free, ranges undisturbed, EasyMap reaches its memory, no stale fractal entry on either CPU |
| `heap` | 4 memory maps (unsorted, across 4 GB, too small, too many regions), 2 CPUs, room for 2 segments, until addresses are given out `twice` | region lists exact, boot memory kept, kernel mapped, clusters separate, blocks disjoint, segments mapped |
| `unmap_inverse` | the same | **violated**: `FreeAndUnmap` frees the wrong address |
| `leak` | 2 callers, two regions, page sizes 1 and 2 | no address is lost |
| `arena` | the same | **violated**: the list grows past what was freed |
| `init` | 3 CPUs, 2 ticks, nesting of 2, fairness | mailboxes whole, no message without IPI, `initCount` balanced, no message overwritten, no function interrupted by the next, no calibration left, both modules return |
| `timer_fires` | timeouts of 1 to 3, fairness | no timeout is lost, timeouts fire |
| `cpu_boot` | 2 kinds of firmware, 4 CPUs, one not usable, any subset silent, 2 looks per IPI, fairness | right tables, CPUs started one at a time, all of them, and `StartCpus` returns |
| `entry` | 2 CPUs, 2 States, nesting of 2 | GS, entry stacks and frames, with NMIs in the `swapgs` windows and States that move; only a faulting `sysret` loses its CPU |
| `interrupts` | 2 CPUs, 2 pins, the PIT and a driver, fairness | entries never torn, every interrupt has a routine, ticks are served, a panic stops all, those included that wait with interrupts off |
| `console` | 2 CPUs, a screen of 2 by 2, strings of up to 2 characters, 4 lines | the screen is the end of the text and the cursor where the next character goes |

Why the bounds are enough. `shootdown`: one CPU flushes while the other leaves or enters
the map, flushes too, or is interrupted; TLAPS proves the invariants for any number of
CPUs and maps. `kernel_map`: with three entries to a table a table can be empty, partly
and fully used; two callers and the pages of the kernel can enclose a free range from both
sides; two frames hold all the tables that two callers can need, so that they never run
out; two CPUs are in the same space, in different ones, or meet again. The constraint
`Seeing` ends a behaviour where the finder becomes blind. `heap`: four maps reach each
branch of the region lists; memory is short enough that the second page of a segment
fails. `init`: three CPUs let one answer before the boot CPU has sent to the other, and
two ticks let the boot CPU's own sleep overlap the others'. `leak` and `arena` reach every
branch of `AllocInRegion` and `Free`; `MaxEnd` and `MaxRegions` stop the growth that
`arena` shows. `cpu_boot`: table entries of all types and sizes, with junk behind the end
of each table. `entry`: a nested interrupt on each kind of stack, and a State that each
CPU runs in turn. `interrupts`: two CPUs compete for the index register and panic
together, or one panics while the other waits for it; redirection entries name the second
CPU at reset (`ResetDestinations`), the first one being where they are sent later.
`console`: every pair of characters in every cell of a screen, and two scrolls.

Deadlock is checked where the system must go on (`shootdown`, `init`,
`timer_fires`). The others may stop: they end (`cpu_boot`), panic, run into a bound, or
have callers that never ask again.

## Deviations found

Two runs are expected to fail; what they show is described in `PROJECT.json`:

- `arena`: `FreeList::AllocInRegion` (`x64/vmm/user/free-list.cpp:177`) does not
  reduce the size of a region whose front it takes.
- `unmap_inverse`: `Allocator::FreeAndUnmap` (`arch/api/allocator.cpp:71`) frees the
  virtual address of a page.

Further statements are kept in the modules and do not hold; each can be added to the
configuration named:

- `Tlb!InvlpgsClears` (`x64/vmm/tlb.cpp:33`): a large kernel range that ends at
  `KernelEnd` is flushed like user memory, and global pages survive. `MCTlb` with a
  range that ends there.
- `ModuleInit!RegistersSet` (`x64/syscall/module.cpp:72`): `Initialize` may return
  before another CPU has written its registers. `MCModuleInit_init.cfg`.
- `LapicTimer!NotBeforeTimeout` (`x64/timer/lapic-timer.cpp:22`): the callback does not
  run while the timer is still counting. It does: the handler of a stale interrupt, taken
  after the timer was set again, finds it running and nothing requested, and goes on to
  the new callback.
  `MCLapicTimer_fires.cfg`.
- `GlobalMap!ReservedOnce` (`x64/vmm/global/free-finder.cpp:79`): the reservation of a
  small page is an entry that is not present and reads as unmapped, so that
  `UpdateFreeRegion` may count it to a free region and `Alloc` hand it out again.
  `MCGlobalMap_kernel_map.cfg`. The other properties of `GlobalMap` are about the time
  before that.
- `Heap!ReservedOnce`, for the same reason: two CPUs that are both in `AllocAndMap` with
  small pages may get the same addresses. `MCHeap_heap.cfg`. `BlocksDisjoint` and
  `SegmentsMapped` are about the time before that.
- `KernelEntry!NeverLost` (`x64/syscall/handler.s:23`, "verify that RCX is canonical"):
  `sysret` to an address that is not canonical faults in the kernel, on the user's stack
  and with the user's GS. `MCKernelEntry_entry.cfg`. `LostOnlyBySysret` says that nothing
  else leads there.
- `Interrupts!PanicHaltsAll` (`x64/vmm/tlb.cpp:122`, `148`, `x64/syscall/module.cpp:62`):
  a CPU that waits with interrupts off for the answer of one that has stopped never takes
  the IPI of the panic. `MCInterrupts_interrupts.cfg`. It never leaves its loop either,
  which is why `PanicStopsAll` counts it as stopped.
- `GlobalMap::Map` (`x64/vmm/global/global-map.cpp:94`) aligns to the number of pages
  instead of their size; where that gives an address that is not aligned to the page,
  the assertion of `PageTable::Set` stops the kernel, as it does in the model.
- A stream sets its color and prints in two calls (`util/stream.cpp:30`): two streams
  may exchange colors, which is why `console` has one color.
- `Malloc::Free` and `Owns` (`memory/malloc.cpp:37`) do not return for a block outside
  of the first segment.

## Fairness

- Code with interrupts off goes on (weak fairness): nothing preempts it.
- Code with interrupts on goes on if it can again and again (strong fairness):
  interrupt handlers end.
- A lock that is free again and again is granted. The locks are `ansa::Lock`, a
  library outside of this repository; the assumption is its promise.
- A requested interrupt is taken if interrupts are enabled again and again.
- Critical sections of callers end (`SetCritical(false)`, in `LapicTimer`).
- The PIT pulses and the LAPIC counts (`init`, `timer_fires`).
- No caller is assumed to call anything. `interrupts` assumes neither a tick nor a
  panic; `RequestsServed` and `PanicStopsAll` say what follows one.

## Proofs

Each proof module states the inductive invariant of its component as a conjunction of
named parts, proves that every action keeps it, and derives the theorems. The
invariants were checked with TLC on the instance of the component's run first. The
theorems hold for every value of the constants under the assumptions that the modules
name:

| Module | Theorem | Property | Assumptions |
|---|---|---|---|
| `TlbProofs` | `TypeCorrect`, `Invariance`, `Coherence`, `IpiNeverLost`, `CountExact` | `TypeOK`, `IInv`, `NoStaleTranslation`, `NoIpiLost`, `CountsOutstanding` | `NoLastRange` for all but the first |
| | `Implementation` | `ImplementsTranslation` | `NoLastRange` |
| `ModuleInitProofs` | `CallsAreIntact`, `MessagesAreReceived` | `CallsWhatWasSent`, `NoMessageForgotten` of `Wakeup` alone | |
| | `CountIsBalanced`, `NoMessageIsOverwritten`, `NeverNested`, `NoCalibrationIsLeft` | `CountsAreBalanced`, `NoMessageOverwritten`, `NotNested`, `NoCalibrationLeft` | finitely many CPUs |
| | `InitMessagesArrive` | the two of `Wakeup`, for the composition | |
| `LapicTimerProofs` | `TimeoutsAreKept` | `NoTimeoutLost` | |
| `CpuBootProofs` | `NoCpuIsLost`, `OneIsOnStartupStack` | `NoCpuLost`, `OneOnStartupStack` | |
| | `TablesAreFound`, `AllAreStarted` | `TablesFound`, `AllStarted` | `FirmwareAssumption` |
| `KernelEntryProofs` | `GsIsAlwaysOwn`, `EntryStackIsFree`, `IsLostOnlyBySysret` | `GsIsOwn`, `EntryStackFree`, `LostOnlyBySysret` | `StackAssumption`, `GsAssumption`: names differ |
| `InterruptsProofs` | `EntriesAreIntact`, `InterruptsAreHandled` | `RedirectionIntact`, `AlwaysHandled` | `PinAssumption`, `ResetAssumption` |
| `HeapProofs` | `KernelIsMapped`, `ClustersAreSeparate`, `BlocksAreDisjoint`, `SegmentsAreMapped` | `KernelStaysMapped`, `ClustersSeparate`, `BlocksDisjoint`, `SegmentsMapped` | `SizeAssumption`, `MapAssumption`, `HeapAssumption` |
| | `RegionsAreExact`, `BootMemoryIsKept` | `RegionsExact`, `BootMemoryKept` | the same |
| `FreeListProofs` | `NothingLeaks` | `NoLeak` | `ModAssumption`, `RequestAssumption`, `ArenaAssumption` |

`NoLastRange` says that no kernel range above the limit ends exactly at `KernelEnd`:
the code needs it, see above. `FirmwareAssumption` says that the firmware has done its
part: the first root pointer whose bytes add up leads to a root that lists the APIC table
and the HPET table, if there is one, once, and the entries of the APIC table add up to its
length and list every usable CPU once. It allows any other junk, before, between and
behind. `MapAssumption` says that usable entries of the memory map are not empty and do
not overlap; they may come in any order. `SizeAssumption` has page sizes, a page of more
than one unit among them: `StepAllocator` falls back to the last byte of a region, which
must not be a page. `RequestAssumption` is what the constructor of `FreeList::Region`
asserts, that a request does not run past the end of the address space; `ArenaAssumption`
says the same of the regions that `UserMap` frees. `MaxEnd` stays a bound in the proof: no
allocation begins once a region might have grown beyond it (see `arena`), and it is any
number below `AddrMod`.
`PinAssumption` says that the two lines lead to different pins of an I/O APIC that the
table lists. The theorems about `Tlb`, like its run, begin before `Initialize`; until the
module is initialized one CPU uses the maps (`OneUses`, see "Abstractions").

**Tlb.** Coherence is not inductive: it says that somebody is flushing, not that the
flush will reach this CPU. `IInv` adds who holds which lock and where (`LockInv`), that
handlers run on noncritical code only and `currentMap` is right outside of `Set()`
(`CpuInv`), that outstanding IPIs belong to the one CPU that is sending or waiting
and to its request (`IpiInv`), the count (`CountInv`), and for each stale
translation a step that is still ahead and will drop it (`StaleInv`): the CPU has
not been visited by the loop, has the IPI pending, or is about to handle it. A CPU
that the loop passes over is in another map or between the steps of `Set()`, and
then its user entries go with the load of CR3. The refinement takes the same
invariant: one lemma per kind of step shows that it is a step of `Translation` or
none, and the step that ends a shootdown is where coherence is used. Before
`Initialize` there is no shootdown, and `BootInv` takes its place: one CPU uses the
maps, nobody holds `Tlb::lock`, no IPI is sent and no handler runs, so that the local
flush of that CPU reaches every TLB that can be stale.

**Wakeup, ModuleInit.** The invariant of `Wakeup` says who is inside of which mailbox,
that the two fields belong together unless a sender is between its stores, that what
the handler has loaded agrees with them, and that nobody looks at a mailbox nothing was
stored in, which is why the uninitialized fields are never called. `ModuleInitProofs`
adds which messages the current module has sent, that each is on its way in exactly one
form (`Letter`), and how far the function of each CPU is; the counter is then a
difference of cardinalities of sets that these parts determine.

**LapicTimer.** The relation between the program counter, the service bit and the mask.

**CpuBoot.** Only the CPU that `BootstrapCpu` is starting does anything (`TargetInv`),
and it answers before it is given up (`AnswerInv`). That all are started needs the walk
over the table as well: the iterator's bytes are those behind the entry it is at
(`WalkInv`), and the CPUs of the entries it has passed are done (`VisitInv`). That the
table is the right one follows from what `FindAcpi` and the root's loop choose: the
first pointer that adds up, and the only table of the name.

**KernelEntry.** For every place in the entry and exit code: what is on the stack of the
CPU and of its State, where the frame below an NMI returns to, and what GS is, which
for an NMI in a `swapgs` window depends on the place it interrupted. `lost` is one of the
places: a CPU gets there only from `sysret`, keeps its State and is left alone, and the
others, whose States and stacks are their own, are not disturbed.

**Interrupts.** What a CPU has yet to write to the I/O APIC while it holds one or both
locks (`LockInv`, `WriteInv`), that an entry that is not masked belongs to a line whose
routine is set, and for each CPU that an interrupt it can take, now or after the code it
is in, has gates and a routine (`HandledInv`). The vector of the TLB is requested only
when its routine is set, since only a CPU that finds the module initialized asks.

**BootMemory, Heap.** The page directories are full but the last one, and
`firstUnmapped` is the frame of the entry that is next (`MapInv`); what the
BuddyAllocator has handed out lies on one side of `LowerEnd` (`BuddyInv`).
`SegmentsMapped` is not inductive because of failures: while `FreeAndUnmap` takes the
pages of a failed segment down one by one, other CPUs may reserve those already given
back. `MemoryInv` therefore says which pages each CPU still holds (`Live`), that they
are mapped up to `dest` and reserved behind it, and that no two CPUs and no linked
segment share one. All of this is said as long as not `twice`: a step of `Reserve` that
gives a CPU what another has yet to map is the one that ends it, and any other takes pages
that nobody holds. Disjoint blocks need it too, since two blocks of different segments
are apart only if the segments are. It also shows that a large page is never taken down.

`RegionsExact`, which is about memory from `LowMemory` up, follows from what holds after
each entry of the memory map (`RegionInv`): both lists are sorted, and the addresses of
their regions are those of the stretched entries that were read. `BootMemoryKept` seems to
follow from `lastAddr` being behind all that was taken (`Behind`), but that is not an
invariant: an attempt to take a large page that fails leaves `lastAddr` at the last byte
of the last region, which may be before the end of the range that was taken last.
`StepInv` therefore has the case that the allocator is stuck there (`Stuck`), only while
small pages are about to be tried instead, and then the first of them is not found either
and the boot panics. `GivenInv` adds that the pages of the BuddyAllocator are behind
`lastAddr`.

**FreeList.** The list is neither sorted nor free of overlaps, since a region keeps its
size when its front is taken; an invariant that says so would be false. `ListInv` says
that no region wraps around the end of the address space, which the arithmetic of `Free`
and `AllocInRegion` needs, and that every address of the arena lies in a region of the
list or with a caller. In the merging branch of `Free` an address of a region that
disappears must lie in the one that has grown: were there one that does not, a first
one would exist among the regions taken up, and the one before it reaches up to it.

Only model-checked:

- liveness and fairness, which are out of the prover's reach;
- `GlobalMap` (five invariants): setting, clearing and freeing of tables are recursive
  functions over the depth of the tables and the length of a list, and what such a
  function computes needs induction over data, which the prover does not have;
- `ScreenIsWindow` of `TextConsole`: the paper is a fold over the characters of a string.

## Abstractions and assumptions

- In `Tlb` page tables are flat; `GlobalMap` has the levels and not the interleaving of
  flushes. A map operation changes all entries of its range in one step: it holds the
  map's lock, and a CPU may cache old or new entries before the flush either way.
- Deciding whether to send an IPI and sending it is one step. The check reads
  `currentMap` of the other CPU, which only that CPU writes; a later send to a CPU
  that has left is a superfluous flush.
- While `Tlb` is not initialized only one CPU uses the maps, and it is in no user map
  when `Initialize` runs. The code does not enforce this: `Tlb` depends on
  `DomainList`, which has started the other CPUs before, and a flush in between reaches
  the calling CPU only.
- Stores of one CPU are seen in order (x86 and locked instructions).
- A kernel task is not moved to another CPU, nor another one run in its place, in
  the middle of a map operation.
- In `CpuBoot` a CPU that answers reports within the 400 ms of `BootstrapCpu`, and
  one that is not usable does not answer. A late CPU would share the startup stack
  with the next one; what happens then is undefined. The firmware lists a CPU once.
- In `LapicTimer` timeouts are positive: a count of zero stops the counter.
- In `GlobalMap` callers release what they hold, with the page size it has, and place
  ranges only where nobody else is.
- In `Tlb` a `Map` finds unmapped pages. `UserMap::Map` (`x64/vmm/user/user-map.cpp:93`)
  does not check this; it takes them from the `FreeList`, which `arena` shows may hand
  out addresses that it should not. `MapAt` covers pages that are mapped.
- In `BootMemory` the attempts of `BuddyAllocator::Alloc` at the two clusters, each under
  its own lock, are one step (`AllFits`), and the memory map lies below 1 MB, as the panic
  of `x64/public/multiboot-region-list.cpp:14` demands.
- In the run `init` only the boot CPU sends messages, as in the code; that two senders do
  not mix theirs is shown by the theorems about `Wakeup` alone.
- In `Interrupts` the two reads of `currentPit` (`x64/clock/pit.cpp:71`) are one step, and
  so are the IPIs of `Ask`, which `Tlb` has one by one. `hlt` is for good: `Panic` has it
  in no loop (`x64/panic/panic.cpp:35`, `46`), and an NMI would wake the CPU.
  A CPU panics while it holds no lock that others wait for with interrupts off.
- In `Interrupts` ACPI comes before the local APIC, which does not list it as a
  dependency, and redirection entries are masked at reset.
- In `KernelEntry` NMIs and machine checks come one at a time and while a State runs:
  they share a stack with the functions of the CPU, and the code has no defence.
- In `TextConsole` nobody prints a backspace at the left edge of the top line. Where a
  backspace at the left edge of another line goes, the paper takes from the same operator
  as the console (`LastUsed`): that choice is not checked, what follows from it is.

## Not modelled

- Encodings of descriptors, of the FPU area and of the bytes of firmware entries; the
  rational arithmetic of clock frequencies; number formatting; argument access of
  system calls: no state changes that an interleaving could disturb.
- `UserMap::CopyToKernel` and `CopyFromKernel`, which need the faults of user memory,
  and the destructors of `UserMap`, `PageTable` and `Malloc`, which nothing in the
  repository calls.
- `Allocator::AllocAndMapContiguous` and `FreeAndUnmapContiguous`, for architectures
  without placement; this one has it.
- The order of initialization itself, the buddy trees, locks and lists of `ansa` and
  `analloc`: libraries outside of the repository, marked external where they are used.
- `api` headers and public forwarding functions, which only call what is modelled.

## Plan

What is left: `GlobalMap` with its tables as functions of the slots in place of recursive
walks, so that `TablesExact` and `MappingsIntact` can be proved; `ScreenIsWindow` with the
paper as a state variable that each character is added to.
