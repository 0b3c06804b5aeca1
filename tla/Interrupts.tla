------------------------------ MODULE Interrupts ------------------------------
(***************************************************************************)
(* From an interrupt line to its routine, and the interrupt that stops all *)
(* CPUs: the legacy PIC (pic.cpp), the redirection table of the I/O APIC   *)
(* (ioapic.cpp), the request and in-service bits of the local APICs, the   *)
(* routine table (irt.cpp, isr.cpp), the PIT that uses them (pit.cpp), a   *)
(* driver that does so too, PanicModule (panic.cpp), and a CPU that waits  *)
(* with interrupts off for the answers of others (tlb.cpp).                *)
(*                                                                         *)
(* Modules are initialized by the boot CPU in any order that their         *)
(* dependencies allow, with ACPI before the local APIC; the entries of the *)
(* I/O APIC are masked at reset and hold anything else.                    *)
(***************************************************************************)
EXTENDS Acpi

CONSTANTS
    Cpus,
    Boot,      \* the CPU whose APIC ID is zero
    NoCpu,
    Pins,
    ResetDestinations,  \* the CPUs that an entry may name at reset
    Madt,      \* the APIC table
    DriverIrq  \* the line of a driver

ASSUME CpuAssumption == Boot \in Cpus /\ NoCpu \notin Cpus /\ IsFiniteSet(Cpus)
ASSUME ResetAssumption == ResetDestinations \subseteq Cpus

VARIABLES
    ready,      \* initialized modules
    picBase,    \* first vector of the PIC
    idt,        \* what the gates lead to: "none", "pic" or "isr"
    routines,   \* vectors with a routine in the Irt
    low, high,  \* the words of each redirection entry
    sel,        \* selected register of the I/O APIC
    regLock,    \* holder of IOApic::lock
    tableLock,  \* holder of IOApic::tableLock
    pit,        \* currentPit is set
    panics,     \* panicCount
    irr, isr,   \* requested and in-service vectors of each local APIC
    asked,      \* CPUs that have yet to answer the one that waits (ipiCount)
    cpu,        \* what each CPU does; saved is where its interrupt returns to
    want        \* the entry of each pin after its last operation

ioVars   == <<low, high, sel, regLock, tableLock, want>>
bootVars == <<ready, picBase, idt>>
apicVars == <<irr, isr, asked>>
vars     == <<bootVars, routines, ioVars, pit, panics, apicVars, cpu>>

Pit        == 32
Invlpg     == 34
Driver     == 48
PanicIpi   == 239
PicVectors == 240
Spurious   == 255

PitIrq == 0

-----------------------------------------------------------------------------
(* The modules and their dependencies.                                     *)

Deps == [pic      |-> {},
         irt      |-> {},
         critical |-> {"irt", "pic"},
         ioapic   |-> {"critical"},
         lapic    |-> {},
         clock    |-> {"irt", "ioapic", "lapic"},
         domains  |-> {"critical", "irt", "ioapic", "lapic", "clock"},
         tlb      |-> {"irt", "lapic", "domains"},
         panic    |-> {"irt", "lapic", "domains"}]
Modules == DOMAIN Deps

Entry(masked, vector, flags) == [masked |-> masked, vector |-> vector, flags |-> flags]
MaskedEntry == Entry(TRUE, 0, 0)
Unwritten   == Entry(TRUE, 8, 0)

Init ==
    /\ ready = {}
    /\ picBase = 8
    /\ idt = "none"
    /\ routines = {}
    /\ low = [p \in Pins |-> Unwritten]
    /\ high \in {[p \in Pins |-> c] : c \in ResetDestinations}
    /\ sel = <<"version", 0>>
    /\ regLock = NoCpu /\ tableLock = NoCpu
    /\ pit = FALSE /\ panics = 0
    /\ irr = [c \in Cpus |-> {}] /\ isr = [c \in Cpus |-> {}] /\ asked = {}
    /\ cpu = [c \in Cpus |-> [pc |-> "idle", critical |-> TRUE, todo |-> <<>>,
                              next |-> "idle", saved |-> "idle", vector |-> 0]]
    /\ want = low

Runs(c) == c = Boot \/ "domains" \in ready
IsFree(c) == cpu[c].pc = "idle" /\ Runs(c)

Goto(c, pc) == cpu' = [cpu EXCEPT ![c].pc = pc]

-----------------------------------------------------------------------------
(* The I/O APIC.  An operation is a sequence of register writes that a CPU *)
(* makes in a critical section; the table lock is held over those of one   *)
(* entry, the register lock over the selection and the access.             *)

\* The interrupt source overrides of the lines that are used.
Isos == [irq \in {PitIrq, Pit, DriverIrq} |-> LookupIso(Madt, irq)]

Pin(irq) == IF Isos[irq] = <<>> THEN irq ELSE Isos[irq][1].interrupt

\* The I/O APIC has the two lines that are used, on pins of their own.
ASSUME PinAssumption ==
    /\ DriverIrq # PitIrq /\ Pin(PitIrq) # Pin(DriverIrq)
    /\ {Pin(PitIrq), Pin(DriverIrq)} \subseteq Pins
    /\ LookupIOApic(Madt, 0) # <<>>

\* The polarity and the trigger mode of an entry: any override of them sets its bit.
Flags(irq) ==
    IF Isos[irq] = <<>> THEN 0
    ELSE LET flags == Isos[irq][1].flags IN
         (IF flags % 4 # 0 THEN 1 ELSE 0) + (IF (flags \div 4) % 4 # 0 THEN 2 ELSE 0)

Write(word, pin, value) == [reg |-> <<word, pin>>, value |-> value]

\* SetEntry: every entry names the APIC ID zero as its destination.
EntryWrites(pin, entry) ==
    <<Write("low", pin, MaskedEntry), Write("high", pin, Boot), Write("low", pin, entry)>>

\* Begins an operation on the table in a critical section, and goes on at next.
Operate(c, writes, next) ==
    cpu' = [cpu EXCEPT ![c].pc = "table", ![c].critical = TRUE, ![c].todo = writes,
                       ![c].next = next]

MapIrq(c, irq, vector, next) ==
    Operate(c, EntryWrites(Pin(irq), Entry(FALSE, vector, Flags(irq))), next)

MaskPin(c, pin, next) == Operate(c, <<Write("low", pin, MaskedEntry)>>, next)
MaskIrq(c, irq, next) == MaskPin(c, Pin(irq), next)

SeizeTable(c) ==
    LET last == cpu[c].todo[Len(cpu[c].todo)] IN
    /\ cpu[c].pc = "table" /\ tableLock = NoCpu
    /\ tableLock' = c
    /\ want' = IF last.reg[2] \in Pins THEN [want EXCEPT ![last.reg[2]] = last.value]
               ELSE want
    /\ Goto(c, "reg")
    /\ UNCHANGED <<bootVars, routines, low, high, sel, regLock, pit, panics, apicVars>>

\* Mutant: the register lock is not taken.
CanSelectAlways(c) == TRUE

CanSelect(c) == regLock = NoCpu

Select(c) ==
    /\ cpu[c].pc = "reg" /\ CanSelect(c)
    /\ regLock' = c
    /\ sel' = Head(cpu[c].todo).reg
    /\ Goto(c, "data")
    /\ UNCHANGED <<bootVars, routines, low, high, tableLock, want, pit, panics, apicVars>>

\* The data register; a pin past the last one has none.
Stored(words, word, value) ==
    IF sel[1] = word /\ sel[2] \in Pins THEN [words EXCEPT ![sel[2]] = value] ELSE words

Access(c) ==
    LET w == Head(cpu[c].todo)
        rest == Tail(cpu[c].todo)
    IN  /\ cpu[c].pc = "data"
        /\ regLock' = NoCpu
        /\ IF w.reg[1] = "version" THEN UNCHANGED <<low, high>>
           ELSE low' = Stored(low, "low", w.value) /\ high' = Stored(high, "high", w.value)
        /\ tableLock' = IF rest = <<>> /\ tableLock = c THEN NoCpu ELSE tableLock
        /\ cpu' = [cpu EXCEPT ![c].todo = rest,
                              ![c].pc = IF rest = <<>> THEN cpu[c].next ELSE "reg",
                              ![c].next = IF rest = <<>> THEN "idle" ELSE @,
                              ![c].critical = rest # <<>>]
        /\ UNCHANGED <<bootVars, routines, sel, want, pit, panics, apicVars>>

\* GetVersion and GetPinCount, without the table lock.
ReadReg(c) ==
    /\ IsFree(c) /\ "ioapic" \in ready
    /\ cpu' = [cpu EXCEPT ![c].pc = "reg", ![c].critical = TRUE,
                          ![c].todo = <<Write("version", 0, 0)>>, ![c].next = "idle"]
    /\ UNCHANGED <<bootVars, routines, ioVars, pit, panics, apicVars>>

-----------------------------------------------------------------------------
(* Drivers.                                                                *)

\* Pit::Start up to the redirection entry.
Start(c) ==
    /\ pit' = TRUE
    /\ routines' = routines \union {Pit}
    /\ Goto(c, "pitMap")

StartPit(c) ==
    /\ IsFree(c) /\ {"clock", "domains"} \subseteq ready /\ Pit \in routines /\ ~pit
    /\ Start(c)
    /\ UNCHANGED <<bootVars, ioVars, panics, apicVars>>

PitMap(c) ==
    /\ cpu[c].pc = "pitMap"
    /\ MapIrq(c, PitIrq, Pit, IF "clock" \in ready THEN "idle" ELSE "clockDone")
    /\ UNCHANGED <<bootVars, routines, ioVars, pit, panics, apicVars>>

\* Mutant: the routine is removed.
StopUnset(c) ==
    /\ pit' = FALSE
    /\ routines' = routines \ {Pit}
    /\ Goto(c, "pitMask")

\* Pit::Stop leaves the routine, for interrupts that are still pending.
Stop(c) ==
    /\ pit' = FALSE
    /\ Goto(c, "pitMask")
    /\ UNCHANGED routines

StopPit(c) ==
    /\ IsFree(c) /\ "domains" \in ready /\ pit
    /\ Stop(c)
    /\ UNCHANGED <<bootVars, ioVars, panics, apicVars>>

\* It masks the IRQ whose number is the vector.
PitMask(c) ==
    /\ cpu[c].pc = "pitMask"
    /\ MaskIrq(c, Pit, "idle")
    /\ UNCHANGED <<bootVars, routines, ioVars, pit, panics, apicVars>>

\* Another driver sets its routine, and maps and masks its line.
MapDriver(c) ==
    /\ IsFree(c) /\ "domains" \in ready
    /\ routines' = routines \union {Driver}
    /\ MapIrq(c, DriverIrq, Driver, "idle")
    /\ UNCHANGED <<bootVars, ioVars, pit, panics, apicVars>>

MaskDriver(c) ==
    /\ IsFree(c) /\ Driver \in routines
    /\ MaskIrq(c, DriverIrq, "idle")
    /\ UNCHANGED <<bootVars, routines, ioVars, pit, panics, apicVars>>

-----------------------------------------------------------------------------
(* Initialization.                                                         *)

\* Pic::Initialize: vectors that isr.cpp takes for spurious, every line masked.
Remap == picBase' = PicVectors

CanInitialize(m) == cpu[Boot].pc = "idle" /\ m \notin ready /\ Deps[m] \subseteq ready

InitializePic ==
    /\ CanInitialize("pic")
    /\ Remap
    /\ ready' = ready \union {"pic"}
    /\ UNCHANGED <<idt, routines, ioVars, pit, panics, apicVars, cpu>>

\* Irt::Initialize loads the table, whose gates are not present yet.
InitializeIrt ==
    /\ CanInitialize("irt")
    /\ ready' = ready \union {"irt"}
    /\ UNCHANGED <<picBase, idt, routines, ioVars, pit, panics, apicVars, cpu>>

\* What all the gates lead to: RawPicEoiIsr, and the entries of isr.cpp.
ConfigurePicEoi == idt' = "pic"
Configure       == idt' = "isr"

\* CriticalModule::Initialize: a window for what the PIC has left, then the table.
OpenWindow ==
    /\ CanInitialize("critical")
    /\ ConfigurePicEoi
    /\ cpu' = [cpu EXCEPT ![Boot].pc = "window", ![Boot].critical = FALSE]
    /\ UNCHANGED <<ready, picBase, routines, ioVars, pit, panics, apicVars>>

CloseWindow ==
    /\ cpu[Boot].pc = "window"
    /\ Configure
    /\ ready' = ready \union {"critical"}
    /\ Goto(Boot, "idle")
    /\ UNCHANGED <<picBase, routines, ioVars, pit, panics, apicVars>>

\* IOApicModule::Initialize masks one pin after the other; it panics without an
\* I/O APIC for the first line.
InitializeIOApic ==
    /\ CanInitialize("ioapic")
    /\ Goto(Boot, IF LookupIOApic(Madt, 0) = <<>> THEN "unhandled" ELSE "maskPins")
    /\ UNCHANGED <<bootVars, routines, ioVars, pit, panics, apicVars>>

MaskPins ==
    LET left == {p \in Pins : low[p] # MaskedEntry} IN
    /\ cpu[Boot].pc = "maskPins"
    /\ IF left # {} THEN MaskPin(Boot, Min(left), "maskPins") /\ UNCHANGED ready
       ELSE Goto(Boot, "idle") /\ ready' = ready \union {"ioapic"}
    /\ UNCHANGED <<picBase, idt, routines, ioVars, pit, panics, apicVars>>

\* LapicModule::Initialize: from here on the APIC takes requests.
InitializeLapic ==
    /\ CanInitialize("lapic")
    /\ ready' = ready \union {"lapic"}
    /\ UNCHANGED <<picBase, idt, routines, ioVars, pit, panics, apicVars, cpu>>

\* Hpet::Start: a counter that needs no interrupt.
StartHpet == ready' = ready \union {"clock"} /\ UNCHANGED <<routines, pit, cpu>>

\* ClockModule::Initialize: an HPET or the PIT.
InitializeClock ==
    /\ CanInitialize("clock")
    /\ \/ StartHpet
       \/ Start(Boot) /\ UNCHANGED ready
    /\ UNCHANGED <<picBase, idt, ioVars, panics, apicVars>>

ClockDone ==
    /\ cpu[Boot].pc = "clockDone"
    /\ ready' = ready \union {"clock"}
    /\ Goto(Boot, "idle")
    /\ UNCHANGED <<picBase, idt, routines, ioVars, pit, panics, apicVars>>

\* DomainList::Initialize, which is the subject of CpuBoot.
InitializeDomains ==
    /\ CanInitialize("domains")
    /\ ready' = ready \union {"domains"}
    /\ cpu' = [c \in Cpus |-> [cpu[c] EXCEPT !.critical = FALSE]]
    /\ UNCHANGED <<picBase, idt, routines, ioVars, pit, panics, apicVars>>

InitializeTlb ==
    /\ CanInitialize("tlb")
    /\ routines' = routines \union {Invlpg}
    /\ ready' = ready \union {"tlb"}
    /\ UNCHANGED <<picBase, idt, ioVars, pit, panics, apicVars, cpu>>

InitializePanic ==
    /\ CanInitialize("panic")
    /\ routines' = routines \union {PanicIpi}
    /\ ready' = ready \union {"panic"}
    /\ UNCHANGED <<picBase, idt, ioVars, pit, panics, apicVars, cpu>>

-----------------------------------------------------------------------------
(* Interrupts.                                                             *)

\* A line is raised.  A request that is still there absorbs the new one.
Raise(irq) ==
    LET e == low[Pin(irq)]
        c == high[Pin(irq)]
    IN  /\ "lapic" \in ready /\ ~e.masked /\ e.vector \notin irr[c]
        /\ irr' = [irr EXCEPT ![c] = @ \union {e.vector}]
        /\ UNCHANGED <<bootVars, routines, ioVars, pit, panics, isr, asked, cpu>>

Interruptible(c) ==
    Runs(c) /\ ~cpu[c].critical /\ cpu[c].pc \in {"idle", "window", "pitMap", "pitMask",
                                                  "maskPins", "clockDone"}

Vector(c, v) ==
    cpu' = [cpu EXCEPT ![c].pc = "isr", ![c].saved = cpu[c].pc, ![c].vector = v,
                       ![c].critical = TRUE]

\* The request with the highest priority, if its class is above those in service.
TakeInterrupt(c) ==
    LET v == Max(irr[c]) IN
    /\ Interruptible(c) /\ irr[c] # {}
    /\ \A w \in isr[c] : w \div 16 < v \div 16
    /\ irr' = [irr EXCEPT ![c] = @ \ {v}]
    /\ isr' = [isr EXCEPT ![c] = @ \union {v}]
    /\ Vector(c, v)
    /\ UNCHANGED <<bootVars, routines, ioVars, pit, panics, asked>>

\* Spurious interrupts of the PIC and of the local APIC leave no bit in service.
TakeSpurious(c) ==
    /\ Interruptible(c)
    /\ \/ c = Boot /\ Vector(c, picBase + 7)
       \/ "lapic" \in ready /\ Vector(c, Spurious)
    /\ UNCHANGED <<bootVars, routines, ioVars, pit, panics, apicVars>>

\* InterruptPicEoi, or InterruptCoded and InterruptNonCoded up to the routine.
Handler(v) ==
    CASE idt = "none"     -> "lost"
      [] idt = "pic"      -> "iret"
      [] v \in routines   -> IF v = PanicIpi THEN "haltCpu" ELSE "routine"
      [] v >= PicVectors  -> "iret"
      [] OTHER            -> "unhandled"

\* Goes on with the interrupt; the vector matters to the routine only.
Handle(c, pc, v) == cpu' = [cpu EXCEPT ![c].pc = pc, ![c].vector = v]

Isr(c) ==
    LET v == cpu[c].vector IN
    /\ cpu[c].pc = "isr"
    /\ Handle(c, Handler(v), IF Handler(v) = "routine" THEN v ELSE 0)
    /\ UNCHANGED <<bootVars, routines, ioVars, pit, panics, apicVars>>

\* Lapic::SendEoi ends the interrupt in service with the highest priority.
SendEoi(c) == isr' = [isr EXCEPT ![c] = IF @ = {} THEN @ ELSE @ \ {Max(@)}]

\* Mutant: without a current PIT the handler returns at once.
RoutineUnlessStopped(c) ==
    IF cpu[c].vector = Pit /\ ~pit THEN UNCHANGED isr ELSE SendEoi(c)

\* Pit::InterruptHandler, whether or not there is a PIT to count for.
RoutineEoi(c) == SendEoi(c)

\* Tlb::HandleNotification answers, every routine ends with its EOI.
Routine(c) ==
    /\ cpu[c].pc = "routine"
    /\ asked' = IF cpu[c].vector = Invlpg THEN asked \ {c} ELSE asked
    /\ RoutineEoi(c)
    /\ Handle(c, "iret", 0)
    /\ UNCHANGED <<bootVars, routines, ioVars, pit, panics, irr>>

Iret(c) ==
    /\ cpu[c].pc = "iret"
    /\ cpu' = [cpu EXCEPT ![c].pc = cpu[c].saved, ![c].critical = FALSE, ![c].saved = "idle"]
    /\ UNCHANGED <<bootVars, routines, ioVars, pit, panics, apicVars>>

-----------------------------------------------------------------------------
(* Waiting for the answers of other CPUs.                                  *)

\* Tlb::DistributeInvlpg, which is the subject of Tlb: under Tlb::lock, with
\* interrupts off.  SyscallModule::Initialize waits in the same way.
Ask(c) ==
    /\ IsFree(c) /\ "tlb" \in ready /\ \A d \in Cpus : cpu[d].pc # "wait"
    /\ asked' = Cpus \ {c}
    /\ irr' = [d \in Cpus |-> IF d = c THEN irr[d] ELSE irr[d] \union {Invlpg}]
    /\ cpu' = [cpu EXCEPT ![c].pc = "wait", ![c].critical = TRUE]
    /\ UNCHANGED <<bootVars, routines, ioVars, pit, panics, isr>>

Answered(c) ==
    /\ cpu[c].pc = "wait" /\ asked = {}
    /\ cpu' = [cpu EXCEPT ![c].pc = "idle", ![c].critical = FALSE]
    /\ UNCHANGED <<bootVars, routines, ioVars, pit, panics, apicVars>>

-----------------------------------------------------------------------------
(* Panic.                                                                  *)

\* Mutant: the loop over the CPUs skips the first one instead of the current one.
OthersButFirst(c) == Cpus \ {Boot}

\* DistributeError, if PanicModule is initialized.
Others(c) == Cpus \ {c}

\* Panic: interrupts off, and only the first CPU goes on.
Panic(c) ==
    /\ IsFree(c) \/ cpu[c].pc = "unhandled"
    /\ panics' = panics + 1
    /\ cpu' = [cpu EXCEPT ![c].pc = IF panics > 0 THEN "halted" ELSE "send",
                          ![c].critical = TRUE,
                          ![c].todo = IF "panic" \in ready THEN SetToSeq(Others(c)) ELSE <<>>]
    /\ UNCHANGED <<bootVars, routines, ioVars, pit, apicVars>>

SendPanic(c) ==
    /\ cpu[c].pc = "send"
    /\ IF cpu[c].todo = <<>> THEN Goto(c, "halted") /\ UNCHANGED irr
       ELSE /\ irr' = [irr EXCEPT ![Head(cpu[c].todo)] = @ \union {PanicIpi}]
            /\ cpu' = [cpu EXCEPT ![c].todo = Tail(@)]
    /\ UNCHANGED <<bootVars, routines, ioVars, pit, panics, isr, asked>>

HaltCpu(c) ==
    /\ cpu[c].pc = "haltCpu"
    /\ SendEoi(c)
    /\ cpu' = [cpu EXCEPT ![c].pc = "halted", ![c].saved = "idle"]
    /\ UNCHANGED <<bootVars, routines, ioVars, pit, panics, irr, asked>>

-----------------------------------------------------------------------------

\* What a CPU does on its own once it has begun, and what it does if it chooses.
Progress(c) ==
    \/ SeizeTable(c) \/ Select(c) \/ Access(c) \/ PitMap(c) \/ PitMask(c)
    \/ Isr(c) \/ Routine(c) \/ Iret(c)
    \/ Answered(c) \/ SendPanic(c) \/ HaltCpu(c)
    \/ c = Boot /\ (MaskPins \/ CloseWindow \/ ClockDone)

Choice(c) ==
    \/ StartPit(c) \/ StopPit(c) \/ MapDriver(c) \/ MaskDriver(c) \/ ReadReg(c)
    \/ TakeSpurious(c) \/ Ask(c) \/ Panic(c)

Next ==
    \/ \E c \in Cpus : Progress(c) \/ Choice(c) \/ TakeInterrupt(c)
    \/ InitializePic \/ InitializeIrt \/ OpenWindow \/ InitializeIOApic \/ InitializeLapic
    \/ InitializeClock \/ InitializeDomains \/ InitializeTlb \/ InitializePanic
    \/ \E irq \in {PitIrq, DriverIrq} : Raise(irq)

Spec == Init /\ [][Next]_vars

\* A CPU goes on with what it does, gets a lock that is often free, and takes a
\* pending interrupt when it often can.
Fairness == \A c \in Cpus : SF_vars(Progress(c)) /\ SF_vars(TakeInterrupt(c))

FairSpec == Spec /\ Fairness

-----------------------------------------------------------------------------
(* Properties.                                                             *)

\* An unmasked redirection entry is as a whole what one MapIrq asked for, and when
\* nobody holds the table lock each entry is what the last operation on it asked
\* for: no write goes to a register that another CPU has selected.
RedirectionIntact ==
    /\ \A irq \in {PitIrq, DriverIrq} :
          ~low[Pin(irq)].masked =>
              /\ low[Pin(irq)].vector = (IF irq = PitIrq THEN Pit ELSE Driver)
              /\ low[Pin(irq)].flags = Flags(irq)
              /\ high[Pin(irq)] = Boot
    /\ tableLock = NoCpu => low = want

\* Neither a spurious interrupt nor one that is still pending when the PIT is
\* stopped finds the table without a routine for it.
AlwaysHandled == \A c \in Cpus : cpu[c].pc \notin {"unhandled", "lost"}

\* A CPU that does nothing any more: it has stopped, or it waits with interrupts off
\* for the answer of one that has.
IsStuck(c)   == cpu[c].pc = "wait" /\ \E d \in asked : cpu[d].pc = "halted"
IsStopped(c) == cpu[c].pc = "halted" \/ IsStuck(c)

\* A tick of the PIT is taken, unless its CPU stops or a vector with a higher priority,
\* that of the driver or of the TLB, is requested as well: no routine leaves without
\* its EOI, and no CPU waits forever for a lock of the I/O APIC or for an answer.
RequestsServed ==
    Pit \in irr[Boot] ~>
        (Pit \notin irr[Boot] \/ {Driver, Invlpg} \intersect irr[Boot] # {} \/ IsStopped(Boot))

\* A CPU that panics when PanicModule is initialized stops every CPU, even if they
\* panic as well.  A CPU that waits with interrupts off for one that has stopped does
\* not take the interrupt, but it never leaves its loop either (tlb.cpp:122, 148).
PanicStopsAll ==
    (\E c \in Cpus : cpu[c].pc = "send" /\ cpu[c].todo # <<>>) ~>
        [](\A c \in Cpus : IsStopped(c))

\* Does not hold: every CPU takes the interrupt of the one that panics.
PanicHaltsAll ==
    (\E c \in Cpus : cpu[c].pc = "send" /\ cpu[c].todo # <<>>) ~>
        \A c \in Cpus : cpu[c].pc = "halted"

=============================================================================
