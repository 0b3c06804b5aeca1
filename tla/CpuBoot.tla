-------------------------------- MODULE CpuBoot --------------------------------
(***************************************************************************)
(* AcpiModule::Initialize and DomainList::Initialize                       *)
(* (arch/x64/domains/domain-list.cpp): the boot CPU finds the ACPI tables, *)
(* starts the CPUs listed there one by one with INIT and STARTUP IPIs,     *)
(* gives each a limited time to report through initFlag, and goes on.      *)
(*                                                                         *)
(* The other CPUs begin in the trampoline that StartupCode has copied to   *)
(* low memory and run CpuEntrance on the one startup stack, whose top two  *)
(* words the trampoline pops and CpuEntrance overwrites, until they switch *)
(* to the stack of their own Cpu object.                                   *)
(*                                                                         *)
(* Timing assumption: a CPU that answers a STARTUP IPI has reported by the *)
(* last of the looks at initFlag (400 ms).  The code depends on it: a CPU  *)
(* that came later would share the startup stack with the next one.        *)
(***************************************************************************)
EXTENDS Acpi, FiniteSets

CONSTANTS
    Firmwares,   \* the firmware may be any of these
    Cpus,        \* the LAPICs that its ACPI table lists
    Boot,        \* the boot CPU
    Usable,      \* those whose flags say they are usable
    NoCpu,       \* an initLock nobody holds
    Checks       \* how often the loop looks at initFlag after each STARTUP IPI

ASSUME BootAssumption == Boot \in Usable /\ Usable \subseteq Cpus

ASSUME FiniteAssumption == IsFiniteSet(Cpus) /\ NoCpu \notin Cpus

ASSUME ChecksAssumption == Checks \in Nat \ {0}

\* A table that the firmware has filled in: its entries add up to its length, and it
\* lists every usable CPU, none of them twice.
Lists(table, i, c) ==
    i \in 1 .. LastEntry(table) /\ IsLapic(table.entries[i]) /\ table.entries[i].id = c

WellFormed(table) ==
    LET n == LastEntry(table) IN
    /\ n \in Nat \ {0} /\ n <= Len(table.entries) /\ GetDataSize(table) \in Nat
    /\ Offset(table, 1) = 0 /\ Offset(table, n + 1) = GetDataSize(table)
    /\ \A i \in 1 .. n :
          /\ table.entries[i].size \in Nat
          /\ Offset(table, i) \in 0 .. GetDataSize(table) - 1
          /\ Offset(table, i + 1) = Offset(table, i) + table.entries[i].size
          /\ IsLapic(table.entries[i]) => table.entries[i].id \in Cpus
    /\ \A c \in Usable : \E i \in 1 .. n : Lists(table, i, c)
    /\ \A i, j \in 1 .. n, c \in Cpus : Lists(table, i, c) /\ Lists(table, j, c) => i = j
    /\ CountLapics(table, TRUE) = Cardinality(Usable)

\* Where the firmware has put its tables: the first root pointer with a valid
\* checksum leads to a root that lists one APIC table, and the HPET table if any.
Named(f, root, name) ==
    {t \in {GetTable(f, root, i) : i \in 1 .. GetCount(f, root)} :
        f.memory[t].signature = name}

AddsUp(pointer) == FoldSeq(+, 0, pointer.bytes) % 256 = 0

IsRootPointer(f, p) ==
    LET root == GenerateRoot(f.bios[p]) IN
    /\ p \in DOMAIN f.bios \intersect BiosAreas
    /\ AddsUp(f.bios[p])
    /\ \A q \in DOMAIN f.bios \intersect BiosAreas : AddsUp(f.bios[q]) => p <= q
    /\ GetCount(f, root) \in Nat
    /\ Named(f, root, "APIC") = {f.madt} /\ f.madt # 0
    /\ Named(f, root, "HPET") = {f.hpet} \ {0}

ASSUME FirmwareAssumption ==
    \A f \in Firmwares :
        /\ WellFormed(f.memory[f.madt])
        /\ \E p \in DOMAIN f.bios : IsRootPointer(f, p)

VARIABLES
    firmware,    \* what the firmware has left in memory
    apicTable,   \* AcpiModule's tables, by their address, 0 for NULL
    hpetTable,
    amountUsed,  \* bytes used of the Gdt
    capacity,    \* Domain::capacity
    alive,       \* the CPUs that answer a STARTUP IPI
    boot,        \* what the boot CPU does next
    iterator,    \* the entry of the table StartCpus has come to
    target,      \* the CPU BootstrapCpu is starting
    sent,        \* STARTUP IPIs it has sent to it
    checks,      \* looks at initFlag it has left before it sends another
    initLock,    \* the holder of initLock
    initFlag,    \* initFlag
    code,        \* the trampoline is in low memory
    stack,       \* the startup stack has its two words
    ap,          \* ap[c]: what CPU c does next
    count,       \* Domain::count
    index,       \* index[c]: the Cpu object c has constructed, -1 if none
    selector     \* selector[c]: the segment of its Tss

tables  == <<firmware, apicTable, hpetTable, capacity>>
cpuObjs == <<count, index, amountUsed, selector>>
bspVars == <<tables, alive, boot, iterator, target, sent, checks>>
vars == <<bspVars, initLock, initFlag, code, stack, ap, cpuObjs>>

Table == firmware.memory[apicTable]

\* Where a CPU runs on the startup stack.
OnStartupStack == {"seize", "construct", "count"}

\* A CPU that is not usable does not answer, and one that is may be broken.  The
\* Gdt has its null descriptor and four segments.
Init ==
    /\ firmware \in Firmwares
    /\ apicTable = 0 /\ hpetTable = 0 /\ capacity = 0
    /\ amountUsed = 40
    /\ alive \in SUBSET (Usable \ {Boot})
    /\ boot = "acpi"
    /\ iterator = [at |-> 0, dataSize |-> 0]
    /\ target = Boot
    /\ sent = 0
    /\ checks = 0
    /\ initLock = NoCpu
    /\ initFlag = FALSE
    /\ code = FALSE
    /\ stack = FALSE
    /\ ap = [c \in Cpus |-> "off"]
    /\ count = 0
    /\ index = [c \in Cpus |-> -1]
    /\ selector = [c \in Cpus |-> 0]

-----------------------------------------------------------------------------
(* The tables, the Domain and the Cpu of the boot CPU.                     *)

\* AcpiModule::Initialize, and IOApicModule's panic if there is no APIC table.
FindTables ==
    LET pointer == Find(firmware)
        root == GenerateRoot(firmware.bios[pointer])
    IN  /\ boot = "acpi"
        /\ IF pointer = 0 THEN boot' = "panic" /\ UNCHANGED <<apicTable, hpetTable>>
           ELSE /\ apicTable' = FindTable(firmware, root, "APIC")
                /\ hpetTable' = FindTable(firmware, root, "HPET")
                /\ boot' = IF apicTable' = 0 THEN "panic" ELSE "domain"
        /\ UNCHANGED <<firmware, capacity, alive, iterator, target, sent, checks, initLock,
                       initFlag, code, stack, ap, cpuObjs>>

\* The constructor of Cpu, which gives it a Tss, behind the Cpu objects there are.
NewCpu(c) ==
    /\ index' = [index EXCEPT ![c] = count]
    /\ selector' = [selector EXCEPT ![c] = amountUsed]
    /\ amountUsed' = amountUsed + 16

\* DomainList::Initialize up to StartCpus.
NewDomain ==
    /\ boot = "domain"
    /\ capacity' = CountLapics(Table, TRUE)
    /\ NewCpu(Boot)
    /\ count' = 1
    /\ boot' = IF capacity' = 0 THEN "panic" ELSE "configure"
    /\ UNCHANGED <<firmware, apicTable, hpetTable, alive, iterator, target, sent, checks,
                   initLock, initFlag, code, stack, ap>>

-----------------------------------------------------------------------------
(* StartCpus and BootstrapCpu, on the boot CPU.                            *)

\* The constructor of StartupCode, and the iterator.
Configure ==
    /\ boot = "configure"
    /\ code' = TRUE
    /\ iterator' = GetIterator(Table)
    /\ boot' = IF CanIterate(Table) THEN "entry" ELSE "leave"
    /\ UNCHANGED <<tables, alive, target, sent, checks, initLock, initFlag, stack, ap, cpuObjs>>

\* Mutant: the startup stack is filled for the first entry only.
ResetFirstOnly == stack' = (stack \/ iterator.at = 1)

ResetStartupStack == stack' = TRUE

\* An entry for a CPU: the stack for it, and BootstrapCpu(), which returns at once
\* for the boot CPU itself.
Visit ==
    LET entry == GetData(Table, iterator) IN
    /\ boot = "entry"
    /\ IsLapic(entry)
    /\ ResetStartupStack
    /\ target' = entry.id
    /\ boot' = IF entry.id = Boot THEN "next" ELSE "init"
    /\ UNCHANGED <<tables, alive, iterator, sent, checks, initLock, initFlag, code, ap, cpuObjs>>

\* An entry of another type.
Skip ==
    /\ boot = "entry"
    /\ ~IsLapic(GetData(Table, iterator))
    /\ boot' = "next"
    /\ UNCHANGED <<tables, alive, iterator, target, sent, checks, initLock, initFlag, code,
                   stack, ap, cpuObjs>>

\* Iterator::Next, with its assertion.
Advance ==
    /\ boot = "next"
    /\ IF AtEnd(Table, iterator) \/ IsBroken(Table, iterator)
       THEN boot' = (IF AtEnd(Table, iterator) THEN "leave" ELSE "panic") /\ UNCHANGED iterator
       ELSE boot' = "entry" /\ iterator' = Following(Table, iterator)
    /\ UNCHANGED <<tables, alive, target, sent, checks, initLock, initFlag, code, stack, ap,
                   cpuObjs>>

\* INIT, asserted and deasserted.
SendInit ==
    /\ boot = "init"
    /\ ap' = IF target \in alive THEN [ap EXCEPT ![target] = "wait"] ELSE ap
    /\ boot' = "clear"
    /\ UNCHANGED <<tables, alive, iterator, target, sent, checks, initLock, initFlag, code,
                   stack, cpuObjs>>

\* Mutant: initFlag keeps the value the last CPU gave it.
KeepFlag ==
    /\ boot = "clear"
    /\ sent' = 0
    /\ boot' = "startup"
    /\ UNCHANGED <<tables, alive, iterator, target, checks, initLock, initFlag, code, stack,
                   ap, cpuObjs>>

ClearFlag ==
    /\ boot = "clear"
    /\ initFlag' = FALSE
    /\ sent' = 0
    /\ boot' = "startup"
    /\ UNCHANGED <<tables, alive, iterator, target, checks, initLock, code, stack, ap, cpuObjs>>

\* A STARTUP IPI; a CPU that runs already ignores it.
SendStartup ==
    /\ boot = "startup"
    /\ sent < 2
    /\ sent' = sent + 1
    /\ checks' = Checks
    /\ ap' = IF ap[target] = "wait" THEN [ap EXCEPT ![target] = "trampoline"] ELSE ap
    /\ boot' = "check"
    /\ UNCHANGED <<tables, alive, iterator, target, initLock, initFlag, code, stack, cpuObjs>>

\* Mutant: the flag is read without initLock.
ReportedNoLock ==
    /\ boot = "check"
    /\ initFlag
    /\ boot' = "next"
    /\ UNCHANGED <<tables, alive, iterator, target, sent, checks, initLock, initFlag, code,
                   stack, ap, cpuObjs>>

\* After a sleep: the CPU has reported.
Reported ==
    /\ boot = "check"
    /\ initLock = NoCpu
    /\ initFlag
    /\ boot' = "next"
    /\ UNCHANGED <<tables, alive, iterator, target, sent, checks, initLock, initFlag, code,
                   stack, ap, cpuObjs>>

\* After a sleep: not yet.  By the timing assumption the last look of all finds
\* a CPU that answers.
NotYet ==
    /\ boot = "check"
    /\ initLock = NoCpu
    /\ ~initFlag
    /\ target \in alive => sent < 2 \/ checks > 1
    /\ checks' = checks - 1
    /\ boot' = IF checks > 1 THEN "check" ELSE "startup"
    /\ UNCHANGED <<tables, alive, iterator, target, sent, initLock, initFlag, code, stack, ap,
                   cpuObjs>>

\* " [FAIL]": both STARTUP IPIs have gone unanswered.
GiveUp ==
    /\ boot = "startup"
    /\ sent = 2
    /\ boot' = "next"
    /\ UNCHANGED <<tables, alive, iterator, target, sent, checks, initLock, initFlag, code,
                   stack, ap, cpuObjs>>

\* StartCpus returns and the destructor of StartupCode restores low memory.
Done ==
    /\ boot = "leave"
    /\ code' = FALSE
    /\ stack' = FALSE
    /\ boot' = "done"
    /\ UNCHANGED <<tables, alive, iterator, target, sent, checks, initLock, initFlag, ap, cpuObjs>>

-----------------------------------------------------------------------------
(* The CPU that is being started.                                          *)

\* The trampoline loads the page table and jumps to CpuEntrance, both of which
\* it finds on the startup stack.
Trampoline(c) ==
    /\ ap[c] = "trampoline"
    /\ ap' = [ap EXCEPT ![c] = IF code /\ stack THEN "seize" ELSE "lost"]
    /\ stack' = FALSE
    /\ UNCHANGED <<bspVars, initLock, initFlag, code, cpuObjs>>

Seize(c) ==
    /\ ap[c] = "seize"
    /\ initLock = NoCpu
    /\ initLock' = c
    /\ ap' = [ap EXCEPT ![c] = "construct"]
    /\ UNCHANGED <<bspVars, initFlag, code, stack, cpuObjs>>

\* Domain::InitNewCpu: a Cpu is constructed behind the last one ...
Construct(c) ==
    /\ ap[c] = "construct"
    /\ IF count < capacity
       THEN NewCpu(c) /\ ap' = [ap EXCEPT ![c] = "count"]
       ELSE ap' = [ap EXCEPT ![c] = "panic"] /\ UNCHANGED <<index, amountUsed, selector>>
    /\ UNCHANGED <<bspVars, initLock, initFlag, code, stack, count>>

\* ... and counted.
CountCpu(c) ==
    /\ ap[c] = "count"
    /\ count' = count + 1
    /\ ap' = [ap EXCEPT ![c] = "stall"]
    /\ UNCHANGED <<bspVars, initLock, initFlag, code, stack, index, amountUsed, selector>>

\* CpuStall, on the CPU's own stack.
Report(c) ==
    /\ ap[c] = "stall"
    /\ initFlag' = TRUE
    /\ ap' = [ap EXCEPT ![c] = "release"]
    /\ UNCHANGED <<bspVars, initLock, code, stack, cpuObjs>>

\* Mutant: CpuStall keeps initLock.
ReleaseNothing(c) ==
    /\ ap[c] = "release"
    /\ ap' = [ap EXCEPT ![c] = "idle"]
    /\ UNCHANGED <<bspVars, initLock, initFlag, code, stack, cpuObjs>>

Release(c) ==
    /\ ap[c] = "release"
    /\ initLock' = NoCpu
    /\ ap' = [ap EXCEPT ![c] = "idle"]
    /\ UNCHANGED <<bspVars, initFlag, code, stack, cpuObjs>>

-----------------------------------------------------------------------------

StartCpus ==
    \/ Configure
    \/ Visit
    \/ Skip
    \/ Advance
    \/ SendInit
    \/ ClearFlag
    \/ SendStartup
    \/ Reported
    \/ NotYet
    \/ GiveUp
    \/ Done

CpuEntrance(c) ==
    \/ Trampoline(c)
    \/ Seize(c)
    \/ Construct(c)
    \/ CountCpu(c)
    \/ Report(c)
    \/ Release(c)

Next == FindTables \/ NewDomain \/ StartCpus \/ \E c \in Cpus : CpuEntrance(c)

Spec == Init /\ [][Next]_vars

\* A CPU that answers goes on by itself.  The boot CPU looks at initFlag again
\* and again: it gets initLock when it is free, since nobody but the CPU that
\* is being started competes for it.
FairSpec ==
    /\ Spec
    /\ WF_vars(FindTables \/ NewDomain)
    /\ SF_vars(StartCpus)
    /\ \A c \in Cpus : SF_vars(CpuEntrance(c))

-----------------------------------------------------------------------------

Started == {c \in Cpus : index[c] >= 0}

\* CpuEntrance: no CPU enters the trampoline after StartupCode has removed it, or
\* finds the startup stack in the state another CPU has left it in.
NoCpuLost == \A c \in Cpus : ap[c] # "lost"

\* BootstrapCpu: only one CPU at a time runs on the startup stack, and nobody
\* is on it when ResetStartupStack() writes to it.
OneOnStartupStack ==
    \A c \in Cpus : ap[c] \in OnStartupStack =>
        boot \in {"startup", "check"} /\ target = c

\* AcpiModule: the tables that are found are those the firmware means, whatever
\* else looks like a root pointer or is stored behind the end of a table.
TablesFound ==
    boot # "acpi" =>
        apicTable = firmware.madt /\ hpetTable = firmware.hpet

\* When StartCpus returns, every CPU that answers has a Cpu object and a segment of
\* its own and has left initLock: the table is walked to its end and the capacity
\* that InitNewCpu asserts is never reached.
AllStarted ==
    boot = "done" =>
        /\ Started = alive \union {Boot}
        /\ {index[c] : c \in Started} = 0 .. Cardinality(Started) - 1
        /\ count = Cardinality(Started)
        /\ Cardinality({selector[c] : c \in Started}) = Cardinality(Started)
        /\ initLock = NoCpu

\* StartCpus returns, whether CPUs answer or not.
StartCpusReturns == <>(boot = "done")
=============================================================================
