---------------------------- MODULE CpuBootProofs ----------------------------
(***************************************************************************)
(* Proofs about CpuBoot, for any firmware, any number of CPUs and any      *)
(* number of looks at initFlag.                                            *)
(***************************************************************************)
EXTENDS CpuBoot, FiniteSetTheorems, WellFoundedInduction, TLAPS

-----------------------------------------------------------------------------
(* The inductive invariant.                                                *)

ApPcs == {"off", "wait", "trampoline", "seize", "construct", "count", "stall", "release",
          "panic", "idle"}

\* Where a CPU holds initLock.
Holding == {"construct", "count", "stall", "release", "panic"}

\* Where BootstrapCpu waits for its target.
Starting == {"clear", "startup", "check"}

TypeInv ==
    /\ alive \subseteq Usable \ {Boot}
    /\ ap \in [Cpus -> ApPcs]
    /\ \A c \in Cpus \ alive : ap[c] = "off"
    /\ initLock \in Cpus \union {NoCpu}
    /\ sent \in 0 .. 2
    /\ boot = "check" => sent > 0

\* Only the CPU that BootstrapCpu is starting does anything, and that only if it
\* answers.
TargetInv ==
    \A c \in Cpus : ap[c] \notin {"off", "idle"} =>
        /\ c = target /\ c \in alive
        /\ boot \in Starting
        /\ ap[c] = "wait" <=> boot = "clear" \/ (boot = "startup" /\ sent = 0)

\* A target that answers reports before it is done, and is never given up.
AnswerInv ==
    boot \in Starting =>
        IF target \in alive
        THEN /\ ap[target] # "off"
             /\ ap[target] \in {"release", "idle"} <=> initFlag /\ boot # "clear"
             /\ boot = "startup" => sent < 2
        ELSE boot # "clear" => ~initFlag

LockInv == \A c \in Cpus : ap[c] \in Holding <=> initLock = c

\* The trampoline is there as long as a CPU may enter it, and the startup stack
\* has what it pops.
StackInv ==
    /\ boot \in Starting \union {"entry", "next", "init"} => code
    /\ boot = "init" => stack
    /\ \A c \in Cpus : ap[c] \in {"wait", "trampoline"} => stack

Inv == TypeInv /\ TargetInv /\ AnswerInv /\ LockInv /\ StackInv

\* The walk over the table: the iterator is at an entry of it, and knows how many
\* bytes are left.
Walking == Starting \union {"entry", "next", "init"}

WalkInv ==
    /\ firmware \in Firmwares
    /\ boot \in Walking =>
          /\ iterator.at \in 1 .. LastEntry(Table)
          /\ iterator.dataSize = GetDataSize(Table) - Offset(Table, iterator.at)
    /\ boot \in Starting \union {"init"} =>
          Lists(Table, iterator.at, target) /\ target # Boot

\* A CPU is started when its entry is reached, and is done when it is passed.
VisitInv ==
    /\ boot \in {"acpi", "domain", "configure"} => \A c \in Cpus : ap[c] = "off"
    /\ boot \in Walking =>
          /\ \A c \in Cpus : ap[c] # "off" =>
                \E i \in 1 .. iterator.at :
                    Lists(Table, i, c) /\ (boot \in {"entry", "init"} => i # iterator.at)
          /\ \A i \in 1 .. iterator.at, c \in alive :
                Lists(Table, i, c) /\ (i # iterator.at \/ boot = "next") => ap[c] = "idle"
    /\ boot \in {"leave", "done"} => \A c \in alive : ap[c] = "idle"

\* The Cpu objects that Domain::count includes.
Counted == {c \in Cpus : index[c] >= 0 /\ ap[c] # "count"}

\* Each Cpu object is behind those before it, in the Domain and in the Gdt.
CountInv ==
    boot \notin {"acpi", "domain", "panic"} =>
        /\ capacity = Cardinality(Usable)
        /\ count \in Nat /\ count = Cardinality(Counted)
        /\ \A c \in Cpus :
              /\ index[c] >= 0 <=> c = Boot \/ ap[c] \in {"count", "stall", "release", "idle"}
              /\ index[c] >= 0 => selector[c] = 40 + 16 * index[c]
              /\ c \in Counted => index[c] < count
              /\ ap[c] = "count" => index[c] = count /\ amountUsed = 40 + 16 * (count + 1)
              /\ ap[c] # "panic"
        /\ \A k \in 0 .. count - 1 : \E c \in Counted : index[c] = k
        /\ \A c, d \in Counted : index[c] = index[d] => c = d
        /\ (\A c \in Cpus : ap[c] # "count") => amountUsed = 40 + 16 * count

\* The types of what CountInv is about.
ObjectInv ==
    /\ index \in [Cpus -> Int] /\ selector \in [Cpus -> Int]
    /\ boot \in {"acpi", "domain"} =>
          count = 0 /\ amountUsed = 40 /\ \A c \in Cpus : index[c] = -1

\* The invariant for well-formed tables.
TableInv == Inv /\ WalkInv /\ VisitInv /\ ObjectInv /\ CountInv

-----------------------------------------------------------------------------
(* The startup stack and initLock.                                         *)

\* Every step of the boot CPU keeps the invariant.
LEMMA BootInv ==
    ASSUME Inv, FindTables \/ NewDomain \/ StartCpus
    PROVE  Inv'
<1> USE FiniteAssumption, BootAssumption
    DEF Inv, TypeInv, TargetInv, AnswerInv, LockInv, StackInv, Starting, Holding, ApPcs,
        bspVars, tables, cpuObjs
<1>1. CASE FindTables
  BY <1>1 DEF FindTables
<1>2. CASE NewDomain
  BY <1>2 DEF NewDomain, NewCpu
<1>3. CASE Configure
  BY <1>3 DEF Configure
<1>4. CASE Visit
  BY <1>4 DEF Visit, ResetStartupStack
<1>5. CASE Skip
  BY <1>5 DEF Skip
<1>6. CASE Advance
  BY <1>6 DEF Advance
<1>7. CASE SendInit
  BY <1>7 DEF SendInit
<1>8. CASE ClearFlag
  <2>1. TypeInv'
    BY <1>8 DEF ClearFlag
  <2>2. TargetInv'
    BY <1>8 DEF ClearFlag
  <2>3. AnswerInv'
    BY <1>8 DEF ClearFlag
  <2>4. LockInv'
    BY <1>8 DEF ClearFlag
  <2>5. StackInv'
    BY <1>8 DEF ClearFlag
  <2>6. QED
    BY <2>1, <2>2, <2>3, <2>4, <2>5
<1>9. CASE SendStartup
  <2>1. CASE target \in Cpus /\ ap[target] = "wait"
    <3>1. ap' = [ap EXCEPT ![target] = "trampoline"]
      BY <1>9, <2>1 DEF SendStartup
    <3>2. TypeInv'
      BY <1>9, <2>1, <3>1 DEF SendStartup
    <3>3. TargetInv'
      BY <1>9, <2>1, <3>1 DEF SendStartup
    <3>4. AnswerInv'
      BY <1>9, <2>1, <3>1 DEF SendStartup
    <3>5. LockInv' /\ StackInv'
      BY <1>9, <2>1, <3>1 DEF SendStartup
    <3>6. QED
      BY <3>2, <3>3, <3>4, <3>5
  <2>2. CASE ~(target \in Cpus /\ ap[target] = "wait")
    <3>1. ap' = ap
      BY <1>9, <2>2 DEF SendStartup
    <3>2. TypeInv'
      <4>1. sent' \in 1 .. 2
        BY <1>9 DEF SendStartup
      <4>2. UNCHANGED <<alive, initLock>>
        BY <1>9 DEF SendStartup
      <4>3. QED
        BY <3>1, <4>1, <4>2
    <3>3. TargetInv'
      BY <1>9, <2>2, <3>1 DEF SendStartup
    <3>4. AnswerInv'
      BY <1>9, <2>2, <3>1 DEF SendStartup
    <3>5. LockInv' /\ StackInv'
      BY <1>9, <3>1 DEF SendStartup
    <3>6. QED
      BY <3>2, <3>3, <3>4, <3>5
  <2>3. QED
    BY <2>1, <2>2
<1>10. CASE Reported
  BY <1>10 DEF Reported
<1>11. CASE NotYet
  <2>1. TypeInv'
    BY <1>11 DEF NotYet
  <2>2. TargetInv'
    BY <1>11 DEF NotYet
  <2>3. AnswerInv'
    BY <1>11 DEF NotYet
  <2>4. LockInv'
    BY <1>11 DEF NotYet
  <2>5. StackInv'
    BY <1>11 DEF NotYet
  <2>6. QED
    BY <2>1, <2>2, <2>3, <2>4, <2>5
<1>12. CASE GiveUp
  BY <1>12 DEF GiveUp
<1>13. CASE Done
  BY <1>13 DEF Done
<1>14. QED
  BY <1>1, <1>2, <1>3, <1>4, <1>5, <1>6, <1>7, <1>8, <1>9, <1>10, <1>11, <1>12, <1>13 DEF StartCpus

\* Every step of a CPU that is being started keeps the invariant.
LEMMA ApInv ==
    ASSUME Inv, NEW c \in Cpus, CpuEntrance(c)
    PROVE  Inv'
<1> USE FiniteAssumption, BootAssumption
    DEF Inv, TypeInv, TargetInv, AnswerInv, LockInv, StackInv, Starting, Holding, ApPcs,
        bspVars, tables, cpuObjs
<1>1. CASE Trampoline(c)
  BY <1>1 DEF Trampoline
<1>2. CASE Seize(c)
  BY <1>2 DEF Seize
<1>3. CASE Construct(c)
  BY <1>3 DEF Construct
<1>4. CASE CountCpu(c)
  BY <1>4 DEF CountCpu
<1>5. CASE Report(c)
  <2>1. TypeInv'
    BY <1>5 DEF Report
  <2>2. TargetInv'
    BY <1>5 DEF Report
  <2>3. AnswerInv'
    BY <1>5 DEF Report
  <2>4. LockInv'
    BY <1>5 DEF Report
  <2>5. StackInv'
    BY <1>5 DEF Report
  <2>6. QED
    BY <2>1, <2>2, <2>3, <2>4, <2>5
<1>6. CASE Release(c)
  BY <1>6 DEF Release
<1>7. QED
  BY <1>1, <1>2, <1>3, <1>4, <1>5, <1>6 DEF CpuEntrance


\* The invariant holds at first: no CPU but the boot CPU runs.
LEMMA InitInv == Init => Inv
  BY FiniteAssumption, BootAssumption
     DEF Init, Inv, TypeInv, TargetInv, AnswerInv, LockInv, StackInv, Starting, Holding, ApPcs

\* The invariant holds in every reachable state, for any firmware.
LEMMA InvHolds == Spec => []Inv
<1>1. Inv /\ [Next]_vars => Inv'
  <2> SUFFICES ASSUME Inv, [Next]_vars
               PROVE  Inv'
    OBVIOUS
  <2>1. CASE UNCHANGED vars
    BY <2>1 DEF vars, bspVars, Inv, TypeInv, TargetInv, AnswerInv, LockInv, StackInv
  <2>2. QED
    BY <2>1, BootInv, ApInv DEF Next
<1>2. QED
  BY <1>1, InitInv, PTL DEF Spec

\* Whatever the firmware lists and whichever CPUs answer, each CPU that enters the
\* trampoline finds it in low memory and the startup stack filled for itself.
THEOREM NoCpuIsLost == Spec => []NoCpuLost
<1>1. Inv => NoCpuLost
  BY DEF Inv, TypeInv, NoCpuLost, ApPcs
<1>2. QED
  BY <1>1, InvHolds, PTL

\* ResetStartupStack() and the next CPU never meet a CPU that is still on the
\* startup stack.
THEOREM OneIsOnStartupStack == Spec => []OneOnStartupStack
<1>1. Inv => OneOnStartupStack
  BY DEF Inv, TargetInv, OneOnStartupStack, OnStartupStack, Starting
<1>2. QED
  BY <1>1, InvHolds, PTL

-----------------------------------------------------------------------------
(* The walk over a well-formed table.                                      *)

\* A set of natural numbers has a least element, which Min picks.
LEMMA MinIsLeast ==
    ASSUME NEW T, T \subseteq Nat, T # {}
    PROVE  Min(T) \in T /\ \A y \in T : Min(T) <= y
<1> DEFINE R == OpToRel(<, Nat)
<1>1. IsWellFoundedOn(R, Nat)
  BY NatLessThanWellFounded
<1>2. \A x, y \in Nat : y < x => <<y, x>> \in R
  BY DEF OpToRel
<1> HIDE DEF R
<1>3. PICK x \in T : \A y \in T : ~(<<y, x>> \in R)
  BY <1>1, WFMin
<1>4. ASSUME NEW y \in T PROVE x <= y
  <2>1. ~(y < x)
    BY <1>2, <1>3
  <2>2. QED
    BY <2>1
<1>5. QED
  BY <1>4 DEF Min

\* Two intervals that begin above zero have no zero.
LEMMA AreasArePositive ==
    ASSUME NEW a \in Nat, NEW b \in Nat, NEW c \in Nat, NEW d \in Nat, a > 0, c > 0
    PROVE  ((a .. b) \union (c .. d)) \subseteq Nat \ {0}
  OBVIOUS

\* Find returns the root pointer of the firmware.
LEMMA RootFound ==
    ASSUME NEW f, NEW p, IsRootPointer(f, p)
    PROVE  Find(f) = p /\ p # 0
<1> DEFINE valid == {q \in DOMAIN f.bios : q \in BiosAreas /\ MemChecksum(f.bios[q].bytes) = 0}
<1>1. p \in valid /\ \A q \in valid : p <= q
  BY DEF IsRootPointer, AddsUp, MemChecksum
<1>2. BiosAreas \subseteq Nat \ {0}
  <2> DEFINE a == 524288
             b == 654335
             c == 917504
             d == 1048575
  <2>1. a \in Nat /\ b \in Nat /\ c \in Nat /\ d \in Nat /\ a > 0 /\ c > 0
    BY SMT
  <2>2. BiosAreas = (a .. b) \union (c .. d)
    BY SMT DEF BiosAreas
  <2> HIDE DEF a, b, c, d
  <2>3. ((a .. b) \union (c .. d)) \subseteq Nat \ {0}
    BY <2>1, AreasArePositive, SMT
  <2> QED
    BY <2>2, <2>3, SMT
<1> HIDE DEF valid
<1>3. valid \subseteq Nat /\ p \in Nat /\ p # 0
  BY <1>1, <1>2 DEF valid
<1>4. Min(valid) \in valid /\ \A q \in valid : Min(valid) <= q
  BY <1>1, <1>3, MinIsLeast
<1>5. Min(valid) <= p /\ p <= Min(valid) /\ Min(valid) \in Nat
  BY <1>1, <1>3, <1>4
<1>6. Min(valid) = p
  BY <1>3, <1>5
<1>7. QED
  BY <1>1, <1>3, <1>6 DEF Find, valid

\* FindTable returns the table with the name, if the root lists one.
LEMMA TableFound ==
    ASSUME NEW f, NEW root, NEW name, NEW t, GetCount(f, root) \in Nat,
           Named(f, root, name) = {t} \ {0}
    PROVE  FindTable(f, root, name) = t
<1> DEFINE named == {i \in 1 .. GetCount(f, root) :
                        f.memory[GetTable(f, root, i)].signature = name}
<1>1. \A i \in named : GetTable(f, root, i) = t /\ t # 0
  BY DEF Named
<1>2. CASE named = {}
  <2>1. t = 0
    BY <1>2 DEF Named
  <2>2. QED
    BY <1>2, <2>1 DEF FindTable
<1>3. CASE named # {}
  <2>1. Min(named) \in named
    BY <1>3, MinIsLeast
  <2>2. QED
    BY <1>1, <1>3, <2>1 DEF FindTable
<1>4. QED
  BY <1>2, <1>3

\* AcpiModule finds the tables that the firmware means, whatever else looks like a
\* root pointer, has their names outside of the root, or is stored behind its end.
THEOREM TablesAreFound == Spec => []TablesFound
<1> DEFINE I == firmware \in Firmwares /\ TablesFound
<1>1. Init => I
  BY DEF Init, TablesFound
<1>2. I /\ [Next]_vars => I'
  <2> SUFFICES ASSUME I, [Next]_vars
               PROVE  I'
    OBVIOUS
  <2>1. CASE FindTables
    <3>1. PICK p : IsRootPointer(firmware, p)
      BY FirmwareAssumption
    <3> DEFINE root == GenerateRoot(firmware.bios[p])
    <3>2. Find(firmware) = p /\ p # 0
      BY <3>1, RootFound
    <3>3. /\ GetCount(firmware, root) \in Nat
          /\ Named(firmware, root, "APIC") = {firmware.madt} \ {0}
          /\ Named(firmware, root, "HPET") = {firmware.hpet} \ {0}
      BY <3>1 DEF IsRootPointer
    <3>4. /\ FindTable(firmware, root, "APIC") = firmware.madt
          /\ FindTable(firmware, root, "HPET") = firmware.hpet
      BY <3>3, TableFound
    <3>5. /\ apicTable' = FindTable(firmware, root, "APIC")
          /\ hpetTable' = FindTable(firmware, root, "HPET")
          /\ firmware' = firmware
      BY <2>1, <3>2 DEF FindTables
    <3>6. QED
      BY <3>4, <3>5 DEF TablesFound
  <2>2. CASE UNCHANGED <<firmware, apicTable, hpetTable>> /\ boot # "acpi"
    BY <2>2 DEF TablesFound
  <2>3. CASE NewDomain \/ StartCpus
    BY <2>2, <2>3 DEF NewDomain, StartCpus, Configure, Visit, Skip, Advance, SendInit,
                      ClearFlag, SendStartup, Reported, NotYet, GiveUp, Done, tables
  <2>4. CASE UNCHANGED <<firmware, apicTable, hpetTable, boot>>
    BY <2>4 DEF TablesFound
  <2>5. ASSUME NEW c \in Cpus, CpuEntrance(c)
        PROVE  I'
    BY <2>4, <2>5 DEF CpuEntrance, Trampoline, Seize, Construct, CountCpu, Report, Release,
                      bspVars, tables
  <2>6. QED
    BY <2>1, <2>3, <2>4, <2>5 DEF Next, vars, bspVars, tables
<1>3. QED
  BY <1>1, <1>2, PTL DEF Spec

\* The table that the CPUs are started from.
LEMMA FoundTable ==
    ASSUME WalkInv, TablesFound, boot # "acpi"
    PROVE  WellFormed(Table)
  BY FirmwareAssumption DEF WalkInv, TablesFound, Table

\* In a well-formed table each entry begins where the one before it ends, and the
\* last one ends with the table.
LEMMA EntryFollows ==
    ASSUME NEW table, WellFormed(table), NEW at \in 1 .. LastEntry(table)
    PROVE  /\ Offset(table, at + 1) = Offset(table, at) + table.entries[at].size
           /\ Offset(table, at) \in Nat /\ table.entries[at].size \in Nat
           /\ GetDataSize(table) \in Nat /\ LastEntry(table) \in Nat
           /\ Offset(table, LastEntry(table) + 1) = GetDataSize(table)
           /\ \A i \in 1 .. LastEntry(table) : Offset(table, i) \in 0 .. GetDataSize(table) - 1
<1>1. GetDataSize(table) \in Nat /\ LastEntry(table) \in Nat
      /\ Offset(table, LastEntry(table) + 1) = GetDataSize(table)
  BY DEF WellFormed
<1>2. \A i \in 1 .. LastEntry(table) : Offset(table, i) \in 0 .. GetDataSize(table) - 1
  BY DEF WellFormed
<1>3. table.entries[at].size \in Nat
      /\ Offset(table, at + 1) = Offset(table, at) + table.entries[at].size
  BY DEF WellFormed
<1>4. Offset(table, at) \in Nat
  BY <1>1, <1>2
<1>5. QED
  BY <1>1, <1>2, <1>3, <1>4

\* The iterator stays in the table.
LEMMA NextWalk ==
    ASSUME TableInv, TablesFound, [Next]_vars
    PROVE  WalkInv'
<1> USE DEF WalkInv, Walking, Starting
<1>1. ASSUME boot # "acpi", UNCHANGED <<firmware, apicTable>>
      PROVE  Table' = Table /\ WellFormed(Table) /\ firmware' \in Firmwares
  BY <1>1, FoundTable DEF Table, TableInv
<1>2. CASE FindTables \/ NewDomain \/ Done
  BY <1>2 DEF FindTables, NewDomain, Done, tables, TableInv
<1>3. CASE Configure
  <2>1. Table' = Table /\ WellFormed(Table) /\ firmware' \in Firmwares
    BY <1>1, <1>3 DEF Configure, tables
  <2>2. /\ iterator'.at = 1 /\ iterator'.dataSize = GetDataSize(Table)
        /\ boot' \in {"entry", "leave"}
    BY <1>3 DEF Configure, GetIterator
  <2>3. 1 \in 1 .. LastEntry(Table) /\ Offset(Table, 1) = 0 /\ GetDataSize(Table) \in Nat
    BY <2>1 DEF WellFormed
  <2>4. QED
    BY <2>1, <2>2, <2>3
<1>4. CASE Visit
  <2>1. Table' = Table /\ WellFormed(Table) /\ firmware' \in Firmwares
    BY <1>1, <1>4 DEF Visit, tables
  <2>2. /\ boot = "entry" /\ IsLapic(Table.entries[iterator.at]) /\ iterator' = iterator
        /\ target' = Table.entries[iterator.at].id
        /\ boot' = IF target' = Boot THEN "next" ELSE "init"
    BY <1>4 DEF Visit, GetData
  <2>3. Lists(Table, iterator.at, target') \/ ~(iterator.at \in 1 .. LastEntry(Table))
    BY <2>2 DEF Lists
  <2>4. QED
    BY <2>1, <2>2, <2>3 DEF TableInv
<1>5. CASE Advance
  <2>1. Table' = Table /\ WellFormed(Table) /\ firmware' \in Firmwares
    BY <1>1, <1>5 DEF Advance, tables
  <2>2. boot = "next" /\ iterator.at \in 1 .. LastEntry(Table)
        /\ iterator.dataSize = GetDataSize(Table) - Offset(Table, iterator.at)
    BY <1>5 DEF Advance, TableInv
  <2>3. CASE boot' # "entry"
    BY <1>5, <2>1, <2>3 DEF Advance
  <2>4. CASE boot' = "entry"
    <3>1. /\ iterator'.at = iterator.at + 1
          /\ iterator'.dataSize = iterator.dataSize - Table.entries[iterator.at].size
          /\ Table.entries[iterator.at].size # iterator.dataSize
      BY <1>5, <2>4 DEF Advance, Following, GetSize, GetData, AtEnd
    <3>2. /\ Offset(Table, iterator.at + 1) = Offset(Table, iterator.at)
                                                + Table.entries[iterator.at].size
          /\ Offset(Table, iterator.at) \in Nat /\ Table.entries[iterator.at].size \in Nat
          /\ GetDataSize(Table) \in Nat /\ LastEntry(Table) \in Nat
          /\ Offset(Table, LastEntry(Table) + 1) = GetDataSize(Table)
      BY <2>1, <2>2, EntryFollows
    <3>3. iterator.at # LastEntry(Table)
      BY <2>2, <3>1, <3>2
    <3>4. iterator.at + 1 \in 1 .. LastEntry(Table)
      BY <2>2, <3>2, <3>3
    <3>5. QED
      BY <2>1, <2>2, <2>4, <3>1, <3>2, <3>4
  <2>5. QED
    BY <2>3, <2>4
<1>6. ASSUME UNCHANGED <<tables, iterator, target>>,
             boot \in Walking, boot' \in Walking,
             boot' \in Starting \union {"init"} => boot \in Starting \union {"init"}
      PROVE  WalkInv'
  <2>1. Table' = Table
    BY <1>1, <1>6 DEF tables
  <2>2. QED
    BY <1>6, <2>1 DEF TableInv, tables
<1>7. CASE Skip \/ SendInit \/ ClearFlag \/ SendStartup \/ Reported \/ NotYet \/ GiveUp
  BY <1>6, <1>7 DEF Skip, SendInit, ClearFlag, SendStartup, Reported, NotYet, GiveUp
<1>8. ASSUME UNCHANGED bspVars
      PROVE  WalkInv'
  BY <1>8 DEF bspVars, tables, Table, TableInv
<1>9. ASSUME NEW c \in Cpus, CpuEntrance(c)
      PROVE  UNCHANGED bspVars
  BY <1>9 DEF CpuEntrance, Trampoline, Seize, Construct, CountCpu, Report, Release
<1>10. CASE UNCHANGED vars
  BY <1>8, <1>10 DEF vars
<1>11. QED
  BY <1>2, <1>3, <1>4, <1>5, <1>7, <1>8, <1>9, <1>10 DEF Next, StartCpus


\* A CPU is started at its entry, once, and the table is left with every CPU that
\* answers idle.
LEMMA NextVisit ==
    ASSUME TableInv, TablesFound, [Next]_vars
    PROVE  VisitInv'
<1> USE DEF Walking, Starting
<1>1. WalkInv /\ VisitInv /\ Inv
  BY DEF TableInv
<1>2. ASSUME boot # "acpi", UNCHANGED <<firmware, apicTable>>
      PROVE  Table' = Table /\ WellFormed(Table)
  BY <1>1, <1>2, FoundTable DEF Table
<1>3. alive \subseteq Usable \ {Boot} /\ alive \subseteq Cpus
  BY <1>1, BootAssumption DEF Inv, TypeInv
<1>4. CASE FindTables \/ NewDomain \/ Done
  BY <1>1, <1>4 DEF FindTables, NewDomain, Done, VisitInv
<1>5. CASE Configure
  <2>1. WellFormed(Table)
    BY <1>2, <1>5 DEF Configure, tables
  <2>2. GetDataSize(Table) \in Nat /\ 1 \in 1 .. LastEntry(Table) /\ Offset(Table, 1) = 0
        /\ Offset(Table, 1) \in 0 .. GetDataSize(Table) - 1
    BY <2>1 DEF WellFormed
  <2>3. CanIterate(Table)
    BY <2>2 DEF CanIterate
  <2>4. boot' = "entry" /\ ap' = ap /\ iterator'.at = 1 /\ \A c \in Cpus : ap[c] = "off"
    BY <1>1, <1>5, <2>3 DEF Configure, GetIterator, VisitInv
  <2>5. QED
    BY <2>4 DEF VisitInv
<1>6. CASE Visit \/ Skip
  <2>1. Table' = Table
    BY <1>2, <1>6 DEF Visit, Skip, tables
  <2>2. boot = "entry" /\ boot' \in {"next", "init"} /\ UNCHANGED <<ap, iterator, alive>>
    BY <1>6 DEF Visit, Skip
  <2>3. ASSUME boot' = "next", NEW c \in alive, Lists(Table, iterator.at, c)
        PROVE  FALSE
    BY <1>3, <1>6, <2>3 DEF Visit, Skip, Lists, GetData
  <2>4. QED
    BY <1>1, <2>1, <2>2, <2>3 DEF VisitInv
<1>7. CASE Advance
  <2>1. Table' = Table /\ WellFormed(Table)
    BY <1>2, <1>7 DEF Advance, tables
  <2>2. /\ boot = "next" /\ UNCHANGED <<ap, alive>>
        /\ iterator.at \in 1 .. LastEntry(Table)
        /\ iterator.dataSize = GetDataSize(Table) - Offset(Table, iterator.at)
    BY <1>1, <1>7 DEF Advance, WalkInv
  <2>3. CASE boot' = "entry"
    <3>1. iterator'.at = iterator.at + 1 /\ iterator.at \in Nat
      BY <1>7, <2>2, <2>3 DEF Advance, Following
    <3>2. QED
      BY <1>1, <2>1, <2>2, <2>3, <3>1 DEF VisitInv
  <2>4. CASE boot' = "leave"
    <3>1. Table.entries[iterator.at].size = iterator.dataSize
      BY <1>7, <2>4 DEF Advance, AtEnd, GetSize, GetData
    <3>2. /\ Offset(Table, iterator.at + 1) = Offset(Table, iterator.at)
                                                + Table.entries[iterator.at].size
          /\ Offset(Table, iterator.at) \in Nat /\ GetDataSize(Table) \in Nat
          /\ LastEntry(Table) \in Nat
          /\ \A i \in 1 .. LastEntry(Table) : Offset(Table, i) \in 0 .. GetDataSize(Table) - 1
      BY <2>1, <2>2, EntryFollows
    <3>3. Offset(Table, iterator.at + 1) = GetDataSize(Table)
      BY <2>2, <3>1, <3>2
    <3>4. iterator.at + 1 \notin 1 .. LastEntry(Table)
      BY <3>2, <3>3
    <3>5. iterator.at = LastEntry(Table)
      BY <2>2, <3>2, <3>4
    <3>6. \A c \in alive : \E i \in 1 .. iterator.at : Lists(Table, i, c)
      BY <1>3, <2>1, <3>5 DEF WellFormed
    <3>7. QED
      BY <1>1, <2>2, <2>4, <3>6 DEF VisitInv
  <2>5. QED
    BY <1>7, <2>3, <2>4 DEF Advance, VisitInv
<1>8. CASE SendInit
  <2>1. Table' = Table /\ WellFormed(Table)
    BY <1>2, <1>8 DEF SendInit, tables
  <2>2. /\ boot = "init" /\ boot' = "clear" /\ UNCHANGED <<iterator, alive>>
        /\ ap' = IF target \in alive THEN [ap EXCEPT ![target] = "wait"] ELSE ap
        /\ Lists(Table, iterator.at, target) /\ iterator.at \in 1 .. LastEntry(Table)
        /\ LastEntry(Table) \in Nat
    BY <1>1, <1>8, <2>1 DEF SendInit, WalkInv, WellFormed
  <2>3. ASSUME NEW c \in Cpus, ap'[c] # "off"
        PROVE  \E i \in 1 .. iterator.at : Lists(Table, i, c)
    <3>1. CASE c = target
      BY <2>2, <3>1
    <3>2. CASE c # target
      BY <1>1, <2>2, <2>3, <3>2 DEF VisitInv
    <3>3. QED
      BY <3>1, <3>2
  <2>4. ASSUME NEW i \in 1 .. iterator.at, NEW c \in alive, Lists(Table, i, c),
               i # iterator.at
        PROVE  ap'[c] = "idle"
    <3>1. i \in 1 .. LastEntry(Table) /\ c \in Cpus
      BY <1>3, <2>4 DEF Lists
    <3>2. c # target
      BY <2>1, <2>2, <2>4, <3>1 DEF WellFormed
    <3>3. ap[c] = "idle"
      BY <1>1, <2>2, <2>4 DEF VisitInv
    <3>4. QED
      BY <2>2, <3>2, <3>3
  <2>5. QED
    BY <2>1, <2>2, <2>3, <2>4 DEF VisitInv
<1>9. ASSUME boot \in Starting, boot' \in Starting, UNCHANGED <<tables, iterator, alive>>,
             \A c \in Cpus : (ap'[c] # "off" => ap[c] # "off")
                             /\ (ap[c] = "idle" => ap'[c] = "idle")
      PROVE  VisitInv'
  <2>1. Table' = Table
    BY <1>2, <1>9 DEF tables
  <2>2. QED
    BY <1>1, <1>3, <1>9, <2>1 DEF VisitInv
<1>10. CASE ClearFlag \/ NotYet \/ SendStartup
  <2>1. \A c \in Cpus : (ap'[c] # "off" => ap[c] # "off") /\ (ap[c] = "idle" => ap'[c] = "idle")
    BY <1>1, <1>10 DEF ClearFlag, NotYet, SendStartup, Inv, TypeInv
  <2>2. QED
    BY <1>9, <1>10, <2>1 DEF ClearFlag, NotYet, SendStartup
<1>11. CASE Reported \/ GiveUp
  <2>1. Table' = Table /\ boot \in Starting
    BY <1>2, <1>11 DEF Reported, GiveUp, tables
  <2>2. boot' = "next" /\ UNCHANGED <<ap, iterator, alive>>
    BY <1>11 DEF Reported, GiveUp
  <2>3. ASSUME NEW c \in alive, Lists(Table, iterator.at, c)
        PROVE  ap[c] = "idle"
    <3>1. c = target
      BY <1>1, <2>1, <2>3 DEF WalkInv, Lists
    <3>2. CASE Reported
      BY <1>1, <1>3, <2>3, <3>1, <3>2, FiniteAssumption
         DEF Reported, Inv, AnswerInv, LockInv, Holding
    <3>3. CASE GiveUp
      BY <1>1, <2>3, <3>1, <3>3 DEF GiveUp, Inv, AnswerInv
    <3>4. QED
      BY <1>11, <3>2, <3>3
  <2>4. QED
    BY <1>1, <2>1, <2>2, <2>3 DEF VisitInv
<1>12. ASSUME NEW c \in Cpus, CpuEntrance(c)
       PROVE  VisitInv'
  <2>1. UNCHANGED bspVars
    BY <1>12 DEF CpuEntrance, Trampoline, Seize, Construct, CountCpu, Report, Release
  <2>2. ap[c] \notin {"off", "idle"} /\ \A d \in Cpus \ {c} : ap'[d] = ap[d]
    BY <1>1, <1>12 DEF CpuEntrance, Trampoline, Seize, Construct, CountCpu, Report, Release,
                       Inv, TypeInv
  <2>3. boot \in Starting
    BY <1>1, <2>2 DEF Inv, TargetInv
  <2>4. QED
    BY <1>9, <2>1, <2>2, <2>3 DEF bspVars
<1>13. CASE UNCHANGED vars
  BY <1>1, <1>13 DEF vars, bspVars, tables, Table, VisitInv
<1>14. QED
  BY <1>4, <1>5, <1>6, <1>7, <1>8, <1>10, <1>11, <1>12, <1>13 DEF Next, StartCpus

-----------------------------------------------------------------------------
(* The Cpu objects.                                                        *)

\* The sets of CPUs are finite.
LEMMA FiniteCpus ==
    /\ IsFiniteSet(Usable) /\ Cardinality(Usable) \in Nat
    /\ IsFiniteSet(Counted) /\ Cardinality(Counted) \in Nat
    /\ IsFiniteSet(Started) /\ Cardinality(Started) \in Nat
<1>1. Usable \in SUBSET Cpus /\ Counted \in SUBSET Cpus /\ Started \in SUBSET Cpus
  BY BootAssumption DEF Counted, Started
<1>2. IsFiniteSet(Usable) /\ IsFiniteSet(Counted) /\ IsFiniteSet(Started)
  BY <1>1, FiniteAssumption, FS_Subset
<1>3. QED
  BY <1>2, FS_CardinalityType

\* The first Cpu object is that of the boot CPU.
LEMMA DomainCount ==
    ASSUME TableInv, TablesFound, NewDomain
    PROVE  ObjectInv' /\ CountInv'
<1>1. /\ count = 0 /\ amountUsed = 40 /\ count' = 1 /\ amountUsed' = 56
      /\ index \in [Cpus -> Int] /\ selector \in [Cpus -> Int]
      /\ \A c \in Cpus : index[c] = -1
      /\ boot = "domain" /\ boot' \in {"panic", "configure"}
  BY DEF TableInv, ObjectInv, NewDomain, NewCpu
<1>2. /\ index' = [index EXCEPT ![Boot] = 0]
      /\ selector' = [selector EXCEPT ![Boot] = 40]
      /\ ap' = ap
      /\ capacity' = CountLapics(Table, TRUE)
  BY <1>1 DEF NewDomain, NewCpu
<1>3. \A c \in Cpus : ap[c] = "off"
  BY <1>1 DEF TableInv, VisitInv
<1>4. Boot \in Cpus
  BY BootAssumption
<1>5. ObjectInv'
  BY <1>1, <1>2, <1>4 DEF ObjectInv
<1>6. Counted' = {Boot}
  BY <1>1, <1>2, <1>3, <1>4 DEF Counted
<1>7. Cardinality(Counted') = 1
  BY <1>6, FS_Singleton
<1>8. capacity' = Cardinality(Usable)
  BY <1>1, <1>2, FoundTable DEF TableInv, WellFormed
<1>9. /\ index'[Boot] = 0 /\ selector'[Boot] = 40
      /\ \A c \in Cpus \ {Boot} : index'[c] = -1
  BY <1>1, <1>2, <1>4
<1>10. \A c \in Cpus :
          /\ index'[c] >= 0 <=> c = Boot \/ ap'[c] \in {"count", "stall", "release", "idle"}
          /\ index'[c] >= 0 => selector'[c] = 40 + 16 * index'[c]
          /\ c \in Counted' => index'[c] < count'
          /\ ap'[c] # "count" /\ ap'[c] # "panic"
  BY <1>1, <1>2, <1>3, <1>4, <1>6, <1>9
<1>11. \A k \in 0 .. count' - 1 : \E c \in Counted' : index'[c] = k
  BY <1>1, <1>6, <1>9
<1>12. QED
  BY <1>1, <1>5, <1>6, <1>7, <1>8, <1>10, <1>11 DEF CountInv

\* A CPU that is being started was never started before.
LEMMA TargetIsOff ==
    ASSUME TableInv, TablesFound, boot = "init"
    PROVE  \A c \in Cpus : c = target => ap[c] = "off"
<1> SUFFICES ASSUME target \in Cpus, ap[target] # "off"
             PROVE  FALSE
  OBVIOUS
<1>1. WellFormed(Table)
  BY FoundTable DEF TableInv
<1>2. Lists(Table, iterator.at, target) /\ iterator.at \in 1 .. LastEntry(Table)
  BY DEF TableInv, WalkInv, Walking, Starting
<1>3. PICK i \in 1 .. iterator.at : Lists(Table, i, target) /\ i # iterator.at
  BY DEF TableInv, VisitInv, Walking
<1>4. i \in 1 .. LastEntry(Table)
  BY <1>3 DEF Lists
<1>5. QED
  BY <1>1, <1>2, <1>3, <1>4 DEF WellFormed

\* No other step of the boot CPU touches the Cpu objects.
LEMMA BootCount ==
    ASSUME TableInv, TablesFound, FindTables \/ StartCpus
    PROVE  ObjectInv' /\ CountInv'
<1>1. UNCHANGED cpuObjs /\ UNCHANGED capacity
  BY DEF StartCpus, FindTables, Configure, Visit, Skip, Advance, SendInit, ClearFlag,
         SendStartup, Reported, NotYet, GiveUp, Done, tables
<1>2. /\ boot' \in {"acpi", "domain"} => boot \in {"acpi", "domain"}
      /\ boot' \notin {"acpi", "domain", "panic"} => boot \notin {"acpi", "domain", "panic"}
  BY DEF StartCpus, FindTables, Configure, Visit, Skip, Advance, SendInit, ClearFlag,
         SendStartup, Reported, NotYet, GiveUp, Done
<1>3. ObjectInv'
  BY <1>1, <1>2 DEF TableInv, ObjectInv, cpuObjs
<1>4. ASSUME NEW c \in Cpus, boot \notin {"acpi", "domain", "panic"}
      PROVE  /\ ap'[c] = "count" <=> ap[c] = "count"
             /\ ap'[c] \in {"count", "stall", "release", "idle"} <=>
                    ap[c] \in {"count", "stall", "release", "idle"}
             /\ ap'[c] = "panic" <=> ap[c] = "panic"
  <2>1. ap \in [Cpus -> ApPcs]
    BY DEF TableInv, Inv, TypeInv
  <2>2. CASE SendInit
    BY <2>1, <2>2, TargetIsOff DEF SendInit
  <2>3. CASE SendStartup
    BY <2>1, <2>3 DEF SendStartup
  <2>4. CASE ap' = ap
    BY <2>4
  <2>5. QED
    BY <2>2, <2>3, <2>4 DEF StartCpus, FindTables, Configure, Visit, Skip, Advance, ClearFlag,
                            Reported, NotYet, GiveUp, Done
<1>5. boot \notin {"acpi", "domain", "panic"} => Counted' = Counted
  BY <1>1, <1>4 DEF Counted, cpuObjs
<1>6. QED
  BY <1>1, <1>2, <1>3, <1>4, <1>5 DEF TableInv, CountInv, cpuObjs

\* InitNewCpu never meets a full Domain, and its Cpu object and its Tss are behind all
\* the others.
LEMMA ApCount ==
    ASSUME TableInv, NEW c \in Cpus, CpuEntrance(c)
    PROVE  ObjectInv' /\ CountInv'
<1> USE FiniteCpus
<1>1. /\ ap \in [Cpus -> ApPcs] /\ ap[c] \notin {"off", "idle"}
      /\ \A d \in Cpus \ {c} : ap'[d] = ap[d]
  BY DEF CpuEntrance, Trampoline, Seize, Construct, CountCpu, Report, Release,
         TableInv, Inv, TypeInv, ApPcs
<1>2. /\ c = target /\ c \in alive /\ c \in Usable /\ c # Boot /\ boot \in Starting
      /\ \A d \in Cpus \ {c} : ap[d] \in {"off", "idle"}
  BY <1>1 DEF TableInv, Inv, TypeInv, TargetInv
<1>3. UNCHANGED <<boot, capacity, alive>>
  BY DEF CpuEntrance, Trampoline, Seize, Construct, CountCpu, Report, Release, bspVars, tables
<1>4. boot \notin {"acpi", "domain", "panic"} /\ boot' \notin {"acpi", "domain", "panic"}
  BY <1>2, <1>3 DEF Starting
<1>5. index \in [Cpus -> Int] /\ selector \in [Cpus -> Int] /\ ObjectInv
  BY DEF TableInv, ObjectInv
<1>6. /\ capacity = Cardinality(Usable)
      /\ count \in Nat /\ count = Cardinality(Counted)
      /\ \A d \in Cpus :
            /\ index[d] >= 0 <=> d = Boot \/ ap[d] \in {"count", "stall", "release", "idle"}
            /\ index[d] >= 0 => selector[d] = 40 + 16 * index[d]
            /\ d \in Counted => index[d] < count
            /\ ap[d] = "count" => index[d] = count /\ amountUsed = 40 + 16 * (count + 1)
            /\ ap[d] # "panic"
      /\ \A k \in 0 .. count - 1 : \E d \in Counted : index[d] = k
      /\ \A d, e \in Counted : index[d] = index[e] => d = e
      /\ (\A d \in Cpus : ap[d] # "count") => amountUsed = 40 + 16 * count
  BY <1>4 DEF TableInv, CountInv
<1>7. CASE Construct(c)
  <2>1. ap[c] = "construct" /\ count' = count
    BY <1>7 DEF Construct
  <2>2. amountUsed = 40 + 16 * count
    BY <1>2, <1>6, <2>1
  <2>3. index[c] < 0
    BY <1>2, <1>5, <1>6, <2>1
  <2>4. Counted \in SUBSET Usable /\ c \notin Counted
    <3>1. \A d \in Cpus : ap[d] # "off" => d \in Usable
      BY DEF TableInv, Inv, TypeInv
    <3>2. \A d \in Counted : d \in Cpus /\ index[d] >= 0 /\ d # c
      BY <1>5, <2>3 DEF Counted
    <3>3. \A d \in Counted : d = Boot \/ ap[d] # "off"
      BY <1>6, <3>2
    <3>4. QED
      BY <3>1, <3>2, <3>3, BootAssumption
  <2>5. count < capacity
    BY <1>2, <1>6, <2>4, FS_Subset
  <2>6. /\ index' = [index EXCEPT ![c] = count] /\ selector' = [selector EXCEPT ![c] = amountUsed]
        /\ amountUsed' = amountUsed + 16 /\ ap'[c] = "count"
    BY <1>1, <1>7, <2>5 DEF Construct, NewCpu
  <2>7. Counted' = Counted
    BY <1>1, <1>5, <2>1, <2>3, <2>6 DEF Counted
  <2>8. ObjectInv'
    BY <1>4, <1>5, <1>6, <2>2, <2>6 DEF ObjectInv
  <2>9. index'[c] = count /\ selector'[c] = 40 + 16 * count
        /\ \A d \in Cpus \ {c} : index'[d] = index[d] /\ selector'[d] = selector[d]
    BY <1>5, <2>2, <2>6
  <2>10. \A d \in Cpus :
            /\ index'[d] >= 0 <=> d = Boot \/ ap'[d] \in {"count", "stall", "release", "idle"}
            /\ index'[d] >= 0 => selector'[d] = 40 + 16 * index'[d]
            /\ ap'[d] = "count" => index'[d] = count /\ amountUsed' = 40 + 16 * (count + 1)
            /\ ap'[d] # "panic"
    BY <1>1, <1>2, <1>6, <2>2, <2>6, <2>9
  <2>11. \A d \in Counted : d \in Cpus \ {c} /\ index'[d] = index[d]
    BY <2>4, <2>9 DEF Counted
  <2>12. QED
    BY <1>3, <1>6, <2>1, <2>6, <2>7, <2>8, <2>10, <2>11 DEF CountInv
<1>8. CASE CountCpu(c)
  <2>1. /\ ap[c] = "count" /\ count' = count + 1 /\ ap'[c] = "stall"
        /\ UNCHANGED <<index, amountUsed, selector>>
    BY <1>1, <1>8 DEF CountCpu
  <2>2. index[c] = count /\ amountUsed = 40 + 16 * (count + 1)
    BY <1>6, <2>1
  <2>3. Counted' = Counted \union {c} /\ c \notin Counted
    BY <1>1, <1>6, <2>1, <2>2 DEF Counted
  <2>4. Cardinality(Counted') = count + 1
    BY <1>6, <2>3, FS_AddElement
  <2>5. ObjectInv'
    BY <1>4, <1>5, <2>1 DEF ObjectInv
  <2>6. \A d \in Cpus :
            /\ index'[d] >= 0 <=> d = Boot \/ ap'[d] \in {"count", "stall", "release", "idle"}
            /\ index'[d] >= 0 => selector'[d] = 40 + 16 * index'[d]
            /\ ap'[d] # "count" /\ ap'[d] # "panic"
    BY <1>1, <1>2, <1>6, <2>1
  <2>7. \A d \in Counted' : index[d] < count + 1
    BY <1>5, <1>6, <2>2, <2>3 DEF Counted
  <2>8. \A k \in 0 .. count : \E d \in Counted' : index[d] = k
    BY <1>6, <2>2, <2>3
  <2>9. \A d, e \in Counted' : index[d] = index[e] => d = e
    BY <1>6, <2>2, <2>3 DEF Counted
  <2>10. QED
    BY <1>3, <1>6, <2>1, <2>2, <2>4, <2>5, <2>6, <2>7, <2>8, <2>9 DEF CountInv
<1>9. CASE Trampoline(c) \/ Seize(c) \/ Report(c) \/ Release(c)
  <2>1. /\ UNCHANGED cpuObjs
        /\ ap[c] # "count" /\ ap'[c] # "count" /\ ap'[c] # "panic"
        /\ ap'[c] \in {"stall", "release", "idle"} <=> ap[c] \in {"stall", "release", "idle"}
    BY <1>1, <1>9 DEF Trampoline, Seize, Report, Release
  <2>2. Counted' = Counted
    BY <1>1, <2>1 DEF Counted, cpuObjs
  <2>3. ObjectInv'
    BY <1>4, <1>5, <2>1 DEF ObjectInv, cpuObjs
  <2>4. \A d \in Cpus :
            /\ index'[d] >= 0 <=> d = Boot \/ ap'[d] \in {"count", "stall", "release", "idle"}
            /\ ap'[d] # "count" /\ ap'[d] # "panic" /\ ap[d] # "count"
    BY <1>1, <1>2, <1>6, <2>1 DEF cpuObjs
  <2>5. QED
    BY <1>3, <1>6, <2>1, <2>2, <2>3, <2>4 DEF CountInv, cpuObjs
<1>10. QED
  BY <1>7, <1>8, <1>9 DEF CpuEntrance

-----------------------------------------------------------------------------

\* The invariant for well-formed tables holds at first, and every step keeps it.
LEMMA InitTable == Init => TableInv
<1> SUFFICES ASSUME Init
             PROVE  TableInv
  OBVIOUS
<1>1. WalkInv /\ VisitInv /\ CountInv /\ ObjectInv
  BY DEF Init, WalkInv, VisitInv, CountInv, ObjectInv, Walking, Starting
<1>2. QED
  BY <1>1, InitInv DEF TableInv

LEMMA NextTable ==
    ASSUME TableInv, TablesFound, [Next]_vars
    PROVE  TableInv'
<1>1. Inv'
  <2>1. CASE UNCHANGED vars
    BY <2>1 DEF vars, bspVars, TableInv, Inv, TypeInv, TargetInv, AnswerInv, LockInv, StackInv
  <2>2. QED
    BY <2>1, BootInv, ApInv DEF Next, TableInv
<1>2. ObjectInv' /\ CountInv'
  <2>1. CASE UNCHANGED vars
    BY <2>1 DEF vars, bspVars, tables, cpuObjs, TableInv, ObjectInv, CountInv, Counted
  <2>2. QED
    BY <2>1, DomainCount, BootCount, ApCount DEF Next
<1>3. QED
  BY <1>1, <1>2, NextWalk, NextVisit DEF TableInv

\* For every well-formed table: when StartCpus returns, the CPUs that answer, however
\* many they are, have been started, each has a Cpu object and a segment of its own,
\* and initLock is free.
THEOREM AllAreStarted == Spec => []AllStarted
<1>1. TableInv => AllStarted
  <2> SUFFICES ASSUME TableInv, boot = "done"
               PROVE  /\ Started = alive \union {Boot}
                      /\ {index[c] : c \in Started} = 0 .. Cardinality(Started) - 1
                      /\ count = Cardinality(Started)
                      /\ Cardinality({selector[c] : c \in Started}) = Cardinality(Started)
                      /\ initLock = NoCpu
    BY DEF AllStarted
  <2> USE FiniteCpus
  <2>1. /\ \A c \in alive : ap[c] = "idle"
        /\ \A c \in Cpus \ alive : ap[c] = "off"
        /\ alive \subseteq Cpus /\ Boot \in Cpus
    BY BootAssumption DEF TableInv, VisitInv, Inv, TypeInv
  <2>2. /\ count \in Nat /\ count = Cardinality(Counted)
        /\ \A c \in Cpus :
              /\ index[c] >= 0 <=> c = Boot \/ ap[c] \in {"count", "stall", "release", "idle"}
              /\ index[c] >= 0 => selector[c] = 40 + 16 * index[c]
              /\ c \in Counted => index[c] < count
        /\ \A k \in 0 .. count - 1 : \E c \in Counted : index[c] = k
        /\ \A c, d \in Counted : index[c] = index[d] => c = d
    BY DEF TableInv, CountInv
  <2>3. index \in [Cpus -> Int] /\ selector \in [Cpus -> Int]
    BY DEF TableInv, ObjectInv
  <2>4. Started = Counted
    BY <2>1 DEF Started, Counted
  <2>5. Started = alive \union {Boot}
    BY <2>1, <2>2 DEF Started
  <2>6. {index[c] : c \in Started} = 0 .. Cardinality(Started) - 1
    <3>1. \A c \in Started : index[c] \in 0 .. count - 1
      BY <2>2, <2>3, <2>4 DEF Started
    <3>2. QED
      BY <2>2, <2>4, <3>1
  <2>7. Cardinality({selector[c] : c \in Started}) = Cardinality(Started)
    <3> DEFINE T == {selector[c] : c \in Started}
               f == [c \in Started |-> selector[c]]
    <3>1. \A c, d \in Started : selector[c] = selector[d] => c = d
      BY <2>2, <2>3, <2>4 DEF Started
    <3>2. f \in Surjection(Started, T)
      BY DEF Surjection
    <3>3. f \in Injection(Started, T)
      BY <3>1, <3>2 DEF Injection, Surjection, IsInjective
    <3>4. QED
      BY <3>2, <3>3, FS_Surjection
  <2>8. initLock = NoCpu
    BY <2>1 DEF TableInv, Inv, TypeInv, LockInv, Holding
  <2>9. QED
    BY <2>2, <2>4, <2>5, <2>6, <2>7, <2>8
<1>2. TableInv /\ TablesFound /\ [Next]_vars => TableInv'
  BY NextTable
<1>3. QED
  BY <1>1, <1>2, InitTable, TablesAreFound, PTL DEF Spec

=============================================================================
