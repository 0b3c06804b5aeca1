--------------------------------- MODULE Acpi ---------------------------------
(***************************************************************************)
(* The ACPI tables (arch/x64/acpi): how AcpiModule::Initialize gets from   *)
(* the BIOS areas to the table of the interrupt controllers, and how       *)
(* ApicTable walks through that table.                                     *)
(*                                                                         *)
(* A firmware is a record: bios holds, by address, what has the signature  *)
(* of a root pointer; memory holds, by address, the tables.  A table has a *)
(* length in bytes, and what is stored behind that length is not part of   *)
(* it.                                                                     *)
(***************************************************************************)
EXTENDS Integers, Sequences, SequencesExt

-----------------------------------------------------------------------------
(* The root pointer and the root table.                                    *)

\* Mutant: the checksum does not wrap around.
MemChecksumWide(bytes) == FoldSeq(+, 0, bytes)

MemChecksum(bytes) == FoldSeq(+, 0, bytes) % 256

\* The whole potential EBDA, and the BIOS read-only memory.
BiosAreas == (524288 .. 654335) \union (917504 .. 1048575)

\* The first valid pointer, 0 if there is none.
Find(firmware) ==
    LET valid == {p \in DOMAIN firmware.bios :
                     p \in BiosAreas /\ MemChecksum(firmware.bios[p].bytes) = 0}
    IN  IF valid = {} THEN 0 ELSE Min(valid)

\* Revision 0 knows only the table with pointers of 32 bits.
GenerateRoot(pointer) ==
    IF pointer.revision = 0 THEN [base |-> pointer.ptrRSDT, width |-> 4]
    ELSE [base |-> pointer.ptrXSDT, width |-> 8]

RootHeader == 36

\* Rsdt::GetCount and Xsdt::GetCount.
GetCount(firmware, root) == (firmware.memory[root.base].length - RootHeader) \div root.width

GetTable(firmware, root, i) == firmware.memory[root.base].tables[i]

\* The address of the first table with this name, 0 if there is none.
FindTable(firmware, root, name) ==
    LET named == {i \in 1 .. GetCount(firmware, root) :
                     firmware.memory[GetTable(firmware, root, i)].signature = name}
    IN  IF named = {} THEN 0 ELSE GetTable(firmware, root, Min(named))

-----------------------------------------------------------------------------
(* ApicTable: entries of several types and sizes, one after the other.     *)

Lapic(id, usable)   == [type |-> 0, size |-> 8, id |-> id, usable |-> usable]
IOApicAt(base)      == [type |-> 1, size |-> 12, interruptBase |-> base]
Iso(bus, source, interrupt, flags) ==
    [type |-> 2, size |-> 10, bus |-> bus, source |-> source, interrupt |-> interrupt,
     flags |-> flags]
X2Apic(id, usable)  == [type |-> 9, size |-> 16, id |-> id, usable |-> usable]

IsLapic(entry) == entry.type \in {0, 9}

ApicHeader == 44

GetDataSize(table) == table.length - ApicHeader
CanIterate(table)  == GetDataSize(table) > 0

GetIterator(table)   == [at |-> 1, dataSize |-> GetDataSize(table)]
GetData(table, iter) == table.entries[iter.at]
GetSize(table, iter) == GetData(table, iter).size

\* Iterator::Next: it returns false at the end, and asserts not to be past it.
AtEnd(table, iter)     == GetSize(table, iter) = iter.dataSize
IsBroken(table, iter)  == GetSize(table, iter) > iter.dataSize
Following(table, iter) == [at |-> iter.at + 1, dataSize |-> iter.dataSize - GetSize(table, iter)]

\* Where an entry begins, the last entry, and the entries a loop over the table
\* visits, in their order.
Offset(table, n) ==
    FoldSeq(+, 0, SubSeq([i \in DOMAIN table.entries |-> table.entries[i].size], 1, n - 1))

LastEntry(table) ==
    Max({0} \union {n \in DOMAIN table.entries : Offset(table, n) < GetDataSize(table)})

Visited(table) == SubSeq(table.entries, 1, LastEntry(table))

CountLapics(table, checkUsable) ==
    Len(SelectSeq(Visited(table), LAMBDA e : IsLapic(e) /\ (checkUsable => e.usable)))

\* A sequence of the first entry that is meant, or of nothing.
First(entries) == IF entries = <<>> THEN <<>> ELSE <<Head(entries)>>

LookupIso(table, irq) ==
    First(SelectSeq(Visited(table), LAMBDA e : e.type = 2 /\ e.source = irq /\ e.bus = 0))

LookupIOApic(table, base) ==
    First(SelectSeq(Visited(table), LAMBDA e : e.type = 1 /\ e.interruptBase = base))
=============================================================================
