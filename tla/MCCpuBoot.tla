------------------------------ MODULE MCCpuBoot ------------------------------
(* Small instances of CpuBoot.                                               *)
EXTENDS CpuBoot

CONSTANTS c0, c1, c2, c3

\* The ACPI table lists four CPUs, one of which is not usable.
Listed == {c0, c1, c2, c3}
Working == {c0, c1, c2}

TableOf(entries, size) ==
    [signature |-> "APIC", length |-> ApicHeader + size, entries |-> entries]
OtherTable(name) == [signature |-> name, length |-> 56]
RootOf(n, width, list) == [length |-> RootHeader + n * width, tables |-> list]

Pointer(bytes, revision, rsdt, xsdt) ==
    [bytes |-> bytes, revision |-> revision, ptrRSDT |-> rsdt, ptrXSDT |-> xsdt]

\* A table with an entry behind its end, and tables behind the end of the root; a
\* root pointer with a wrong checksum, and one outside of the areas.
OldFirmware ==
    [bios |-> [p \in {4096, 524288, 1048575} |->
                  Pointer(IF p = 524288 THEN <<200, 57>> ELSE <<200, 56>>, 0,
                          IF p = 1048575 THEN 100 ELSE 101, 0)],
     memory |-> (100 :> RootOf(2, 4, <<300, 200, 201>>)) @@ (101 :> RootOf(1, 4, <<201>>))
             @@ (200 :> TableOf(<<Lapic(c0, TRUE), IOApicAt(0), Lapic(c1, TRUE),
                                  Iso(0, 0, 2, 0), Lapic(c2, TRUE), Lapic(c3, FALSE),
                                  Lapic(c1, TRUE)>>, 54))
             @@ (201 :> TableOf(<<Lapic(c0, TRUE), Lapic(c3, TRUE)>>, 16))
             @@ (300 :> OtherTable("HPET")),
     madt |-> 200, hpet |-> 300]

\* A root table with pointers of 64 bits beside an empty one, no HPET, and CPUs with
\* entries of either type, the boot CPU last.
NewFirmware ==
    [bios |-> 654335 :> Pointer(<<0, 0>>, 2, 100, 101),
     memory |-> (100 :> RootOf(0, 4, <<>>)) @@ (101 :> RootOf(2, 8, <<300, 200, 301>>))
             @@ (200 :> TableOf(<<Iso(0, 9, 9, 13), X2Apic(c1, TRUE), Lapic(c3, FALSE),
                                  X2Apic(c2, TRUE), Lapic(c0, TRUE), Iso(1, 0, 4, 0)>>, 58))
             @@ (300 :> OtherTable("FACP")) @@ (301 :> OtherTable("HPET")),
     madt |-> 200, hpet |-> 0]

OldAndNew == {OldFirmware, NewFirmware}
=============================================================================
