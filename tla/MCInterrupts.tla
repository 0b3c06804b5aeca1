----------------------------- MODULE MCInterrupts -----------------------------
(* Small instances of Interrupts.                                             *)
EXTENDS Interrupts

\* The usual override of a PC, the PIT on pin 2, behind one for another bus; the line
\* of the driver is active low and triggered by its level.
PcTable ==
    [signature |-> "APIC", length |-> ApicHeader + 58,
     entries |-> <<Lapic(0, TRUE), Iso(1, 0, 1, 0), Iso(0, 0, 2, 0), Lapic(1, TRUE),
                   IOApicAt(0), Iso(0, 1, 1, 15)>>]
=============================================================================
