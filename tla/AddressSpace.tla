----------------------------- MODULE AddressSpace -----------------------------
(***************************************************************************)
(* The vocabulary the memory-map modules share: address spaces, virtual    *)
(* pages and the split between the kernel half, which every map shares,    *)
(* and the user half, which each x64::UserMap has for itself.              *)
(***************************************************************************)
EXTENDS Integers

CONSTANTS
    Cpus,       \* the hardware threads of all domains
    UserMaps,   \* the x64::UserMap objects
    Global,     \* the GlobalMap, NULL in Tlb::WillSetAddressSpace
    Frames,     \* physical pages
    NoFrame,    \* a page table entry that is not present
    AddrEnd,    \* virtual pages are 0 .. AddrEnd - 1
    KernelEnd,  \* PageTable::KernelEnd: kernel pages are those below it
    Requests    \* the page ranges callers ask for

Maps  == UserMaps \union {Global}
Addrs == 0 .. (AddrEnd - 1)

ASSUME AddrAssumption == AddrEnd \in Nat /\ KernelEnd \in 0 .. AddrEnd

ASSUME MapAssumption == Global \notin UserMaps

ASSUME FrameAssumption == NoFrame \notin Frames

\* A request is a range of whole pages of one half of the address space.
ASSUME RequestAssumption ==
    \A r \in Requests :
        /\ r = [start |-> r.start, size |-> r.size]
        /\ r.start \in Addrs
        /\ r.size \in Nat \ {0}
        /\ r.start + r.size <= AddrEnd
        /\ r.start < KernelEnd => r.start + r.size <= KernelEnd

Pages(r) == r.start .. (r.start + r.size - 1)

\* The map whose page table translates page a while map m is loaded: entry 0
\* of every user PML4 is the PDPT of the global map.
Owner(m, a) == IF a < KernelEnd THEN Global ELSE m

\* Mutant: the loop over the pages runs once too often.
SetPagesOverrun(t, r, f) ==
    [a \in Addrs \union {r.start + r.size} |->
        IF a \in r.start .. (r.start + r.size) THEN f ELSE t[a]]

\* A table, or a cache of one, with the pages of r set to f.
SetPages(t, r, f) == [a \in Addrs |-> IF a \in Pages(r) THEN f ELSE t[a]]

\* A cache without its user half.
KernelPart(t) == [a \in Addrs |-> IF a < KernelEnd THEN t[a] ELSE NoFrame]
=============================================================================
