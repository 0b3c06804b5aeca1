------------------------------ MODULE PageTable ------------------------------
(***************************************************************************)
(* PageTable (arch/x64/vmm/page-table.cpp) as operations on a value.  A    *)
(* space sp is a record: sp.ent[d][i] is the entry of slot i at depth d    *)
(* and sp.used the physical frames that hold tables.  Slots are numbered   *)
(* through the address space, as the fractal map of GetTableEntry does, so *)
(* that slots below an entry that is no table have no meaning.             *)
(*                                                                         *)
(* Addresses are in units of 0x1000 / PageUnits bytes.  The kernel half is *)
(* the one slot of depth 0 that is modelled.                               *)
(***************************************************************************)
EXTENDS Integers, FiniteSets, FiniteSetsExt

CONSTANTS
    Depth,      \* levels of the table, 4 in the code
    Fanout,     \* entries of a table, 0x200 in the code
    PageUnits,  \* size of a small page, 0x1000 in the code
    Frames      \* physical frames that tables can be allocated from

ASSUME TableAssumption ==
    /\ Depth \in Nat /\ Depth >= 2
    /\ Fanout \in Nat \ {0} /\ PageUnits \in Nat \ {0}

Depths == 0 .. (Depth - 1)
Leaf   == Depth - 1

\* 0x1000 << (27 - 9 * depth)
SlotSize == [d \in Depths |-> PageUnits * (Fanout ^ (Leaf - d))]

SmallPage == SlotSize[Leaf]
BigPage   == SlotSize[Leaf - 1]
KernelEnd == SlotSize[0]

\* The depth at which pages of a size are entered.
CalcDepth(pageSize) == CHOOSE d \in Depths : SlotSize[d] = pageSize

\* An entry is empty, refers to a table, maps a page, or marks an address as
\* reserved: GlobalMap writes the page size, which leaves bit 0 clear and sets
\* the bits of an address.  frame is what the table or the page is kept in.
Entry(kind, frame) == [kind |-> kind, frame |-> frame]
Empty         == Entry("empty", <<"none", 0>>)
TableEntry(f) == Entry("table", <<"table", f>>)
PageEntry(p)  == Entry("page", p)
Reserved      == Entry("reserved", <<"none", 0>>)

\* Bit 0, and bit 0x80, which marks what is not a table above the last level.
IsPresent(e) == e.kind \in {"table", "page"}
IsHuge(e, d) == e.kind \in {"page", "reserved"} /\ d < Leaf

Slot(addr, d) == addr \div SlotSize[d]
GetTableEntry(sp, addr, d) == sp.ent[d][Slot(addr, d)]

\* The slots of the table that holds the entry of addr at depth d.
GetTable(addr, d) ==
    LET first == (Slot(addr, d) \div Fanout) * Fanout
    IN  first .. (first + Fanout - 1)

WithEntry(sp, addr, d, e) == [sp EXCEPT !.ent[d][Slot(addr, d)] = e]

-----------------------------------------------------------------------------
(* Reading.                                                                *)

\* Walk: the depth is -1 unless the entry is a page or a large reservation.
\* The reservation of a small page is not present and reads as unmapped.
Walk(sp, addr) ==
    LET stops == {d \in Depths : \/ IsHuge(GetTableEntry(sp, addr, d), d)
                                 \/ ~IsPresent(GetTableEntry(sp, addr, d))}
        d == IF stops = {} THEN Leaf ELSE Min(stops)
        e == GetTableEntry(sp, addr, d)
    IN  [depth |-> IF stops = {} \/ IsHuge(e, d) THEN d ELSE -1,
         entry |-> e,
         size  |-> SlotSize[d]]

\* Read: the frame of the page that is mapped at addr.
Read(sp, addr) ==
    LET w == Walk(sp, addr)
    IN  [ok |-> w.depth >= 0, phys |-> w.entry.frame, size |-> w.size]

-----------------------------------------------------------------------------
(* Writing.  A result has ok = FALSE when the code panics: a large page is *)
(* in the way, an assertion fails, or no frame is left for a table.        *)
(* flushed has the tables, by depth and number, whose address in the       *)
(* fractal map was given to DistributeInvlpg.                              *)

Result(sp, flushed) == [ok |-> TRUE, sp |-> sp, flushed |-> flushed]
Done(sp) == Result(sp, {})
Panics   == [Done([ent |-> <<>>, used |-> {}]) EXCEPT !.ok = FALSE]

\* One turn of the loop of Set.  A large reservation is not present: a table
\* takes its place.
Descend(sp, addr, d) ==
    LET e == GetTableEntry(sp, addr, d)
        fresh == Frames \ sp.used
    IN  IF ~IsPresent(e)
        THEN IF fresh = {} THEN Panics
             ELSE LET f == CHOOSE f \in fresh : TRUE
                      linked == WithEntry(sp, addr, d, TableEntry(f)).ent
                  IN  Done([ent  |-> [linked EXCEPT ![d + 1] = [i \in DOMAIN @ |->
                                IF i \div Fanout = Slot(addr, d) THEN Empty ELSE @[i]]],
                            used |-> sp.used \union {f}])
        ELSE IF IsHuge(e, d) THEN Panics ELSE Done(sp)

Set(sp, addr, e, depth) ==
    LET path[d \in 0 .. depth] ==
            IF d = 0 THEN Done(sp)
            ELSE LET r == path[d - 1]
                 IN  IF r.ok THEN Descend(r.sp, addr, d - 1) ELSE Panics
        last == path[depth]
    IN  IF addr % SlotSize[depth] # 0 \/ ~last.ok THEN Panics
        ELSE Done(WithEntry(last.sp, addr, depth, e))

\* SetList: count pages; pages[i] is what entry i gets.
SetList(sp, addr, pageSize, count, pages) ==
    LET list[i \in 0 .. count] ==
            IF i = 0 THEN Done(sp)
            ELSE LET r == list[i - 1]
                 IN  IF r.ok THEN Set(r.sp, addr + (i - 1) * pageSize, pages[i - 1],
                                      CalcDepth(pageSize))
                     ELSE Panics
    IN  list[count]

\* The tables that Unset finds empty, and frees, on its way up from depth d.
IsEmptyTable(sp, addr, d) ==
    \A i \in GetTable(addr, d) : sp.ent[d][i] = Empty

\* Mutant: an empty table is unlinked and not given back.
UnlinkEmpty(sp, addr, depth) ==
    IF depth > 0 /\ IsEmptyTable(sp, addr, depth)
    THEN Done(WithEntry(sp, addr, depth - 1, Empty)) ELSE Done(sp)

\* Mutant: the table above the one that is freed is flushed.
FlushParent(addr, depth) == {<<depth - 1, Slot(addr, depth - 1) \div Fanout>>}

\* The table that holds the entry of addr at a depth.
FlushTable(addr, depth) == {<<depth, Slot(addr, depth - 1)>>}

FreeEmpty(sp, addr, depth) ==
    LET up[d \in 0 .. depth] ==
            IF d = depth THEN Done(sp)
            ELSE LET r == up[d + 1]
                 IN  IF IsEmptyTable(r.sp, addr, d + 1)
                     THEN Result([WithEntry(r.sp, addr, d, Empty) EXCEPT
                                    !.used = @ \ {GetTableEntry(r.sp, addr, d).frame[2]}],
                                 r.flushed \union FlushTable(addr, d + 1))
                     ELSE r
    IN  up[0]

\* Where Unset clears an entry: the first large page, or the last level.
UnsetDepth(sp, addr) ==
    LET huge == {d \in 0 .. (Leaf - 1) : IsHuge(GetTableEntry(sp, addr, d), d)}
    IN  IF huge = {} THEN Leaf ELSE Min(huge)

Unset(sp, addr) ==
    LET depth == UnsetDepth(sp, addr)
    IN  IF \E d \in 0 .. (depth - 1) : ~IsPresent(GetTableEntry(sp, addr, d))
        THEN Panics
        ELSE FreeEmpty(WithEntry(sp, addr, depth, Empty), addr, depth)

UnsetList(sp, addr, pageSize, count) ==
    LET list[i \in 0 .. count] ==
            IF i = 0 THEN Done(sp)
            ELSE LET r == list[i - 1]
                     u == Unset(r.sp, addr + (i - 1) * pageSize)
                 IN  IF r.ok THEN [u EXCEPT !.flushed = @ \union r.flushed] ELSE Panics
    IN  list[count]

=============================================================================
