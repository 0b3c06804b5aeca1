--------------------------------- MODULE Heap ---------------------------------
(***************************************************************************)
(* The kernel heap on top of BootMemory: Malloc (memory/malloc.cpp) gets   *)
(* its segments from Allocator::AllocAndMap (arch/api/allocator.cpp), and  *)
(* callers reach it through Domain (arch/api/domain.cpp).                  *)
(*                                                                         *)
(* Each access under a lock is one step: the GlobalMap, a cluster of the   *)
(* BuddyAllocator, firstSegment, and the blocks of a segment.  poolSize is *)
(* BigPage; a segment is used in cells, the first of which hold its header *)
(* and the tree of its allocator.                                          *)
(***************************************************************************)
EXTENDS BootMemory

CONSTANTS
    Cpus,
    Addresses,     \* page addresses of the kernel's memory map that are free
    Cells,         \* cells of a segment
    HeaderCells,   \* those that the segment itself needs
    BlockSizes     \* sizes callers ask for, in cells

ASSUME HeapAssumption ==
    /\ Addresses \subseteq Nat
    /\ Cells \in Nat
    /\ HeaderCells \in Nat
    /\ BlockSizes \subseteq Nat

VARIABLES
    vmap,      \* vmap[a]: what address a is mapped to
    segments,  \* addresses of the segments, oldest first: firstSegment is the last
    blocks,    \* blocks handed out and not freed
    clients,   \* frames that other callers of the BuddyAllocator hold
    cpu,       \* what each CPU is doing
    twice      \* history: addresses reserved by a CPU have been given to another

vars == <<bootVars, buddy, owned, vmap, segments, blocks, clients, cpu, twice>>

heapVars == <<vmap, segments, blocks, cpu, twice>>

\* A page of the map: nothing, reserved, or mapped to a frame.  size is that of
\* the page an address belongs to.
Unmapped     == [use |-> "none", size |-> 0, frame |-> 0]
Held(size)   == [use |-> "reserved", size |-> size, frame |-> 0]
Mapped(size, f) == [use |-> "mapped", size |-> size, frame |-> f]

NoBlock == [segment |-> 0, first |-> 0, size |-> 0]
CellsOf(b) == b.first .. (b.first + b.size - 1)

\* pc: what is next; at: the segment a list walk is at, 0 past its end, as a
\* position in segments (next leads to the one created before); dest and source:
\* where AllocAndMap and FreeAndUnmap have got to.
Idle == [pc |-> "idle", size |-> 0, at |-> 0, again |-> FALSE, base |-> 0, dest |-> 0,
         source |-> 0, pageSize |-> Page, frame |-> 0, block |-> NoBlock]

Init ==
    /\ BootInit
    /\ vmap = [a \in Addresses |-> Unmapped]
    /\ segments = <<>>
    /\ blocks = {}
    /\ clients = {}
    /\ cpu = [c \in Cpus |-> Idle]
    /\ twice = FALSE

\* The heap is followed until addresses have been given away twice: from there on a
\* CPU overwrites what another has mapped, and FreeAndUnmap may panic.
At(c, pc) == phase = "ready" /\ ~twice /\ cpu[c].pc = pc

\* The segment at a position.
Segment(at) == segments[at]

-----------------------------------------------------------------------------
(* Malloc.                                                                 *)

\* Alloc, of less than half the pool.
Alloc(c, size) ==
    /\ At(c, "idle") /\ size < Cells \div 2
    /\ cpu' = [cpu EXCEPT ![c] = [Idle EXCEPT !.pc = "search", !.size = size,
                                              !.at = Len(segments)]]
    /\ UNCHANGED <<bootVars, buddy, owned, vmap, segments, blocks, twice>>

FreeRuns(seg, size) ==
    {b \in {[segment |-> seg, first |-> i, size |-> size] :
                i \in HeaderCells .. (Cells - size)} :
        \A o \in blocks : o.segment = seg => CellsOf(o) \intersect CellsOf(b) = {}}

\* AllocNoNewSegment: try the segment and go on to next.
Search(c) ==
    /\ At(c, "search") /\ cpu[c].at > 0
    /\ LET runs == FreeRuns(Segment(cpu[c].at), cpu[c].size)
       IN  IF runs = {}
           THEN /\ cpu' = [cpu EXCEPT ![c].at = @ - 1]
                /\ UNCHANGED blocks
           ELSE /\ blocks' = blocks \union {CHOOSE b \in runs :
                                                \A o \in runs : b.first <= o.first}
                /\ cpu' = [cpu EXCEPT ![c] = Idle]
    /\ UNCHANGED <<bootVars, buddy, owned, vmap, segments, twice>>

\* No segment has room: create one, or return false the second time.
NotFound(c) ==
    /\ At(c, "search") /\ cpu[c].at = 0
    /\ cpu' = [cpu EXCEPT ![c] = IF @.again THEN Idle
                                 ELSE [@ EXCEPT !.pc = "reserve", !.pageSize = BigPage]]
    /\ UNCHANGED <<bootVars, buddy, owned, vmap, segments, blocks, twice>>

\* CreateSegment makes the new segment firstSegment, and its next the old one.
Linked(c) == Append(segments, cpu[c].base)

CreateSegment(c) ==
    /\ At(c, "link")
    /\ segments' = Linked(c)
    /\ cpu' = [cpu EXCEPT ![c] = [Idle EXCEPT !.pc = "search", !.size = cpu[c].size,
                                              !.at = Len(segments'), !.again = TRUE]]
    /\ UNCHANGED <<bootVars, buddy, owned, vmap, blocks, twice>>

\* Domain::Free asks Malloc::Owns and calls Malloc::Free: each reads firstSegment
\* and then looks at that segment, again and again if the block is not its own:
\* such a CPU takes no further step.
Free(c, b) ==
    /\ At(c, "idle") /\ b \in blocks
    /\ \A d \in Cpus : cpu[d].block # b
    /\ cpu' = [cpu EXCEPT ![c] = [Idle EXCEPT !.pc = "owns", !.block = b,
                                              !.at = Len(segments)]]
    /\ UNCHANGED <<bootVars, buddy, owned, vmap, segments, blocks, twice>>

IsOwner(c) == Segment(cpu[c].at) = cpu[c].block.segment

Owns(c) ==
    /\ At(c, "owns") /\ IsOwner(c)
    /\ cpu' = [cpu EXCEPT ![c].pc = "free", ![c].at = Len(segments)]
    /\ UNCHANGED <<bootVars, buddy, owned, vmap, segments, blocks, twice>>

FreeBlock(c) ==
    /\ At(c, "free") /\ IsOwner(c)
    /\ blocks' = blocks \ {cpu[c].block}
    /\ cpu' = [cpu EXCEPT ![c] = Idle]
    /\ UNCHANGED <<bootVars, buddy, owned, vmap, segments, twice>>

-----------------------------------------------------------------------------
(* Allocator.                                                              *)

Pages(a, size) == {a + i * Page : i \in 0 .. (size \div Page - 1)}

\* The memory map when some of its pages change.
Changed(pages, entry) == [p \in Addresses |-> IF p \in pages THEN entry ELSE vmap[p]]

\* Mutant: whatever is in small pages passes for free.
IsFreeIfSmall(p) == vmap[p].size # BigPage

\* What UpdateFreeRegion takes for free: a reservation of small pages reads as
\* unmapped.
IsFree(p) == vmap[p].use = "none" \/ vmap[p] = Held(Page)

Reservable(pageSize) ==
    {a \in Addresses : /\ a % pageSize = 0
                       /\ Pages(a, BigPage) \subseteq Addresses
                       /\ \A p \in Pages(a, BigPage) : IsFree(p)}

\* The next page size, or false from AllocAndMap and Alloc.
NextPageSize(u) ==
    IF u.pageSize = Page THEN Idle
    ELSE [Idle EXCEPT !.pc = "reserve", !.size = u.size]

\* The pages a CPU has reserved and will map.
Pending(c) ==
    IF cpu[c].pc \in {"page", "map"}
    THEN {p \in Pages(cpu[c].base, BigPage) : p >= cpu[c].dest}
    ELSE {}

\* GlobalMap::Reserve.  The FreeFinder knows one region: it may find any range, or
\* none.
ReserveSegment(c) ==
    /\ At(c, "reserve")
    /\ \/ /\ cpu' = [cpu EXCEPT ![c] = NextPageSize(@)]
          /\ UNCHANGED <<vmap, twice>>
       \/ \E a \in Reservable(cpu[c].pageSize) :
             /\ vmap' = Changed(Pages(a, BigPage), Held(cpu[c].pageSize))
             /\ cpu' = [cpu EXCEPT ![c].pc = "page", ![c].base = a, ![c].dest = a]
             /\ twice' = (twice \/ \E d \in Cpus \ {c} :
                                     Pending(d) \intersect Pages(a, BigPage) # {})
    /\ UNCHANGED <<bootVars, buddy, owned, segments, blocks>>

\* A frame for the next page, or the way back.
AllocPage(c) ==
    /\ At(c, "page")
    /\ LET size == cpu[c].pageSize
       IN  IF AllFits(size, size) = {}
           THEN /\ cpu' = [cpu EXCEPT ![c].pc = "unwind", ![c].source = cpu[c].base]
                /\ UNCHANGED <<buddy, owned>>
           ELSE \E f \in AllFits(size, size) :
                  /\ Give(f, size)
                  /\ cpu' = [cpu EXCEPT ![c].pc = "map", ![c].frame = f]
    /\ UNCHANGED <<bootVars, vmap, segments, blocks, twice>>

\* GlobalMap::MapAt.
MapPage(c) ==
    /\ At(c, "map")
    /\ LET u == cpu[c]
           dest == u.dest + u.pageSize
       IN  /\ vmap' = Changed(Pages(u.dest, u.pageSize), Mapped(u.pageSize, u.frame))
           /\ cpu' = [cpu EXCEPT ![c].dest = dest, ![c].frame = 0,
                                 ![c].pc = IF dest = u.base + BigPage THEN "link" ELSE "page"]
    /\ UNCHANGED <<bootVars, buddy, owned, segments, blocks, twice>>

\* Mutant: the failure of a page is not remembered.
UnwoundNothing(u) == [u EXCEPT !.pc = "link"]

Unwound(u) == NextPageSize(u)

\* FreeAndUnmap of the pages mapped so far: read and unmap a page,
UnmapPage(c) ==
    /\ At(c, "unwind")
    /\ LET u == cpu[c]
           page == vmap[u.source]
       IN  IF u.source = u.dest
           THEN cpu' = [cpu EXCEPT ![c] = Unwound(@)] /\ UNCHANGED vmap
           ELSE /\ vmap' = Changed(Pages(u.source, page.size), Unmapped)
                /\ cpu' = [cpu EXCEPT ![c].pc = "release", ![c].frame = page.frame]
    /\ UNCHANGED <<bootVars, buddy, owned, segments, blocks, twice>>

\* and free its address in the memory map, not the frame it was mapped to.
FreePage(c) ==
    /\ At(c, "release")
    /\ Release(cpu[c].source)
    /\ cpu' = [cpu EXCEPT ![c].pc = "unwind", ![c].frame = 0,
                          ![c].source = @ + cpu[c].pageSize]
    /\ UNCHANGED <<bootVars, vmap, segments, blocks, twice>>

-----------------------------------------------------------------------------

\* Domain::AllocPhys and FreePhys, for callers that use frames themselves.
AllocPhys ==
    /\ phase = "ready"
    /\ \E a \in AllFits(Page, Page) : Give(a, Page) /\ clients' = clients \union {a}
    /\ UNCHANGED <<bootVars, heapVars>>

\* Callers that need memory below LowerEnd.
AllocLower ==
    /\ phase = "ready"
    /\ \E a \in LowerFits(Page, Page) : Give(a, Page) /\ clients' = clients \union {a}
    /\ UNCHANGED <<bootVars, heapVars>>

FreePhys ==
    /\ phase = "ready"
    /\ \E a \in clients : Release(a) /\ clients' = clients \ {a}
    /\ UNCHANGED <<bootVars, heapVars>>

Next ==
    \/ BootNext /\ UNCHANGED <<heapVars, clients>>
    \/ AllocPhys \/ AllocLower \/ FreePhys
    \/ /\ UNCHANGED clients
       /\ \E c \in Cpus :
             \/ \E size \in BlockSizes : Alloc(c, size)
             \/ \E b \in blocks : Free(c, b)
             \/ Search(c) \/ NotFound(c) \/ CreateSegment(c) \/ Owns(c) \/ FreeBlock(c)
             \/ ReserveSegment(c) \/ AllocPage(c) \/ MapPage(c) \/ UnmapPage(c) \/ FreePage(c)

Spec == Init /\ [][Next]_vars

-----------------------------------------------------------------------------
(* Properties.                                                             *)

\* A reservation of small pages reads as unmapped (free-finder.cpp:79), and two CPUs
\* in AllocAndMap may be given the same addresses (ReservedOnce).  The properties of
\* the heap are about the time before.

\* However two CPUs search, create and free at the same time, no two blocks of
\* Malloc share memory: segments do not overlap, nor do blocks of one segment, and
\* none reaches into a header or into what a CPU is mapping for a new segment.
BlocksDisjoint ==
    ~twice =>
        \A b \in blocks :
            /\ CellsOf(b) \subseteq HeaderCells .. (Cells - 1)
            /\ b.segment \in ToSet(segments)
            /\ \A c \in Cpus : Pending(c) \intersect Pages(b.segment, BigPage) = {}
            /\ \A o \in blocks \ {b} :
                  \/ Pages(o.segment, BigPage) \intersect Pages(b.segment, BigPage) = {}
                  \/ /\ o.segment = b.segment
                     /\ CellsOf(o) \intersect CellsOf(b) = {}

\* A segment stays mapped as a whole, and no segment is created and then lost:
\* what is mapped is a linked segment, or one that a CPU is still working on, and
\* no CPU maps a page that is mapped already.
SegmentsMapped ==
    ~twice =>
        /\ \A i \in DOMAIN segments :
              \A p \in Pages(segments[i], BigPage) : vmap[p].use = "mapped"
        /\ \A a \in Addresses :
              vmap[a].use = "mapped" =>
                  \/ \E i \in DOMAIN segments : a \in Pages(segments[i], BigPage)
                  \/ \E c \in Cpus :
                        /\ cpu[c].pc \in {"page", "map", "link", "unwind", "release"}
                        /\ a \in Pages(cpu[c].base, BigPage) \ Pending(c)

\* Does not hold: what a CPU has reserved is given to no other.
ReservedOnce == ~twice

\* FreeAndUnmap does "the inverse of AllocAndMap()": every frame that the
\* BuddyAllocator has handed out is held by a caller, mapped, or in the hands of a
\* CPU, and a frame that is used has not been freed.
FramesAccounted ==
    {r.start : r \in owned} =
        clients \union {vmap[a].frame : a \in {a \in Addresses : vmap[a].use = "mapped"}}
                \union {cpu[c].frame : c \in {c \in Cpus : cpu[c].pc \in {"map", "release"}}}

=============================================================================
