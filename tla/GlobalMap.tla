------------------------------- MODULE GlobalMap -------------------------------
(***************************************************************************)
(* GlobalMap (arch/x64/vmm/global/global-map.cpp): the addresses of the    *)
(* kernel, with the page table that says which are mapped or reserved and  *)
(* the FreeFinder that remembers one free region.  Every operation runs    *)
(* under the map's lock and is one step.                                   *)
(*                                                                         *)
(* A CPU changes tables through the fractal map of the PML4 it has loaded, *)
(* which must be that of the map, and its TLB caches where it found them.  *)
(***************************************************************************)
EXTENDS PageTable

CONSTANTS
    Cpus,
    Global,        \* the PML4 of the global map
    UserSpaces,    \* those of UserMaps
    Owners,        \* callers that hold at most one range each
    Counts,        \* page counts callers use
    Devices        \* physical memory that is mapped with EasyMap: [start, size]

ASSUME SpacesAssumption == Global \notin UserSpaces /\ Cpus # {}

VARIABLES
    sp,       \* the page table, shared by all address spaces
    finder,   \* freeStart and freeSize of the FreeFinder
    held,     \* held[o]: the range that caller o has mapped or reserved
    space,    \* space[c]: the address space CPU c is in
    fractal,  \* fractal[c]: where c's TLB says tables are
    halted,   \* the kernel has panicked
    blind     \* history: the FreeFinder has taken a small reservation for free

vars == <<sp, finder, held, space, fractal, halted, blind>>

Spaces == {Global} \union UserSpaces

PageSizes == {SmallPage, BigPage}

NoRange == [use |-> "none", addr |-> 0, pageSize |-> SmallPage, count |-> 0]
Extent(use, addr, pageSize, count) ==
    [use |-> use, addr |-> addr, pageSize |-> pageSize, count |-> count]
Bytes(r) == r.pageSize * r.count

\* What GenerateMap of MapSetup leaves: the first large page is mapped.
Init ==
    /\ sp = [ent  |-> [d \in Depths |->
                          [i \in 0 .. (Fanout ^ d - 1) |->
                              IF i # 0 \/ d = Leaf THEN Empty
                              ELSE IF d = Leaf - 1 THEN PageEntry(<<"kernel", 0>>)
                              ELSE TableEntry(0)]],
             used |-> {}]
    /\ finder = [start |-> 0, size |-> 0]
    /\ held = [o \in Owners |-> NoRange]
    /\ space \in [Cpus -> Spaces]
    /\ fractal = [c \in Cpus |-> {}]
    /\ halted = FALSE
    /\ blind = FALSE

-----------------------------------------------------------------------------
(* FreeFinder.                                                             *)

\* Mutant: a reservation is not present and passes for free.
IsUsedPresent(s, addr) == Walk(s, addr).entry.kind = "page"

\* What UpdateFreeRegion takes for used.
IsUsed(s, addr) ==
    LET w == Walk(s, addr) IN w.depth >= 0 /\ w.entry # Empty

PageAddrs == {i * SmallPage : i \in 0 .. (KernelEnd \div SmallPage - 1)}

UsedPages(s) == {a \in PageAddrs : IsUsed(s, a)}

\* The free addresses from addr on, up to the next used page.
FreeSize(used, addr) ==
    LET after == {a \in used : a >= addr}
    IN  (IF after = {} THEN KernelEnd ELSE Min(after)) - addr

\* The regions UpdateFreeRegion looks at start at 0 and after each used page.
\* The largest, the first of several, replaces a smaller one.
UpdateFreeRegion(s, f) ==
    LET used == UsedPages(s)
        sizes == [a \in {0} \union {p + SmallPage : p \in used} |-> FreeSize(used, a)]
        largest == Max({sizes[a] : a \in DOMAIN sizes})
    IN  IF largest <= f.size THEN f
        ELSE [start |-> Min({a \in DOMAIN sizes : sizes[a] = largest}),
              size  |-> largest]

Slice(f, align) == (align - (f.start % align)) % align

CanAllocate(f, size, align) ==
    size = 0 \/ (Slice(f, align) < f.size /\ f.size - Slice(f, align) >= size)

\* The free region from which FreeFinder::Alloc takes, or would fail.
FinderRegion(s, f, size, align) ==
    IF CanAllocate(f, size, align) THEN f ELSE UpdateFreeRegion(s, f)

\* Take size units at the first aligned address.
FinderTake(f, size, align) ==
    [start |-> f.start + Slice(f, align) + size,
     size  |-> f.size - Slice(f, align) - size]

\* Free: a range next to the region extends it, another is forgotten.
FinderFree(f, addr, size) ==
    IF addr = f.start + f.size THEN [f EXCEPT !.size = @ + size]
    ELSE IF addr + size = f.start
    THEN [start |-> f.start - size, size |-> f.size + size]
    ELSE f

\* Mutant: Reserve keeps the shorter part and forgets to move the start.
FinderReserveLeft(f, addr, size) ==
    [f EXCEPT !.size = IF addr > f.start + f.size \/ addr + size <= f.start
                       THEN @ ELSE f.size - size]

\* Reserve: keep the longer of the parts left and right of the range.
FinderReserve(f, addr, size) ==
    LET left  == IF addr > f.start THEN addr - f.start ELSE 0
        right == IF addr + size < f.start + f.size
                 THEN f.start + f.size - (addr + size) ELSE 0
    IN  IF addr > f.start + f.size \/ addr + size <= f.start THEN f
        ELSE IF left = 0 /\ right = 0 THEN [f EXCEPT !.size = 0]
        ELSE IF left > right THEN [f EXCEPT !.size = left]
        ELSE [start |-> f.start + f.size - right, size |-> right]

-----------------------------------------------------------------------------
(* The fractal map.                                                        *)

\* The tables of s below the root, as <<depth, number, frame>>.
Tables(s) ==
    UNION {
        {<<d + 1, i, s.ent[d][i].frame[2]>> :
            i \in {i \in DOMAIN s.ent[d] :
                     /\ s.ent[d][i].kind = "table"
                     /\ \A k \in 0 .. (d - 1) :
                           s.ent[k][i \div (Fanout ^ (d - k))].kind = "table"}} :
        d \in 0 .. (Leaf - 1)}

\* The tables that an operation on the range reads or writes.
Touched(s, addr, size) ==
    {t \in Tables(s) :
        LET first == t[2] * SlotSize[t[1] - 1]
        IN  first < addr + size /\ addr < first + SlotSize[t[1] - 1]}

\* DistributeInvlpg takes an address of the fractal map for one of user memory:
\* it reaches the CPUs whose currentMap is that of the caller.
IsReached(c, d) == space[d] = space[c]

\* CPU c has done r to the tables, working on the given range.
Install(c, r, addr, size) ==
    /\ sp' = r.sp
    /\ fractal' = [d \in Cpus |->
          LET kept == IF IsReached(c, d)
                      THEN {t \in fractal[d] : <<t[1], t[2]>> \notin r.flushed}
                      ELSE fractal[d]
          IN  IF d = c THEN kept \union Touched(r.sp, addr, size) ELSE kept]
    /\ UNCHANGED <<space, halted>>

\* The kernel stops where the code panics or an assertion fails.
Panic ==
    /\ halted' = TRUE
    /\ UNCHANGED <<sp, finder, held, space, fractal>>

Overlap(r, q) ==
    /\ r.use # "none" /\ q.use # "none"
    /\ r.addr < q.addr + Bytes(q) /\ q.addr < r.addr + Bytes(r)

\* A part of the region is reserved with small pages.
HasSmallReservation(f) ==
    \E o \in Owners :
        /\ held[o].use = "reserve" /\ held[o].pageSize = SmallPage
        /\ held[o].addr < f.start + f.size /\ f.start < held[o].addr + Bytes(held[o])

\* Finish an operation of o with the outcome r of the page table code.
Finish(c, o, r, range, f) ==
    IF ~r.ok THEN Panic
    ELSE /\ Install(c, r, range.addr, Bytes(range))
         /\ held' = [held EXCEPT ![o] = IF range.use = "none" THEN NoRange ELSE range]
         /\ finder' = f

-----------------------------------------------------------------------------
(* The operations.                                                         *)

\* The entries of count pages: mapped for o, mapped to physical memory from addr on,
\* or reserved.
Mapped(o, count)        == [i \in 0 .. (count - 1) |-> PageEntry(<<o, i>>)]
PhysPage(addr)          == PageEntry(<<"device", addr \div SmallPage>>)
PhysPages(addr, count)  == [i \in 0 .. (count - 1) |-> PhysPage(addr + i * SmallPage)]
Reservations(count)     == [i \in 0 .. (count - 1) |-> Reserved]

\* Pages at the first aligned address of the region f.
Take(c, o, f, use, pageSize, count, align, pages) ==
    LET r == Extent(use, f.start + Slice(f, align), pageSize, count)
    IN  /\ blind' = (blind \/ HasSmallReservation(f))
        /\ Finish(c, o, SetList(sp, r.addr, pageSize, count, pages), r,
                  FinderTake(f, Bytes(r), align))

\* A range found by the FreeFinder.  With too little space nothing is found,
\* but the region may have changed.
Find(c, o, use, pageSize, count, align, pages) ==
    LET f == FinderRegion(sp, finder, pageSize * count, align)
    IN  /\ held[o].use = "none"
        /\ IF CanAllocate(f, pageSize * count, align)
           THEN Take(c, o, f, use, pageSize, count, align, pages)
           ELSE /\ finder' = f
                /\ blind' = (blind \/ HasSmallReservation(f))
                /\ UNCHANGED <<sp, held, space, fractal, halted>>

\* Map: the alignment is the page count, whatever the page size.
Map(c, o, pageSize, count) ==
    Find(c, o, "map", pageSize, count, count, Mapped(o, count))

Reserve(c, o, pageSize, count) ==
    Find(c, o, "reserve", pageSize, count, pageSize, Reservations(count))

\* Mutant: the part of the first page before the memory is forgotten.
PageCountShort(d) ==
    d.size \div SmallPage + (IF d.size % SmallPage # 0 THEN 1 ELSE 0)

\* The pages of an EasyMap.
AlignOffset(d) == d.start % SmallPage
PageCount(d) ==
    LET endSize == d.size + AlignOffset(d)
    IN  endSize \div SmallPage + (IF endSize % SmallPage # 0 THEN 1 ELSE 0)

\* EasyMap: memory that need not be aligned is mapped with small pages, and it
\* panics if there is no room.  Its destructor is Unmap.
EasyMap(c, o, name) ==
    LET d == Devices[name]
        n == PageCount(d)
        f == FinderRegion(sp, finder, SmallPage * n, n)
    IN  /\ held[o].use = "none"
        /\ IF CanAllocate(f, SmallPage * n, n)
           THEN Take(c, o, f, name, SmallPage, n, n, PhysPages(d.start, n))
           ELSE Panic /\ UNCHANGED blind

\* MapAt: callers map what they have reserved.
MapAt(c, o) ==
    LET r == held[o] IN
    /\ r.use = "reserve"
    /\ Finish(c, o, SetList(sp, r.addr, r.pageSize, r.count, Mapped(o, r.count)),
              [r EXCEPT !.use = "map"], finder)

\* ReserveAt: callers reserve aligned ranges that nobody uses.
ReserveAt(c, o, addr, pageSize, count) ==
    /\ held[o].use = "none"
    /\ addr % pageSize = 0 /\ addr + pageSize * count <= KernelEnd
    /\ \A p \in Owners : ~Overlap(Extent("reserve", addr, pageSize, count), held[p])
    /\ \A a \in PageAddrs : a \in addr .. (addr + pageSize * count - 1) => ~IsUsed(sp, a)
    /\ Finish(c, o, SetList(sp, addr, pageSize, count, Reservations(count)),
              Extent("reserve", addr, pageSize, count),
              FinderReserve(finder, addr, pageSize * count))

\* Unmap, and Unreserve, which calls it.
Unmap(c, o) ==
    LET r == held[o] IN
    /\ r.use # "none"
    /\ Finish(c, o, UnsetList(sp, r.addr, r.pageSize, r.count),
              [r EXCEPT !.use = "none"], FinderFree(finder, r.addr, Bytes(r)))

\* Reserve a range anew, with pages of another size, after unsetting it.
Replace(c, o, pageSize) ==
    LET r == held[o]
        u == UnsetList(sp, r.addr, r.pageSize, r.count)
        n == Extent("reserve", r.addr, pageSize, Bytes(r) \div pageSize)
        s == SetList(u.sp, n.addr, n.pageSize, n.count, Reservations(n.count))
    IN  Finish(c, o, IF u.ok THEN [s EXCEPT !.flushed = u.flushed] ELSE u, n, finder)

UnmapAndReserve(c, o) ==
    /\ held[o].use = "map"
    /\ Replace(c, o, held[o].pageSize)

Rereserve(c, o, pageSize) ==
    /\ held[o].use = "reserve"
    /\ Bytes(held[o]) % pageSize = 0 /\ held[o].addr % pageSize = 0
    /\ Replace(c, o, pageSize)

\* Set() of a map: loading CR3 drops the translations of the fractal map.
SetSpace(c, m) ==
    /\ space[c] # m
    /\ space' = [space EXCEPT ![c] = m]
    /\ fractal' = [fractal EXCEPT ![c] = {}]
    /\ UNCHANGED <<sp, finder, held, halted, blind>>

\* The assertion of Walk, Set, SetList, Unset and Read: elsewhere an operation stops
\* the kernel before it has changed anything.
IsSet(c) == space[c] = Global

Operation(c, o) ==
    \/ /\ \/ MapAt(c, o)
          \/ Unmap(c, o)
          \/ UnmapAndReserve(c, o)
          \/ \E ps \in PageSizes : Rereserve(c, o, ps)
          \/ \E ps \in PageSizes, n \in Counts, a \in PageAddrs :
                ReserveAt(c, o, a, ps, n)
       /\ UNCHANGED blind
    \/ \E name \in DOMAIN Devices : EasyMap(c, o, name)
    \/ \E n \in Counts : Map(c, o, BigPage, n)
    \/ \E ps \in PageSizes, n \in Counts : Reserve(c, o, ps, n)

Next ==
    /\ ~halted
    /\ \E c \in Cpus :
          \/ \E m \in Spaces : SetSpace(c, m)
          \/ IsSet(c) /\ \E o \in Owners : Operation(c, o)

Spec == Init /\ [][Next]_vars

-----------------------------------------------------------------------------
(* Properties.                                                             *)

\* A reservation of small pages reads as unmapped (free-finder.cpp:79), so that
\* UpdateFreeRegion may take it for free and Alloc hand it out to a second caller.
\* Nothing protects the ranges of the two from there on: the properties
\* are about the time before.

\* Set and Unset neither lose a table nor free one that is linked nor leave an
\* empty one behind: the frames taken from the allocator are those of the
\* linked tables, each linked once, each with an entry in use.
TablesExact ==
    ~blind =>
        /\ {t[3] : t \in Tables(sp)} \ {0} = sp.used
        /\ \A t, u \in Tables(sp) : t[3] = u[3] /\ t[3] # 0 => t = u
        /\ \A t \in Tables(sp) :
              ~IsEmptyTable(sp, t[2] * SlotSize[t[1] - 1], t[1])

\* The region that FreeFinder has cached, through Alloc, Free and Reserve in any
\* order, contains no page that is mapped or reserved as part of a large page.
FreeRegionIsFree ==
    ~blind =>
        \A a \in UsedPages(sp) :
            a >= finder.start + finder.size \/ a + SmallPage <= finder.start

\* Map and Reserve hand out what nobody has, and the range of a caller stays as it
\* is whatever the others map, unmap or reserve, with pages of either size: Walk
\* finds the caller's own entry for every page.
MappingsIntact ==
    ~blind =>
        \A o \in Owners :
            LET r == held[o] IN
            /\ \A p \in Owners \ {o} : ~Overlap(r, held[p])
            /\ r.use \in {"map", "reserve"} =>
                  \A i \in 0 .. (r.count - 1) :
                      LET w == Walk(sp, r.addr + i * r.pageSize) IN
                      /\ w.size = r.pageSize
                      /\ w.entry = IF r.use = "map" THEN PageEntry(<<o, i>>) ELSE Reserved

\* Each address of an EasyMap, from GetStart() on, reaches the physical address that
\* was asked for, also where the memory starts inside of a page or crosses into one.
EasyMapReaches ==
    ~blind =>
        \A o \in Owners :
            LET r == held[o] IN
            r.use \in DOMAIN Devices =>
                \A i \in 0 .. (Devices[r.use].size - 1) :
                    Walk(sp, r.addr + AlignOffset(Devices[r.use]) + i).entry =
                        PhysPage(Devices[r.use].start + i)

\* No CPU's TLB finds a page table where it was before Unset freed it ("unmap this
\* table, invalidate the fractal map, and free it"), although only the CPUs in the
\* same address space are told: the others have left it since and loaded CR3.
FractalMapFresh == ~blind => \A c \in Cpus : fractal[c] \subseteq Tables(sp)

\* Does not hold: a reserved range is handed out once.
ReservedOnce == \A o, p \in Owners : o # p => ~Overlap(held[o], held[p])

=============================================================================
