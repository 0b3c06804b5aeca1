------------------------------- MODULE FreeList -------------------------------
(***************************************************************************)
(* FreeList (arch/x64/vmm/user/free-list.cpp), the allocator of virtual    *)
(* addresses behind UserMap::Map, Reserve, ReserveAt, Unmap and Unreserve, *)
(* called under the map's lock.                                            *)
(*                                                                         *)
(* The linked list is a sequence of regions, in the order of the `next`    *)
(* pointers.  Addresses and sizes are in units of the smallest page and    *)
(* wrap at AddrMod as the 64-bit ones of the code do.                      *)
(***************************************************************************)
EXTENDS Integers, Sequences, SequencesExt

CONSTANTS
    Owners,     \* the callers that hold at most one allocation each
    Arena,      \* the regions the constructor of UserMap frees, in order
    PageSizes,  \* page sizes callers use
    Counts,     \* page counts callers use
    AddrMod,    \* 2^64
    MaxEnd,     \* bound: no allocation once a region might grow beyond this
    MaxRegions  \* bound: no allocation once the list is longer

\* The bound keeps regions away from the end of the address space, as the last
\* PDPT does in the code.
ASSUME ModAssumption == AddrMod \in Nat /\ MaxEnd \in Nat /\ MaxEnd < AddrMod

\* Nobody asks for nothing, or for more than there is behind an address: the
\* constructor of Region asserts it.
ASSUME RequestAssumption ==
    /\ PageSizes \subseteq Nat \ {0} /\ Counts \subseteq Nat \ {0}
    /\ \A p \in PageSizes, n \in Counts : MaxEnd + p * n < AddrMod

ASSUME ArenaAssumption ==
    /\ Arena \in Seq([start : Nat, size : Nat \ {0}])
    /\ \A i \in DOMAIN Arena : Arena[i].start + Arena[i].size < AddrMod

VARIABLES
    list,   \* the regions from `first` on
    held    \* held[o]: the allocation of caller o, of size 0 if it has none

flVars == <<list, held>>

Plus(x, y) == (x + y) % AddrMod
Region(start, size) == [start |-> start, size |-> size]
End(r) == Plus(r.start, r.size)
Nothing == Region(0, 0)

\* The addresses of a region.
PagesOf(r) == {Plus(r.start, i) : i \in 0 .. (r.size - 1)}

-----------------------------------------------------------------------------
(* FreeList::Region.  An end of 0 is the end of the address space.         *)

\* How much of the region is lost to alignment.
Chop(r, pageSize) == (pageSize - (r.start % pageSize)) % pageSize

CanHold(r, pageSize, count) == Chop(r, pageSize) + pageSize * count <= r.size

IsAdjacentBehind(r, addr) == End(r) # 0 /\ End(r) = addr

RegionContains(r, q) ==
    /\ r.start <= q.start
    /\ End(r) # 0 => End(q) # 0 /\ End(q) <= End(r)

IsBehind(r, addr) == End(r) # 0 /\ End(r) <= addr

-----------------------------------------------------------------------------
(* Allocation.                                                             *)

\* Mutant: the suffix of a region that is split starts one page late.
SplitShort(i, q) ==
    LET r == list[i] IN
    IF r = q THEN RemoveAt(list, i)
    ELSE IF q.start = r.start THEN [list EXCEPT ![i].start = Plus(@, q.size)]
    ELSE IF End(q) = End(r) THEN [list EXCEPT ![i].size = (@ - q.size) % AddrMod]
    ELSE InsertAt([list EXCEPT ![i].size = q.start - r.start], i + 1,
                  Region(Plus(End(q), 1), End(r) - End(q) - 1))

\* The list without q, which is a part of region i of it.  When q starts the
\* region the code moves the start and leaves the size alone.
AllocInRegion(i, q) ==
    LET r == list[i] IN
    IF r = q THEN RemoveAt(list, i)
    ELSE IF q.start = r.start THEN [list EXCEPT ![i].start = Plus(@, q.size)]
    ELSE IF End(q) = End(r) THEN [list EXCEPT ![i].size = (@ - q.size) % AddrMod]
    ELSE InsertAt([list EXCEPT ![i].size = q.start - r.start], i + 1,
                  Region(End(q), (End(r) - End(q)) % AddrMod))

\* Bound: the list grows without limit otherwise.
Bounded ==
    /\ Len(list) <= MaxRegions
    /\ \A i \in DOMAIN list : list[i].start + 2 * list[i].size <= MaxEnd

\* Region i of the list is the first that Test accepts.
First(i, Test(_)) ==
    /\ Test(list[i])
    /\ \A j \in 1 .. (i - 1) : ~Test(list[j])

Alloc(o, pageSize, count) ==
    /\ held[o] = Nothing
    /\ Bounded
    /\ \E i \in DOMAIN list :
          LET Fits(r) == CanHold(r, pageSize, count)
              q == Region(Plus(list[i].start, Chop(list[i], pageSize)),
                          pageSize * count)
          IN  /\ First(i, Fits)
              /\ list' = AllocInRegion(i, q)
              /\ held' = [held EXCEPT ![o] = q]

AllocAt(o, start, pageSize, count) ==
    /\ held[o] = Nothing
    /\ Bounded
    /\ start % pageSize = 0
    /\ LET q == Region(start, pageSize * count)
           Holds(r) == RegionContains(r, q)
       IN  \E i \in DOMAIN list :
              /\ First(i, Holds)
              /\ list' = AllocInRegion(i, q)
              /\ held' = [held EXCEPT ![o] = q]

-----------------------------------------------------------------------------
(* Release.                                                                *)

\* Where region i ends with q and k of the regions after it.
Reach(i, q, k) == IF k = 0 THEN Plus(End(list[i]), q.size) ELSE End(list[i + k])

\* How many regions after i follow each other without a gap, starting behind q.
Followers(i, q) ==
    Max({k \in 0 .. (Len(list) - i) :
            \A j \in 1 .. k :
                Reach(i, q, j - 1) # 0 /\ Reach(i, q, j - 1) = list[i + j].start})

\* The region that k followers of region i make together with it and q.  The sizes
\* the code adds up, modulo AddrMod, lead to the end of the last one.
Grown(i, k, q) == Region(list[i].start, (Reach(i, q, k) - list[i].start) % AddrMod)

\* |...|list[i]|q|...|: the region takes q and all that follows without a gap.
Merge(i, q) ==
    LET k == Followers(i, q)
    IN  SubSeq(list, 1, i - 1) \o <<Grown(i, k, q)>>
          \o SubSeq(list, i + k + 1, Len(list))

\* The loop of Free stops at the first region that q touches or precedes.
StopsAt(r, q) ==
    IsAdjacentBehind(r, q.start) \/ IsAdjacentBehind(q, r.start) \/ IsBehind(q, r.start)

Released(q) ==
    LET Stops(r) == StopsAt(r, q)
        i == SelectInSeq(list, Stops)
    IN  IF i = 0 THEN Append(list, q)
        ELSE IF IsAdjacentBehind(list[i], q.start) THEN Merge(i, q)
        ELSE IF IsAdjacentBehind(q, list[i].start)
             THEN [list EXCEPT ![i] = Region((@.start - q.size) % AddrMod, @.size + q.size)]
        ELSE InsertAt(list, i, q)

Free(o) ==
    /\ held[o] # Nothing
    /\ list' = Released(held[o])
    /\ held' = [held EXCEPT ![o] = Nothing]

-----------------------------------------------------------------------------

\* The constructor of UserMap frees the regions of the arena one by one; none
\* touches another.
Init ==
    /\ list = Arena
    /\ held = [o \in Owners |-> Nothing]

Next ==
    \E o \in Owners :
        \/ \E p \in PageSizes, n \in Counts : Alloc(o, p, n)
        \/ \E p \in PageSizes, n \in Counts, a \in 0 .. MaxEnd :
              AllocAt(o, a, p, n)
        \/ Free(o)

Spec == Init /\ [][Next]_flVars

-----------------------------------------------------------------------------

ListPages == UNION {PagesOf(list[i]) : i \in DOMAIN list}
HeldPages == UNION {PagesOf(held[o]) : o \in Owners}
ArenaPages == UNION {PagesOf(Arena[i]) : i \in DOMAIN Arena}

\* No address is lost: whatever is split, merged, allocated and released, an
\* address of the arena is on the list or with a caller.
NoLeak == ArenaPages \subseteq ListPages \union HeldPages

\* The constructor of UserMap says of the regions it frees "we cannot utilize
\* the last PDPT because it's for fractal mapping": no allocation reaches
\* beyond what was freed.
AllocationsInArena == HeldPages \subseteq ArenaPages
=============================================================================
