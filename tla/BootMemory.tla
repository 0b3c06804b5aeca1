------------------------------ MODULE BootMemory ------------------------------
(***************************************************************************)
(* From the memory map of the boot loader to the page allocator of the     *)
(* kernel: MultibootRegionList, then MapSetup with its StepAllocator, then *)
(* the BuddyAllocator, which must never hand out what was taken before it  *)
(* existed.  The boot CPU runs all of it alone.                            *)
(*                                                                         *)
(* Addresses are in units smaller than a page: StepAllocator falls back to *)
(* the last byte of a region.  Ranges are records [start, size].           *)
(***************************************************************************)
EXTENDS Integers, Sequences, SequencesExt, FiniteSetsExt

CONSTANTS
    Page, BigPage,   \* page sizes, 0x1000 and 0x200000 in the code
    Fanout,          \* entries of a page directory, 0x200 in the code
    LowMemory,       \* the end of the first megabyte
    LowerEnd,        \* 0x100000000
    MaximumCount,    \* capacity of a region list
    MemoryMaps,      \* memory maps the boot loader may pass
    ImageEnd,        \* end of the kernel image, page aligned
    ObjectSize,      \* PageTable, FreeFinder and BuddyAllocator, page aligned
    TreeSizes        \* space the trees of a cluster may need

ASSUME SizeAssumption ==
    /\ Page \in Nat \ {0, 1}
    /\ Fanout \in Nat \ {0}
    /\ BigPage = Fanout * Page
    /\ LowMemory \in Nat
    /\ LowerEnd \in Nat
    /\ ImageEnd \in Nat
    /\ ObjectSize \in Nat
    /\ TreeSizes \subseteq Nat

Extent(start, size) == [start |-> start, size |-> size]
End(r)      == r.start + r.size
Overlap(r, s) == r.start < End(s) /\ s.start < End(r)

\* The boot loader lists usable memory in any order, none of it twice.
IsUsable(e) == e.type = 1
EntryRange(e) == Extent(e.base, e.len)

ASSUME MapAssumption ==
    \A m \in MemoryMaps :
        /\ m \in Seq([base : Nat, len : Nat, type : Nat])
        /\ \A k \in DOMAIN m : IsUsable(m[k]) => m[k].len > 0
        /\ \A k, l \in DOMAIN m :
              IsUsable(m[k]) /\ IsUsable(m[l]) /\ k # l =>
                  ~Overlap(EntryRange(m[k]), EntryRange(m[l]))

VARIABLES
    phase,      \* what GlobalMap::Initialize does next
    mmap,       \* the memory map
    read,       \* entries of it that are in the lists
    regions,    \* the region lists
    lastAddr,   \* lastAddr of the StepAllocator
    taken,      \* the ranges it has handed out
    left,       \* linearSize
    firstUnmapped,   \* the first address that is not mapped yet
    pdts,       \* the page directories, each a sequence of large frames
    tree,       \* the AllocAndMap of InitializeCluster
    buddy,      \* free pages of the two clusters
    owned       \* ranges handed out by the BuddyAllocator

\* The variables of MapSetup.
mapVars == <<left, firstUnmapped, pdts>>

bootVars == <<phase, mmap, read, regions, lastAddr, taken, mapVars, tree>>

AlignUp(addr, align) == ((addr + align - 1) \div align) * align

ReservedEnd == ImageEnd + ObjectSize

\* The lists of regions, and the clusters of the BuddyAllocator.
Clusters == {"lower", "upper"}

BootInit ==
    /\ phase = "regions"
    /\ mmap \in MemoryMaps
    /\ read = 0
    /\ regions = [lower |-> <<>>, upper |-> <<>>]
    /\ lastAddr = ReservedEnd
    /\ taken = {}
    /\ left = ReservedEnd
    /\ firstUnmapped = 0
    /\ pdts = <<>>
    /\ tree = [cluster |-> "lower", size |-> 0, pageSize |-> Page, left |-> 0]
    /\ buddy = [c \in Clusters |-> {}]
    /\ owned = {}

Panic ==
    /\ phase' = "panic"
    /\ UNCHANGED <<mmap, read, regions, lastAddr, taken, mapVars, tree, buddy, owned>>

-----------------------------------------------------------------------------
(* MultibootRegionList.                                                    *)

\* Memory that is not usable, and the parts of the first megabyte, are skipped.
IsSkipped(e) == ~IsUsable(e) \/ e.base + e.len <= LowMemory

\* A region that begins in the first megabyte is stretched to address 0.
Stretched(e) ==
    IF e.base <= LowMemory THEN Extent(0, e.len + e.base) ELSE Extent(e.base, e.len)

\* Mutant: regions are kept in the order of the memory map.
InsertLast(list, r) == Append(list, r)

Insert(list, r) ==
    LET later == {i \in DOMAIN list : list[i].start > r.start}
    IN  InsertAt(list, IF later = {} THEN Len(list) + 1 ELSE Min(later), r)

AddRegion(regs, r) ==
    IF r.start < LowerEnd THEN [regs EXCEPT !.lower = Insert(@, r)]
                          ELSE [regs EXCEPT !.upper = Insert(@, r)]

\* A region across LowerEnd is split.
AddParts(regs, r) ==
    IF r.start < LowerEnd /\ End(r) > LowerEnd
    THEN AddRegion(AddRegion(regs, Extent(r.start, LowerEnd - r.start)),
                   Extent(LowerEnd, End(r) - LowerEnd))
    ELSE AddRegion(regs, r)

\* One turn of the loop of the constructor.
ReadEntry ==
    /\ phase = "regions" /\ read < Len(mmap)
    /\ LET e == mmap[read + 1]
           added == IF IsSkipped(e) THEN regions ELSE AddParts(regions, Stretched(e))
       IN  IF Len(added.lower) > MaximumCount \/ Len(added.upper) > MaximumCount
           THEN Panic
           ELSE /\ read' = read + 1
                /\ regions' = added
                /\ UNCHANGED <<phase, mmap, lastAddr, taken, mapVars, tree, buddy,
                               owned>>

\* FindRegion and NextRegion: the lower regions come first.
All == regions.lower \o regions.upper

Holds(r, addr) == r.start <= addr /\ addr < End(r)
FindRegion(addr) == {i \in DOMAIN All : Holds(All[i], addr)}
NextRegion(i) == {j \in DOMAIN All : All[j].start > All[i].start}

-----------------------------------------------------------------------------
(* StepAllocator.                                                          *)

\* The first aligned address, or the last byte of the region.
Clip(r, addr, align) ==
    IF AlignUp(addr, align) > End(r) THEN End(r) - 1 ELSE AlignUp(addr, align)

\* Alloc: the outcome, with lastAddr after it.  The search begins in the region
\* that lastAddr is in, or ends, and goes on through those that start later, which
\* the lists have in order.
StepAlloc(size, align) ==
    LET here  == IF FindRegion(lastAddr) # {} THEN FindRegion(lastAddr)
                 ELSE FindRegion(lastAddr - 1)
        first == Min(here)
        tried == {first} \union NextRegion(first)
        At(i) == Clip(All[i], IF i = first THEN lastAddr ELSE All[i].start, align)
        fits  == {i \in tried : At(i) + size <= End(All[i])}
    IN  IF here = {} THEN [ok |-> FALSE, addr |-> 0, last |-> lastAddr]
        ELSE IF fits = {} THEN [ok |-> FALSE, addr |-> 0, last |-> At(Max(tried))]
        ELSE [ok |-> TRUE, addr |-> At(Min(fits)), last |-> At(Min(fits)) + size]

\* Memory is taken; without it the caller panics.
Take(size, align) ==
    LET a == StepAlloc(size, align)
    IN  /\ a.ok
        /\ lastAddr' = a.last
        /\ taken' = taken \union {Extent(a.addr, size)}

-----------------------------------------------------------------------------
(* MapSetup.                                                               *)

\* The list is complete; GenerateMap takes the PML4 and then the PDPT.
TakeRoot ==
    /\ phase = "regions" /\ read = Len(mmap)
    /\ IF regions.lower = <<>> \/ ~StepAlloc(Page, Page).ok THEN Panic
       ELSE /\ Take(Page, Page)
            /\ phase' = "pdpt"
            /\ UNCHANGED <<mmap, read, regions, mapVars, tree, buddy, owned>>

TakePdpt ==
    /\ phase = "pdpt"
    /\ IF ~StepAlloc(Page, Page).ok THEN Panic
       ELSE /\ Take(Page, Page)
            /\ phase' = "map"
            /\ UNCHANGED <<mmap, read, regions, mapVars, tree, buddy, owned>>

\* MapNext: the next large page, in a new directory if the last one is full.
IsPdtFull == pdts = <<>> \/ Len(pdts[Len(pdts)]) = Fanout

\* Mutant: the linear size is rounded down to large pages.
LinearDown(n) == IF n < 2 * BigPage THEN 0 ELSE n - BigPage

LinearLeft(n) == IF n <= BigPage THEN 0 ELSE n - BigPage

MapNext ==
    /\ phase = "map" /\ left > 0
    /\ IF IsPdtFull /\ ~StepAlloc(Page, Page).ok THEN Panic
       ELSE /\ IF IsPdtFull
               THEN Take(Page, Page) /\ pdts' = Append(pdts, <<firstUnmapped>>)
               ELSE /\ pdts' = [pdts EXCEPT ![Len(pdts)] = Append(@, firstUnmapped)]
                    /\ UNCHANGED <<lastAddr, taken>>
            /\ firstUnmapped' = firstUnmapped + BigPage
            /\ left' = LinearLeft(left)
            /\ UNCHANGED <<phase, mmap, read, regions, tree, buddy, owned>>

-----------------------------------------------------------------------------
(* BuddyAllocator.  InitializeCluster takes the space of the trees through *)
(* AllocAndMap, page by page.                                              *)

\* AllocAndMap reserves addresses for the trees, which may take a page table.
BeginTree(c, size, pageSize) ==
    \E table \in BOOLEAN :
        IF table /\ ~StepAlloc(Page, Page).ok THEN Panic
        ELSE /\ tree' = [cluster |-> c, size |-> size, pageSize |-> pageSize,
                         left |-> AlignUp(size, pageSize) \div pageSize]
             /\ phase' = "trees"
             /\ IF table THEN Take(Page, Page) ELSE UNCHANGED <<lastAddr, taken>>
             /\ UNCHANGED <<mmap, read, regions, mapVars, buddy, owned>>

\* Large pages are tried if they divide the size.
StartCluster(c) ==
    /\ \/ phase = "map" /\ left = 0 /\ c = "lower"
       \/ phase = "upper" /\ c = "upper" /\ regions.upper # <<>>
    /\ \E size \in TreeSizes :
          BeginTree(c, size, IF size % BigPage = 0 THEN BigPage ELSE Page)

RetrySmall == phase = "retry" /\ BeginTree(tree.cluster, tree.size, Page)

\* A page of the trees is allocated and mapped.  Without one the pages before it
\* are given back, which StepAllocator does not support; if there are none,
\* small pages are tried.
TreePage ==
    /\ phase = "trees" /\ tree.left > 0
    /\ LET a == StepAlloc(tree.pageSize, tree.pageSize)
       IN  IF a.ok
           THEN /\ Take(tree.pageSize, tree.pageSize)
                /\ tree' = [tree EXCEPT !.left = @ - 1]
                /\ UNCHANGED <<phase, mmap, read, regions, mapVars, buddy, owned>>
           ELSE IF tree.pageSize = Page \/ tree.left * BigPage < tree.size THEN Panic
           ELSE /\ lastAddr' = a.last
                /\ phase' = "retry"
                /\ UNCHANGED <<mmap, read, regions, taken, mapVars, tree, buddy, owned>>

EndCluster ==
    /\ phase = "trees" /\ tree.left = 0
    /\ phase' = IF tree.cluster = "lower" THEN "upper" ELSE "reserve"
    /\ UNCHANGED <<mmap, read, regions, lastAddr, taken, mapVars, tree, buddy, owned>>

PagesIn(r) == {a \in {r.start + i * Page : i \in 0 .. (r.size \div Page)} : a < End(r)}

\* The pages of a list of regions that Reserve leaves free.
PagesOf(list, from) ==
    {a \in UNION {PagesIn(list[i]) : i \in DOMAIN list} : a >= from}

\* Mutant: Reserve of MapSetup forgets what the trees have taken.
ReservedUpToImage == ReservedEnd

ReservedUpTo == lastAddr

\* BuddyAllocator::Reserve, and the page table is given its new allocator.
Reserve ==
    /\ phase = "reserve" \/ (phase = "upper" /\ regions.upper = <<>>)
    /\ buddy' = [c \in Clusters |-> PagesOf(regions[c], ReservedUpTo)]
    /\ phase' = "ready"
    /\ UNCHANGED <<mmap, read, regions, lastAddr, taken, mapVars, tree, owned>>

\* What Align of a cluster may return: the choice is that of its trees.
Fits(free, size, align) ==
    {a \in free : a % align = 0 /\ PagesIn(Extent(a, size)) \subseteq free}

\* AllocLower, and Alloc, which prefers the upper cluster.
LowerFits(size, align) == Fits(buddy.lower, size, align)
AllFits(size, align) ==
    IF Fits(buddy.upper, size, align) # {} THEN Fits(buddy.upper, size, align)
    ELSE LowerFits(size, align)

Give(a, size) ==
    /\ owned' = owned \union {Extent(a, size)}
    /\ buddy' = [c \in Clusters |-> buddy[c] \ PagesIn(Extent(a, size))]

\* Mutant: the first address above LowerEnd goes to the lower cluster.
ClusterAbove(a) == IF a > LowerEnd THEN "upper" ELSE "lower"

ClusterOf(a) == IF a >= LowerEnd THEN "upper" ELSE "lower"

\* Free looks the address up in the cluster it belongs to.  An address that was
\* not handed out is unknown to the trees.
Freed(a) == {r \in owned : r.start = a}

Release(a) ==
    /\ owned' = owned \ Freed(a)
    /\ buddy' = [buddy EXCEPT ![ClusterOf(a)] =
                    @ \union UNION {PagesIn(r) : r \in Freed(a)}]

BootNext ==
    \/ ReadEntry \/ TakeRoot \/ TakePdpt \/ MapNext
    \/ \E c \in Clusters : StartCluster(c)
    \/ RetrySmall \/ TreePage \/ EndCluster \/ Reserve

-----------------------------------------------------------------------------
(* Properties.                                                             *)

\* The addresses of a range, and those the memory map says are usable.
Units(r) == r.start .. (End(r) - 1)
Listed == UNION {Units(EntryRange(mmap[k])) : k \in {k \in DOMAIN mmap : IsUsable(mmap[k])}}

\* MultibootRegionList: whatever the order of the memory map, the lists are
\* sorted, do not overlap, keep to their side of LowerEnd, and hold exactly the
\* usable memory from the first megabyte on.  Below it nothing is claimed: the
\* code stretches the first region down to 0.
RegionsExact ==
    phase \notin {"regions", "panic"} =>
        /\ \A i, j \in DOMAIN All : i < j => End(All[i]) <= All[j].start
        /\ \A i \in DOMAIN regions.lower : End(regions.lower[i]) <= LowerEnd
        /\ \A i \in DOMAIN regions.upper : regions.upper[i].start >= LowerEnd
        /\ {a \in UNION {Units(All[i]) : i \in DOMAIN All} : a >= LowMemory} =
              {a \in Listed : a >= LowMemory}

\* What was taken before the BuddyAllocator existed is memory, is taken once, is
\* not part of the kernel, and is never free or handed out afterwards.
BootMemoryKept ==
    LET kernel == Extent(0, ReservedEnd)
        given == owned \union {Extent(a, Page) : a \in buddy.lower \union buddy.upper}
    IN  /\ \A r \in taken :
              /\ \E i \in DOMAIN All : r.start >= All[i].start /\ End(r) <= End(All[i])
              /\ \A s \in (taken \union {kernel}) \ {r} : ~Overlap(r, s)
        /\ \A r \in taken \union {kernel}, s \in given : ~Overlap(r, s)

\* The tables of GenerateMap map the kernel and the objects behind it to where
\* they are, with full directories before the last one.
KernelStaysMapped ==
    phase \notin {"regions", "pdpt", "map", "panic"} =>
        /\ firstUnmapped >= ReservedEnd
        /\ \A k \in DOMAIN pdts, i \in 1 .. Fanout :
              i \in DOMAIN pdts[k] =>
                  pdts[k][i] = ((k - 1) * Fanout + (i - 1)) * BigPage

\* Memory returns to the cluster it came from: what AllocLower hands out is below
\* LowerEnd.
ClustersSeparate ==
    /\ \A a \in buddy.lower : a < LowerEnd
    /\ \A a \in buddy.upper : a >= LowerEnd

=============================================================================
