------------------------------ MODULE HeapProofs ------------------------------
(***************************************************************************)
(* Proofs about BootMemory and Heap, for every memory map, page size,      *)
(* number of CPUs and set of addresses.                                    *)
(*                                                                         *)
(* The directories of GenerateMap need an invariant of their own (MapInv). *)
(* The heap rests on Inv, the conjunction of the types, of where the lists *)
(* and the clusters lie (ListsInv, BuddyInv), of who holds which pages     *)
(* (MemoryInv) and of the blocks (BlockInv).  What the region lists cover  *)
(* is RegionInv; what the StepAllocator takes is StepInv, and GivenInv     *)
(* keeps the BuddyAllocator behind it.                                     *)
(***************************************************************************)
EXTENDS Heap, TLAPS, WellFoundedInduction

-----------------------------------------------------------------------------
(* Lemmas about the operators of the model.                                *)

\* A set of natural numbers has a least element.
LEMMA LeastNatural ==
    ASSUME NEW T, T \subseteq Nat, T # {}
    PROVE  \E x \in T : \A y \in T : x <= y
<1> DEFINE R == OpToRel(<, Nat)
<1>1. IsWellFoundedOn(R, Nat)
  BY NatLessThanWellFounded
<1>2. \A x, y \in Nat : y < x => <<y, x>> \in R
  BY DEF OpToRel
<1> HIDE DEF R
<1>3. PICK x \in T : \A y \in T : ~(<<y, x>> \in R)
  BY <1>1, WFMin
<1>4. ASSUME NEW y \in T PROVE x <= y
  <2>1. ~(y < x)
    BY <1>2, <1>3
  <2> QED
    BY <2>1
<1> QED
  BY <1>4

\* Min picks that element.
LEMMA MinIsLeast ==
    ASSUME NEW T, T \subseteq Nat, T # {}
    PROVE  Min(T) \in T /\ \A y \in T : Min(T) <= y
<1>1. \E x \in T : \A y \in T : x <= y
  BY LeastNatural
<1> QED
  BY <1>1 DEF Min

\* Insert adds one region to a list, and changes no other.
LEMMA InsertType ==
    ASSUME NEW S, NEW list \in Seq(S), NEW r \in S
    PROVE  Insert(list, r) \in Seq(S)
<1> DEFINE later == {i \in DOMAIN list : list[i].start > r.start}
           k == IF later = {} THEN Len(list) + 1 ELSE Min(later)
<1>1. k \in 1 .. (Len(list) + 1)
  <2>1. CASE later = {}
    BY <2>1
  <2>2. CASE later # {}
    <3>1. later \subseteq Nat
      OBVIOUS
    <3>2. Min(later) \in later
      BY <2>2, <3>1, MinIsLeast
    <3> QED
      BY <2>2, <3>2
  <2> QED
    BY <2>1, <2>2
<1>2. Insert(list, r) = SubSeq(list, 1, k - 1) \o <<r>> \o SubSeq(list, k, Len(list))
  BY DEF Insert, InsertAt
<1> HIDE DEF k
<1>3. SubSeq(list, 1, k - 1) \in Seq(S) /\ SubSeq(list, k, Len(list)) \in Seq(S)
  BY <1>1
<1> QED
  BY <1>2, <1>3

-----------------------------------------------------------------------------
(* The region lists and the clusters.                                      *)

Ranges     == [start : Nat, size : Nat]
LowerRange == {r \in Ranges : End(r) <= LowerEnd}
UpperRange == {r \in Ranges : r.start >= LowerEnd}

ListsInv ==
    /\ mmap \in Seq([base : Nat, len : Nat, type : Nat])
    /\ read \in Nat
    /\ regions \in [lower : Seq(LowerRange), upper : Seq(UpperRange)]

\* What was handed out from a cluster lies in it as a whole.
BuddyInv ==
    /\ buddy \in [Clusters -> SUBSET Nat]
    /\ owned \subseteq Ranges
    /\ \A a \in buddy["lower"] : a < LowerEnd
    /\ \A a \in buddy["upper"] : a >= LowerEnd
    /\ \A r \in owned : \A p \in PagesIn(r) : ClusterOf(p) = ClusterOf(r.start)

LEMMA AddRegionType ==
    ASSUME NEW regs \in [lower : Seq(LowerRange), upper : Seq(UpperRange)],
           NEW r \in LowerRange \union UpperRange
    PROVE  AddRegion(regs, r) \in [lower : Seq(LowerRange), upper : Seq(UpperRange)]
<1>1. CASE r.start < LowerEnd
  <2>1. r \in LowerRange
    BY <1>1, SizeAssumption DEF UpperRange, LowerRange, Ranges
  <2>2. Insert(regs.lower, r) \in Seq(LowerRange)
    BY <2>1, InsertType
  <2> QED
    BY <1>1, <2>2 DEF AddRegion
<1>2. CASE ~(r.start < LowerEnd)
  <2>1. r \in UpperRange
    BY <1>2, SizeAssumption DEF UpperRange, LowerRange, Ranges, End
  <2>2. Insert(regs.upper, r) \in Seq(UpperRange)
    BY <2>1, InsertType
  <2> QED
    BY <1>2, <2>2 DEF AddRegion
<1> QED
  BY <1>1, <1>2

LEMMA AddPartsType ==
    ASSUME NEW regs \in [lower : Seq(LowerRange), upper : Seq(UpperRange)],
           NEW r \in Ranges
    PROVE  AddParts(regs, r) \in [lower : Seq(LowerRange), upper : Seq(UpperRange)]
<1>1. CASE r.start < LowerEnd /\ End(r) > LowerEnd
  <2> DEFINE low  == Extent(r.start, LowerEnd - r.start)
             high == Extent(LowerEnd, End(r) - LowerEnd)
  <2>1. low \in LowerRange
    BY <1>1, SizeAssumption DEF LowerRange, Ranges, End, Extent
  <2>2. high \in UpperRange
    BY <1>1, SizeAssumption DEF UpperRange, Ranges, End, Extent
  <2> HIDE DEF low, high
  <2>3. AddRegion(regs, low) \in [lower : Seq(LowerRange), upper : Seq(UpperRange)]
    BY <2>1, AddRegionType
  <2>4. AddRegion(AddRegion(regs, low), high)
            \in [lower : Seq(LowerRange), upper : Seq(UpperRange)]
    BY <2>2, <2>3, AddRegionType
  <2> QED
    BY <1>1, <2>4 DEF AddParts, low, high
<1>2. CASE ~(r.start < LowerEnd /\ End(r) > LowerEnd)
  <2>1. r \in LowerRange \union UpperRange
    BY <1>2, SizeAssumption DEF UpperRange, LowerRange, Ranges, End
  <2> QED
    BY <1>2, <2>1, AddRegionType DEF AddParts
<1> QED
  BY <1>1, <1>2

LEMMA ListsInit == Init => ListsInv
  BY MapAssumption DEF Init, BootInit, ListsInv

LEMMA StretchedType ==
    ASSUME NEW e \in [base : Nat, len : Nat, type : Nat]
    PROVE  Stretched(e) \in Ranges
  BY DEF Stretched, Extent, Ranges

LEMMA ListsStep == ListsInv /\ [Next]_vars => ListsInv'
<1> SUFFICES ASSUME ListsInv, [Next]_vars
             PROVE  ListsInv'
  OBVIOUS
<1>1. CASE ReadEntry
  <2> DEFINE e == mmap[read + 1]
             added == IF IsSkipped(e) THEN regions ELSE AddParts(regions, Stretched(e))
  <2>1. read < Len(mmap) /\ read \in Nat
    BY <1>1 DEF ReadEntry, ListsInv
  <2>2. e \in [base : Nat, len : Nat, type : Nat]
    <3>1. PICK E : E = [base : Nat, len : Nat, type : Nat]
      OBVIOUS
    <3>2. mmap \in Seq(E)
      BY <3>1 DEF ListsInv
    <3>3. mmap[read + 1] \in E
      BY <2>1, <3>2
    <3> QED
      BY <3>1, <3>3
  <2>3. Stretched(e) \in Ranges
    BY <2>2, StretchedType
  <2>4. AddParts(regions, Stretched(e)) \in [lower : Seq(LowerRange), upper : Seq(UpperRange)]
    BY <2>3, AddPartsType DEF ListsInv
  <2>5. added \in [lower : Seq(LowerRange), upper : Seq(UpperRange)]
    BY <2>4 DEF ListsInv
  <2>6. /\ mmap' = mmap
        /\ \/ read' = read /\ regions' = regions
           \/ read' = read + 1 /\ regions' = added
    BY <1>1 DEF ReadEntry, Panic
  <2> HIDE DEF added
  <2> QED
    BY <2>5, <2>6 DEF ListsInv
<1>2. CASE UNCHANGED <<mmap, read, regions>>
  BY <1>2 DEF ListsInv
<1>3. CASE BootNext /\ ~ReadEntry
  <2>1. UNCHANGED <<mmap, read, regions>>
    BY <1>3 DEF BootNext, TakeRoot, TakePdpt, MapNext, StartCluster, RetrySmall, BeginTree,
                TreePage, EndCluster, Reserve, Panic
  <2> QED
    BY <1>2, <2>1
<1>4. CASE ~BootNext
  <2>1. UNCHANGED bootVars
    BY <1>4 DEF Next, vars, AllocPhys, AllocLower, FreePhys, Alloc, Free, Search, NotFound,
                CreateSegment, Owns, FreeBlock, ReserveSegment, AllocPage, MapPage, UnmapPage,
                FreePage
  <2> QED
    BY <1>2, <2>1 DEF bootVars
<1> QED
  BY <1>1, <1>3, <1>4

-----------------------------------------------------------------------------

LEMMA PagesInType ==
    ASSUME NEW r \in Ranges
    PROVE  /\ PagesIn(r) \subseteq Nat
           /\ \A p \in PagesIn(r) : r.start <= p /\ p < End(r)
<1> SUFFICES ASSUME NEW p \in PagesIn(r)
             PROVE  p \in Nat /\ r.start <= p /\ p < End(r)
  OBVIOUS
<1>1. r.start \in Nat /\ r.size \in Nat
  BY DEF Ranges
<1>2. PICK i \in 0 .. (r.size \div Page) : p = r.start + i * Page
  BY DEF PagesIn
<1>3. p < End(r)
  BY DEF PagesIn
<1>4. i \in Nat
  BY <1>1, <1>2, SizeAssumption
<1>5. i * Page \in Nat
  BY <1>4, SizeAssumption
<1> QED
  BY <1>1, <1>2, <1>3, <1>5

LEMMA PagesOfType ==
    ASSUME NEW S, S \subseteq Ranges, NEW list \in Seq(S), NEW from
    PROVE  /\ PagesOf(list, from) \subseteq Nat
           /\ \A p \in PagesOf(list, from) : \E r \in S : r.start <= p /\ p < End(r)
<1> SUFFICES ASSUME NEW p \in PagesOf(list, from)
             PROVE  p \in Nat /\ \E r \in S : r.start <= p /\ p < End(r)
  OBVIOUS
<1>1. PICK i \in DOMAIN list : p \in PagesIn(list[i])
  BY DEF PagesOf
<1>2. list[i] \in S
  OBVIOUS
<1>3. list[i] \in Ranges
  BY <1>2
<1> QED
  BY <1>1, <1>2, <1>3, PagesInType

LEMMA ReserveKeeps ==
    ASSUME ListsInv, BuddyInv, Reserve
    PROVE  BuddyInv'
<1> DEFINE low  == PagesOf(regions.lower, ReservedUpTo)
           high == PagesOf(regions.upper, ReservedUpTo)
<1>1. regions.lower \in Seq(LowerRange) /\ regions.upper \in Seq(UpperRange)
  BY DEF ListsInv
<1>2. LowerRange \subseteq Ranges /\ UpperRange \subseteq Ranges
  BY DEF LowerRange, UpperRange
<1>3. low \subseteq Nat /\ \A p \in low : \E r \in LowerRange : r.start <= p /\ p < End(r)
  BY <1>1, <1>2, PagesOfType
<1>4. high \subseteq Nat /\ \A p \in high : \E r \in UpperRange : r.start <= p /\ p < End(r)
  BY <1>1, <1>2, PagesOfType
<1>5. \A p \in low : p < LowerEnd
  BY <1>3, SizeAssumption DEF LowerRange, Ranges, End
<1>6. \A p \in high : p >= LowerEnd
  BY <1>4, SizeAssumption DEF UpperRange, Ranges
<1>7. /\ buddy' = [c \in Clusters |-> PagesOf(regions[c], ReservedUpTo)]
      /\ owned' = owned
  BY DEF Reserve
<1>8. buddy["lower"]' = low /\ buddy["upper"]' = high
  BY <1>7 DEF Clusters
<1> HIDE DEF low, high
<1>9. buddy' \in [Clusters -> SUBSET Nat]
  BY <1>3, <1>4, <1>7, <1>8 DEF Clusters
<1> QED
  BY <1>5, <1>6, <1>7, <1>8, <1>9 DEF BuddyInv

LEMMA FitsIn ==
    ASSUME BuddyInv, NEW size \in Nat, NEW align,
           NEW a \in AllFits(size, align) \union LowerFits(size, align)
    PROVE  /\ a \in Nat
           /\ \E c \in Clusters : a \in buddy[c] /\ PagesIn(Extent(a, size)) \subseteq buddy[c]
<1>1. a \in Fits(buddy["lower"], size, align) \union Fits(buddy["upper"], size, align)
  BY DEF AllFits, LowerFits
<1>2. \E c \in Clusters : a \in buddy[c] /\ PagesIn(Extent(a, size)) \subseteq buddy[c]
  BY <1>1 DEF Fits, Clusters
<1> QED
  BY <1>2 DEF BuddyInv

LEMMA GiveKeeps ==
    ASSUME BuddyInv, NEW size \in Nat, NEW align,
           NEW a \in AllFits(size, align) \union LowerFits(size, align),
           Give(a, size)
    PROVE  BuddyInv'
<1> DEFINE x == Extent(a, size)
<1>1. a \in Nat
  BY FitsIn
<1>2. PICK c \in Clusters : a \in buddy[c] /\ PagesIn(x) \subseteq buddy[c]
  BY FitsIn
<1>3. x \in Ranges /\ x.start = a
  BY <1>1 DEF Extent, Ranges
<1>4. owned' = owned \union {x}
  BY DEF Give
<1>5. buddy' = [d \in Clusters |-> buddy[d] \ PagesIn(x)]
  BY DEF Give
<1>6. \A p \in PagesIn(x) : ClusterOf(p) = ClusterOf(a)
  <2>1. CASE c = "lower"
    BY <1>2, <2>1, SizeAssumption DEF BuddyInv, ClusterOf, Clusters
  <2>2. CASE c = "upper"
    BY <1>2, <2>2, SizeAssumption DEF BuddyInv, ClusterOf, Clusters
  <2> QED
    BY <2>1, <2>2 DEF Clusters
<1> HIDE DEF x
<1>7. buddy' \in [Clusters -> SUBSET Nat]
  BY <1>5 DEF BuddyInv
<1>8. /\ \A b \in buddy["lower"]' : b < LowerEnd
      /\ \A b \in buddy["upper"]' : b >= LowerEnd
  BY <1>5 DEF BuddyInv, Clusters
<1>9. owned' \subseteq Ranges
  BY <1>3, <1>4 DEF BuddyInv
<1>10. \A r \in owned' : \A p \in PagesIn(r) : ClusterOf(p) = ClusterOf(r.start)
  BY <1>3, <1>4, <1>6 DEF BuddyInv
<1> QED
  BY <1>7, <1>8, <1>9, <1>10 DEF BuddyInv

LEMMA ReleaseKeeps ==
    ASSUME BuddyInv, NEW a, Release(a)
    PROVE  BuddyInv'
<1> DEFINE back == UNION {PagesIn(r) : r \in Freed(a)}
<1>1. owned' \subseteq owned
  BY DEF Release
<1>2. buddy' = [buddy EXCEPT ![ClusterOf(a)] = @ \union back]
  BY DEF Release
<1>3. back \subseteq Nat
  BY PagesInType DEF Freed, BuddyInv
<1>4. \A p \in back : ClusterOf(p) = ClusterOf(a)
  BY DEF Freed, BuddyInv
<1> HIDE DEF back
<1>5. ClusterOf(a) \in Clusters
  BY DEF ClusterOf, Clusters
<1>6. buddy' \in [Clusters -> SUBSET Nat]
  BY <1>2, <1>3, <1>5 DEF BuddyInv
<1>7. \A b \in buddy["lower"]' : b < LowerEnd
  <2>1. CASE ClusterOf(a) = "lower"
    BY <1>2, <1>3, <1>4, <2>1, SizeAssumption DEF BuddyInv, Clusters, ClusterOf
  <2>2. CASE ClusterOf(a) = "upper"
    BY <1>2, <2>2 DEF BuddyInv, Clusters
  <2> QED
    BY <1>5, <2>1, <2>2 DEF Clusters
<1>8. \A b \in buddy["upper"]' : b >= LowerEnd
  <2>1. CASE ClusterOf(a) = "lower"
    BY <1>2, <2>1 DEF BuddyInv, Clusters
  <2>2. CASE ClusterOf(a) = "upper"
    BY <1>2, <1>3, <1>4, <2>2, SizeAssumption DEF BuddyInv, Clusters, ClusterOf
  <2> QED
    BY <1>5, <2>1, <2>2 DEF Clusters
<1>9. /\ owned' \subseteq Ranges
      /\ \A r \in owned' : \A p \in PagesIn(r) : ClusterOf(p) = ClusterOf(r.start)
  BY <1>1 DEF BuddyInv
<1> QED
  BY <1>6, <1>7, <1>8, <1>9 DEF BuddyInv

-----------------------------------------------------------------------------
(* The page directories of GenerateMap.                                    *)

\* The large frame of an entry of a directory.
Slot(k, i) == ((k - 1) * Fanout + (i - 1)) * BigPage

\* All directories but the last are full, and firstUnmapped is the frame of the
\* entry after the last one.
MapInv ==
    /\ left \in Nat
    /\ firstUnmapped \in Nat
    /\ pdts \in Seq(Seq(Nat))
    /\ \A k \in DOMAIN pdts :
          /\ Len(pdts[k]) <= Fanout
          /\ k < Len(pdts) => Len(pdts[k]) = Fanout
          /\ \A i \in DOMAIN pdts[k] : pdts[k][i] = Slot(k, i)
    /\ firstUnmapped = IF pdts = <<>> THEN 0 ELSE Slot(Len(pdts), Len(pdts[Len(pdts)]) + 1)
    /\ firstUnmapped + left >= ReservedEnd
    /\ phase \notin {"regions", "pdpt", "map", "panic"} => left = 0

LEMMA Slots ==
    /\ BigPage \in Nat \ {0}
    /\ Slot(1, 1) = 0
    /\ \A k, i \in Nat : Slot(k, i + 1) = Slot(k, i) + BigPage
    /\ \A k \in Nat : Slot(k, Fanout + 1) = Slot(k + 1, 1)
<1>1. BigPage \in Nat \ {0}
  BY SizeAssumption
<1>2. Slot(1, 1) = 0
  BY <1>1, SizeAssumption DEF Slot
<1>3. ASSUME NEW k \in Nat, NEW i \in Nat
      PROVE  Slot(k, i + 1) = Slot(k, i) + BigPage
  <2>1. (k - 1) * Fanout \in Int
    BY SizeAssumption
  <2>2. PICK x \in Int : x = (k - 1) * Fanout
    BY <2>1
  <2>3. (x + ((i + 1) - 1)) * BigPage = (x + (i - 1)) * BigPage + BigPage
    BY <1>1, <2>2
  <2> QED
    BY <2>2, <2>3 DEF Slot
<1>4. ASSUME NEW k \in Nat
      PROVE  Slot(k, Fanout + 1) = Slot(k + 1, 1)
  <2>1. (k - 1) * Fanout + ((Fanout + 1) - 1) = ((k + 1) - 1) * Fanout + (1 - 1)
    BY SizeAssumption
  <2> QED
    BY <2>1 DEF Slot
<1> QED
  BY <1>1, <1>2, <1>3, <1>4

LEMMA MapInit == Init => MapInv
  BY SizeAssumption DEF Init, BootInit, MapInv, ReservedEnd

LEMMA MapNextKeeps ==
    ASSUME MapInv, MapNext, phase' = phase
    PROVE  MapInv'
<1> DEFINE n == Len(pdts)
<1>1. BigPage \in Nat \ {0} /\ ReservedEnd \in Nat /\ Fanout \in Nat \ {0}
  BY Slots, SizeAssumption DEF ReservedEnd
<1>2. left \in Nat /\ firstUnmapped \in Nat /\ pdts \in Seq(Seq(Nat)) /\ n \in Nat
  BY DEF MapInv
<1>3. phase = "map" /\ phase # "panic"
  BY DEF MapNext
<1>4. /\ firstUnmapped' = firstUnmapped + BigPage
      /\ left' = LinearLeft(left)
  BY <1>3 DEF MapNext, Panic
<1>5. /\ left' \in Nat
      /\ firstUnmapped' \in Nat
      /\ firstUnmapped' + left' >= ReservedEnd
  <2>1. firstUnmapped + left >= ReservedEnd
    BY DEF MapInv
  <2>2. left' = IF left <= BigPage THEN 0 ELSE left - BigPage
    BY <1>4 DEF LinearLeft
  <2>3. CASE left <= BigPage
    BY <1>1, <1>2, <1>4, <2>1, <2>2, <2>3
  <2>4. CASE left > BigPage
    BY <1>1, <1>2, <1>4, <2>1, <2>2, <2>4
  <2> QED
    BY <1>1, <1>2, <2>3, <2>4
<1>6. CASE IsPdtFull
  <2>1. pdts' = Append(pdts, <<firstUnmapped>>)
    BY <1>3, <1>6 DEF MapNext, Panic
  <2>2. pdts' \in Seq(Seq(Nat)) /\ Len(pdts') = n + 1 /\ pdts' # <<>>
    BY <1>2, <2>1
  <2>3. \A k \in DOMAIN pdts : pdts'[k] = pdts[k]
    BY <1>2, <2>1
  <2>4. pdts'[n + 1] = <<firstUnmapped>>
    BY <1>2, <2>1
  <2>5. \A k \in DOMAIN pdts : Len(pdts[k]) = Fanout
    BY <1>2, <1>6 DEF MapInv, IsPdtFull
  <2>6. firstUnmapped = Slot(n + 1, 1)
    <3>1. CASE pdts = <<>>
      BY <3>1, Slots DEF MapInv
    <3>2. CASE pdts # <<>>
      <4>1. n \in DOMAIN pdts
        BY <1>2, <3>2
      <4>2. firstUnmapped = Slot(n, Fanout + 1)
        BY <2>5, <3>2, <4>1 DEF MapInv
      <4> QED
        BY <1>2, <4>2, Slots
    <3> QED
      BY <3>1, <3>2
  <2>7. firstUnmapped' = Slot(n + 1, 1 + 1)
    BY <1>2, <1>4, <2>6, Slots
  <2>8. ASSUME NEW k \in DOMAIN pdts'
        PROVE  /\ Len(pdts'[k]) <= Fanout
               /\ k < Len(pdts') => Len(pdts'[k]) = Fanout
               /\ \A i \in DOMAIN pdts'[k] : pdts'[k][i] = Slot(k, i)
    <3>1. CASE k \in DOMAIN pdts
      BY <1>1, <2>3, <2>5, <3>1 DEF MapInv
    <3>2. CASE k = n + 1
      <4>1. Len(<<firstUnmapped>>) = 1 /\ DOMAIN <<firstUnmapped>> = {1}
            /\ <<firstUnmapped>>[1] = firstUnmapped
        OBVIOUS
      <4>2. pdts'[k] = <<firstUnmapped>> /\ Slot(k, 1) = firstUnmapped
        BY <2>4, <2>6, <3>2
      <4>3. Len(pdts'[k]) = 1 /\ DOMAIN pdts'[k] = {1} /\ pdts'[k][1] = firstUnmapped
        BY <4>1, <4>2
      <4>4. Len(pdts'[k]) <= Fanout
        BY <1>1, <4>3
      <4>5. ~(k < Len(pdts'))
        BY <1>2, <2>2, <3>2
      <4>6. \A i \in DOMAIN pdts'[k] : pdts'[k][i] = Slot(k, i)
        BY <4>2, <4>3
      <4> QED
        BY <4>4, <4>5, <4>6
    <3> QED
      BY <1>2, <2>2, <3>1, <3>2
  <2>9. Len(pdts'[Len(pdts')]) = 1
    BY <2>2, <2>4
  <2>10. firstUnmapped' = IF pdts' = <<>> THEN 0
                          ELSE Slot(Len(pdts'), Len(pdts'[Len(pdts')]) + 1)
    BY <2>2, <2>7, <2>9
  <2> QED
    BY <1>3, <1>5, <2>2, <2>8, <2>10 DEF MapInv
<1>7. CASE ~IsPdtFull
  <2>1. pdts' = [pdts EXCEPT ![n] = Append(@, firstUnmapped)]
    BY <1>3, <1>7 DEF MapNext
  <2>2. pdts # <<>> /\ n \in DOMAIN pdts /\ Len(pdts[n]) # Fanout /\ pdts[n] \in Seq(Nat)
    BY <1>2, <1>7 DEF IsPdtFull
  <2>3. /\ pdts' \in Seq(Seq(Nat)) /\ Len(pdts') = n /\ DOMAIN pdts' = DOMAIN pdts
        /\ pdts'[n] = Append(pdts[n], firstUnmapped)
        /\ \A k \in DOMAIN pdts \ {n} : pdts'[k] = pdts[k]
    BY <1>2, <2>1, <2>2
  <2>4. PICK m \in Nat : m = Len(pdts[n])
    BY <2>2
  <2>5. m + 1 <= Fanout /\ firstUnmapped = Slot(n, m + 1)
    BY <1>1, <2>2, <2>4 DEF MapInv
  <2>6. /\ Len(pdts'[n]) = m + 1
        /\ pdts'[n][m + 1] = firstUnmapped
        /\ \A i \in DOMAIN pdts'[n] : i = m + 1 \/ (i \in DOMAIN pdts[n] /\ pdts'[n][i] = pdts[n][i])
    <3> DEFINE pdt == pdts[n]
    <3>1. pdt \in Seq(Nat) /\ m = Len(pdt) /\ pdts'[n] = Append(pdt, firstUnmapped)
      BY <2>2, <2>3, <2>4
    <3> HIDE DEF pdt
    <3>2. /\ Len(Append(pdt, firstUnmapped)) = m + 1
          /\ Append(pdt, firstUnmapped)[m + 1] = firstUnmapped
          /\ \A i \in 1 .. m : Append(pdt, firstUnmapped)[i] = pdt[i]
          /\ DOMAIN pdt = 1 .. m /\ DOMAIN Append(pdt, firstUnmapped) = 1 .. m + 1
      BY <1>2, <3>1
    <3>3. \A i \in 1 .. m + 1 : i = m + 1 \/ i \in 1 .. m
      BY <2>4
    <3> QED
      BY <3>1, <3>2, <3>3 DEF pdt
  <2>7. firstUnmapped' = Slot(n, m + 1 + 1)
    BY <1>2, <1>4, <2>5, Slots
  <2>8. ASSUME NEW k \in DOMAIN pdts'
        PROVE  /\ Len(pdts'[k]) <= Fanout
               /\ k < Len(pdts') => Len(pdts'[k]) = Fanout
               /\ \A i \in DOMAIN pdts'[k] : pdts'[k][i] = Slot(k, i)
    <3>1. CASE k # n
      <4>1. k \in DOMAIN pdts /\ pdts'[k] = pdts[k] /\ Len(pdts') = Len(pdts)
        BY <2>3, <3>1
      <4>2. /\ Len(pdts[k]) <= Fanout
            /\ k < Len(pdts) => Len(pdts[k]) = Fanout
            /\ \A i \in DOMAIN pdts[k] : pdts[k][i] = Slot(k, i)
        BY <4>1 DEF MapInv
      <4> QED
        BY <4>1, <4>2
    <3>2. CASE k = n
      <4>1. Len(pdts'[k]) <= Fanout
        BY <2>5, <2>6, <3>2
      <4>2. ~(k < Len(pdts'))
        BY <1>2, <2>3, <3>2
      <4>3. \A i \in DOMAIN pdts'[k] : pdts'[k][i] = Slot(k, i)
        BY <2>2, <2>5, <2>6, <3>2 DEF MapInv
      <4> QED
        BY <4>1, <4>2, <4>3
    <3> QED
      BY <3>1, <3>2
  <2>9. firstUnmapped' = IF pdts' = <<>> THEN 0
                         ELSE Slot(Len(pdts'), Len(pdts'[Len(pdts')]) + 1)
    <3>1. pdts' # <<>>
      BY <2>2, <2>3
    <3> QED
      BY <2>3, <2>6, <2>7, <3>1
  <2> QED
    BY <1>3, <1>5, <2>3, <2>8, <2>9 DEF MapInv
<1> QED
  BY <1>6, <1>7

LEMMA MapStep == MapInv /\ [Next]_vars => MapInv'
<1> SUFFICES ASSUME MapInv, [Next]_vars
             PROVE  MapInv'
  OBVIOUS
<1>1. ASSUME UNCHANGED mapVars,
             \/ phase' \in {phase, "panic", "regions", "pdpt", "map"}
             \/ left = 0
      PROVE  MapInv'
  BY <1>1 DEF MapInv, mapVars
<1>2. CASE ReadEntry
  BY <1>1, <1>2 DEF ReadEntry, Panic, mapVars
<1>3. CASE TakeRoot
  BY <1>1, <1>3 DEF TakeRoot, Panic, mapVars
<1>4. CASE TakePdpt
  BY <1>1, <1>4 DEF TakePdpt, Panic, mapVars
<1>5. CASE MapNext
  <2>1. CASE phase' = phase
    BY <1>5, <2>1, MapNextKeeps
  <2>2. CASE phase' # phase
    <3>1. Panic
      BY <1>5, <2>2 DEF MapNext
    <3> QED
      BY <1>1, <3>1 DEF Panic, mapVars
  <2> QED
    BY <2>1, <2>2
<1>6. CASE \E c \in Clusters : StartCluster(c)
  <2>1. left = 0
    BY <1>6 DEF StartCluster, MapInv
  <2>2. UNCHANGED mapVars
    BY <1>6 DEF StartCluster, BeginTree, Panic, mapVars
  <2> QED
    BY <1>1, <2>1, <2>2
<1>7. CASE RetrySmall \/ TreePage \/ EndCluster \/ Reserve
  <2>1. left = 0
    BY <1>7 DEF RetrySmall, TreePage, EndCluster, Reserve, MapInv
  <2>2. UNCHANGED mapVars
    BY <1>7 DEF RetrySmall, TreePage, EndCluster, Reserve, BeginTree, Panic, mapVars
  <2> QED
    BY <1>1, <2>1, <2>2
<1>8. CASE ~BootNext
  <2>1. UNCHANGED bootVars
    BY <1>8 DEF Next, vars, AllocPhys, AllocLower, FreePhys, Alloc, Free, Search, NotFound,
                CreateSegment, Owns, FreeBlock, ReserveSegment, AllocPage, MapPage, UnmapPage,
                FreePage
  <2> QED
    BY <1>1, <2>1 DEF bootVars
<1> QED
  BY <1>2, <1>3, <1>4, <1>5, <1>6, <1>7, <1>8 DEF BootNext

\* GenerateMap maps the kernel and the objects behind it to where they are, for
\* every size of the image, and leaves no directory before the last one short.
THEOREM KernelIsMapped == Spec => []KernelStaysMapped
<1>1. MapInv => KernelStaysMapped
  <2> SUFFICES ASSUME MapInv, phase \notin {"regions", "pdpt", "map", "panic"}
               PROVE  /\ firstUnmapped >= ReservedEnd
                      /\ \A k \in DOMAIN pdts, i \in 1 .. Fanout :
                            i \in DOMAIN pdts[k] =>
                                pdts[k][i] = ((k - 1) * Fanout + (i - 1)) * BigPage
    BY DEF KernelStaysMapped
  <2>1. firstUnmapped >= ReservedEnd
    BY DEF MapInv
  <2> QED
    BY <2>1 DEF MapInv, Slot
<1> QED
  BY <1>1, MapInit, MapStep, PTL DEF Spec

-----------------------------------------------------------------------------
(* Pages.                                                                  *)

LEMMA OnePage ==
    ASSUME NEW a \in Nat
    PROVE  Pages(a, Page) = {a}
<1>1. Page \div Page = 1
  BY SizeAssumption
<1>2. a + 0 * Page = a
  BY SizeAssumption
<1> QED
  BY <1>1, <1>2 DEF Pages

LEMMA BigPages ==
    ASSUME NEW a \in Nat
    PROVE  Pages(a, BigPage) = {a + i * Page : i \in 0 .. (Fanout - 1)}
<1>1. (Fanout * Page) \div Page = Fanout
  BY SizeAssumption
<1> QED
  BY <1>1, SizeAssumption DEF Pages

\* The pages of a segment are Page apart, from its base to its end.
LEMMA PageOrder ==
    ASSUME NEW a \in Nat
    PROVE  /\ a \in Pages(a, BigPage)
           /\ \A p \in Pages(a, BigPage) :
                 /\ p \in Nat /\ a <= p /\ p + Page <= a + BigPage
                 /\ p + Page \in Pages(a, BigPage) \/ p + Page = a + BigPage
                 /\ \A q \in Pages(a, BigPage) : q <= p \/ p + Page <= q
<1>1. Page \in Nat \ {0} /\ Fanout \in Nat \ {0} /\ BigPage = Fanout * Page
  BY SizeAssumption
<1>2. a \in Pages(a, BigPage)
  <2>1. 0 \in 0 .. (Fanout - 1) /\ a = a + 0 * Page
    BY <1>1
  <2> QED
    BY <2>1, BigPages
<1>3. ASSUME NEW p \in Pages(a, BigPage)
      PROVE  /\ p \in Nat /\ a <= p /\ p + Page <= a + BigPage
             /\ p + Page \in Pages(a, BigPage) \/ p + Page = a + BigPage
             /\ \A q \in Pages(a, BigPage) : q <= p \/ p + Page <= q
  <2>1. PICK i \in 0 .. (Fanout - 1) : p = a + i * Page
    BY BigPages
  <2>2. i \in Nat /\ i + 1 <= Fanout
    BY <1>1, <2>1
  <2>3. i * Page \in Nat /\ (i + 1) * Page = i * Page + Page
    BY <1>1, <2>2
  <2>4. ASSUME NEW m \in Nat, NEW n \in Nat, m <= n
        PROVE  m * Page <= n * Page
    <3>1. PICK d \in Nat : n = m + d
      BY <2>4
    <3>2. n * Page = m * Page + d * Page /\ d * Page >= 0
      BY <1>1, <3>1
    <3> QED
      BY <1>1, <3>2
  <2>5. (i + 1) * Page <= Fanout * Page
    BY <1>1, <2>2, <2>4
  <2>6. p \in Nat /\ a <= p /\ p + Page <= a + BigPage
    BY <1>1, <2>1, <2>3, <2>5
  <2>7. p + Page \in Pages(a, BigPage) \/ p + Page = a + BigPage
    <3>1. p + Page = a + (i + 1) * Page
      BY <1>1, <2>1, <2>3
    <3>2. CASE i + 1 = Fanout
      BY <1>1, <3>1, <3>2
    <3>3. CASE i + 1 # Fanout
      <4>1. i + 1 \in 0 .. (Fanout - 1)
        BY <1>1, <2>2, <3>3
      <4> QED
        BY <3>1, <4>1, BigPages
    <3> QED
      BY <3>2, <3>3
  <2>8. ASSUME NEW q \in Pages(a, BigPage)
        PROVE  q <= p \/ p + Page <= q
    <3>1. PICK j \in 0 .. (Fanout - 1) : q = a + j * Page
      BY BigPages
    <3>2. j \in Nat /\ j * Page \in Nat
      BY <1>1, <3>1
    <3>3. CASE j <= i
      <4>1. j * Page <= i * Page
        BY <2>2, <2>4, <3>2, <3>3
      <4> QED
        BY <2>1, <2>3, <3>1, <3>2, <4>1
    <3>4. CASE i + 1 <= j
      <4>1. (i + 1) * Page <= j * Page
        BY <2>2, <2>4, <3>2, <3>4
      <4> QED
        BY <1>1, <2>1, <2>3, <3>1, <3>2, <4>1
    <3> QED
      BY <2>2, <3>2, <3>3, <3>4
  <2> QED
    BY <2>6, <2>7, <2>8
<1> QED
  BY <1>2, <1>3

-----------------------------------------------------------------------------
(* The heap: types.                                                        *)

Entries == [use : {"none", "reserved", "mapped"}, size : Nat, frame : Nat]
Blocks  == [segment : Nat, first : Nat, size : Nat]
States  == [pc : {"idle", "search", "reserve", "page", "map", "link", "unwind", "release",
                  "owns", "free"},
            size : Nat, at : Nat, again : BOOLEAN, base : Nat, dest : Nat, source : Nat,
            pageSize : {Page, BigPage}, frame : Nat, block : Blocks]

HeapType ==
    /\ vmap \in [Addresses -> Entries]
    /\ segments \in Seq(Nat)
    /\ blocks \subseteq Blocks
    /\ cpu \in [Cpus -> States]

LEMMA IdleType == Idle \in States
<1>1. NoBlock \in Blocks
  BY DEF NoBlock, Blocks
<1> QED
  BY <1>1 DEF Idle, States

LEMMA HeapTypeInit == Init => HeapType
<1> SUFFICES ASSUME Init PROVE HeapType
  OBVIOUS
<1>1. Unmapped \in Entries
  BY DEF Unmapped, Entries
<1> QED
  BY <1>1, IdleType DEF Init, HeapType

LEMMA ChangedType ==
    ASSUME HeapType, NEW pages, NEW entry \in Entries
    PROVE  Changed(pages, entry) \in [Addresses -> Entries]
  BY DEF HeapType, Changed

-----------------------------------------------------------------------------
(* What each step of a CPU does to its state.                              *)

LEMMA AllocMoves ==
    ASSUME HeapType, NEW c \in Cpus, NEW size \in BlockSizes, Alloc(c, size)
    PROVE  \E u \in States :
              /\ cpu' = [cpu EXCEPT ![c] = u]
              /\ u.pc = "search" /\ u.at = Len(segments)
<1> DEFINE u == [Idle EXCEPT !.pc = "search", !.size = size, !.at = Len(segments)]
<1>1. size \in Nat /\ Len(segments) \in Nat
  BY HeapAssumption DEF HeapType
<1>2. u \in States
  BY <1>1, IdleType DEF States
<1>3. u.pc = "search" /\ u.at = Len(segments)
  BY DEF Idle
<1>4. cpu' = [cpu EXCEPT ![c] = u]
  BY DEF Alloc
<1> HIDE DEF u
<1> QED
  BY <1>2, <1>3, <1>4

LEMMA FreeMoves ==
    ASSUME HeapType, NEW c \in Cpus, NEW b \in blocks, Free(c, b)
    PROVE  \E u \in States :
              /\ cpu' = [cpu EXCEPT ![c] = u]
              /\ u.pc = "owns" /\ u.at = Len(segments)
<1> DEFINE u == [Idle EXCEPT !.pc = "owns", !.block = b, !.at = Len(segments)]
<1>1. b \in Blocks /\ Len(segments) \in Nat
  BY DEF HeapType
<1>2. u \in States
  BY <1>1, IdleType DEF States
<1>3. u.pc = "owns" /\ u.at = Len(segments)
  BY DEF Idle
<1>4. cpu' = [cpu EXCEPT ![c] = u]
  BY DEF Free
<1> HIDE DEF u
<1> QED
  BY <1>2, <1>3, <1>4

LEMMA SearchMoves ==
    ASSUME HeapType, NEW c \in Cpus, Search(c)
    PROVE  \E u \in States :
              /\ cpu' = [cpu EXCEPT ![c] = u]
              /\ u.pc \in {"search", "idle"} /\ u.at <= cpu[c].at
<1>1. cpu[c] \in States /\ cpu[c].pc = "search" /\ cpu[c].at > 0
  BY DEF HeapType, Search, At
<1>2. cpu' = [cpu EXCEPT ![c] = Idle] \/ cpu' = [cpu EXCEPT ![c].at = @ - 1]
  BY DEF Search
<1>3. CASE cpu' = [cpu EXCEPT ![c] = Idle]
  <2>1. Idle.pc = "idle" /\ Idle.at = 0 /\ cpu[c].at \in Nat
    BY <1>1 DEF Idle, States
  <2>2. Idle.at <= cpu[c].at /\ Idle.pc \in {"search", "idle"}
    BY <2>1
  <2> QED
    BY <1>3, <2>2, IdleType
<1>4. CASE cpu' = [cpu EXCEPT ![c].at = @ - 1]
  <2> DEFINE u == [cpu[c] EXCEPT !.at = cpu[c].at - 1]
  <2>1. u \in States /\ u.pc = "search" /\ u.at <= cpu[c].at
    BY <1>1 DEF States
  <2>2. cpu' = [cpu EXCEPT ![c] = u]
    BY <1>4 DEF HeapType
  <2> HIDE DEF u
  <2> QED
    BY <2>1, <2>2
<1> QED
  BY <1>2, <1>3, <1>4

LEMMA NotFoundMoves ==
    ASSUME HeapType, NEW c \in Cpus, NotFound(c)
    PROVE  \E u \in States :
              /\ cpu' = [cpu EXCEPT ![c] = u]
              /\ u.pc \in {"reserve", "idle"} /\ u.at <= cpu[c].at
<1>1. cpu[c] \in States /\ cpu[c].pc = "search" /\ cpu[c].at = 0
  BY DEF HeapType, NotFound, At
<1> DEFINE u == [cpu[c] EXCEPT !.pc = "reserve", !.pageSize = BigPage]
<1>2. u \in States /\ u.pc = "reserve" /\ u.at = cpu[c].at
  BY <1>1 DEF States
<1>3. Idle.pc = "idle" /\ Idle.at = 0
  BY DEF Idle
<1>4. cpu' = [cpu EXCEPT ![c] = Idle] \/ cpu' = [cpu EXCEPT ![c] = u]
  BY DEF NotFound
<1> HIDE DEF u
<1>5. cpu[c].at <= cpu[c].at /\ 0 <= cpu[c].at
  BY <1>1
<1> QED
  BY <1>1, <1>2, <1>3, <1>4, <1>5, IdleType

LEMMA CreateMoves ==
    ASSUME HeapType, NEW c \in Cpus, CreateSegment(c)
    PROVE  \E u \in States :
              /\ cpu' = [cpu EXCEPT ![c] = u]
              /\ u.pc = "search" /\ u.at = Len(segments')
<1>1. cpu[c] \in States /\ segments' = Append(segments, cpu[c].base)
  BY DEF HeapType, CreateSegment, Linked
<1>2. cpu[c].base \in Nat
  BY <1>1 DEF States
<1>3. Len(segments') \in Nat
  BY <1>1, <1>2 DEF HeapType
<1> DEFINE u == [Idle EXCEPT !.pc = "search", !.size = cpu[c].size,
                             !.at = Len(segments'), !.again = TRUE]
<1>4. u \in States
  BY <1>1, <1>3, IdleType DEF States
<1>5. u.pc = "search" /\ u.at = Len(segments')
  BY DEF Idle
<1>6. cpu' = [cpu EXCEPT ![c] = u]
  BY DEF CreateSegment
<1> HIDE DEF u
<1> QED
  BY <1>4, <1>5, <1>6

LEMMA OwnsMoves ==
    ASSUME HeapType, NEW c \in Cpus, Owns(c)
    PROVE  \E u \in States :
              /\ cpu' = [cpu EXCEPT ![c] = u]
              /\ u.pc = "free" /\ u.at = Len(segments)
<1>1. cpu[c] \in States /\ Len(segments) \in Nat
  BY DEF HeapType
<1> DEFINE u == [cpu[c] EXCEPT !.pc = "free", !.at = Len(segments)]
<1>2. u \in States /\ u.pc = "free" /\ u.at = Len(segments)
  BY <1>1 DEF States
<1>3. cpu' = [cpu EXCEPT ![c] = u]
  BY DEF Owns, HeapType
<1> HIDE DEF u
<1> QED
  BY <1>2, <1>3

LEMMA FreeBlockMoves ==
    ASSUME HeapType, NEW c \in Cpus, FreeBlock(c)
    PROVE  \E u \in States :
              /\ cpu' = [cpu EXCEPT ![c] = u]
              /\ u.pc = "idle" /\ u.at = 0
<1>1. Idle.pc = "idle" /\ Idle.at = 0
  BY DEF Idle
<1> QED
  BY <1>1, IdleType DEF FreeBlock

LEMMA NextPageSizeType ==
    ASSUME NEW u \in States
    PROVE  /\ NextPageSize(u) \in States
           /\ NextPageSize(u).pc \in {"idle", "reserve"}
           /\ NextPageSize(u).at <= u.at
<1>1. CASE u.pageSize = Page
  <2>1. Idle.pc = "idle" /\ Idle.at = 0 /\ u.at \in Nat
    BY DEF Idle, States
  <2> QED
    BY <1>1, <2>1, IdleType DEF NextPageSize
<1>2. CASE u.pageSize # Page
  <2> DEFINE w == [Idle EXCEPT !.pc = "reserve", !.size = u.size]
  <2>1. w \in States
    BY IdleType DEF States
  <2>2. w.pc = "reserve" /\ w.at = 0 /\ u.at \in Nat
    BY DEF Idle, States
  <2>3. NextPageSize(u) = w
    BY <1>2 DEF NextPageSize
  <2> HIDE DEF w
  <2> QED
    BY <2>1, <2>2, <2>3
<1> QED
  BY <1>1, <1>2

\* ReserveSegment gives up this page size, or takes addresses that read as unmapped.
LEMMA ReserveMoves ==
    ASSUME HeapType, NEW c \in Cpus, ReserveSegment(c)
    PROVE  \E u \in States :
              /\ cpu' = [cpu EXCEPT ![c] = u]
              /\ u.at <= cpu[c].at
              /\ \/ u.pc \in {"idle", "reserve"} /\ vmap' = vmap
                 \/ /\ u.pc = "page" /\ u.dest = u.base
                    /\ u.base \in Reservable(u.pageSize)
                    /\ vmap' = Changed(Pages(u.base, BigPage), Held(u.pageSize))
                    /\ ~twice' => \A d \in Cpus \ {c} :
                                     Pending(d) \intersect Pages(u.base, BigPage) = {}
<1> DEFINE size == cpu[c].pageSize
<1>1. cpu[c] \in States
  BY DEF HeapType
<1>2. CASE cpu' = [cpu EXCEPT ![c] = NextPageSize(cpu[c])] /\ vmap' = vmap
  BY <1>1, <1>2, NextPageSizeType
<1>3. ASSUME NEW a \in Reservable(size),
             vmap' = Changed(Pages(a, BigPage), Held(size)),
             cpu' = [cpu EXCEPT ![c].pc = "page", ![c].base = a, ![c].dest = a],
             ~twice' => \A d \in Cpus \ {c} : Pending(d) \intersect Pages(a, BigPage) = {}
      PROVE  \E u \in States :
                /\ cpu' = [cpu EXCEPT ![c] = u]
                /\ u.at <= cpu[c].at
                /\ u.pc = "page" /\ u.dest = u.base
                /\ u.base \in Reservable(u.pageSize)
                /\ vmap' = Changed(Pages(u.base, BigPage), Held(u.pageSize))
                /\ ~twice' => \A d \in Cpus \ {c} :
                                 Pending(d) \intersect Pages(u.base, BigPage) = {}
  <2>1. a \in Nat
    BY HeapAssumption DEF Reservable
  <2> DEFINE u == [cpu[c] EXCEPT !.pc = "page", !.base = a, !.dest = a]
  <2>2. u \in States
    BY <1>1, <2>1 DEF States
  <2>3. /\ u.pc = "page" /\ u.base = a /\ u.dest = a /\ u.pageSize = size /\ u.at = cpu[c].at
        /\ cpu[c].at \in Nat
    BY <1>1 DEF States
  <2>4. cpu' = [cpu EXCEPT ![c] = u]
    BY <1>3 DEF HeapType
  <2> HIDE DEF u, size
  <2>5. u.at <= cpu[c].at
    BY <2>3
  <2> QED
    BY <1>3, <2>2, <2>3, <2>4, <2>5
<1>4. \/ cpu' = [cpu EXCEPT ![c] = NextPageSize(cpu[c])] /\ vmap' = vmap
      \/ \E a \in Reservable(size) :
            /\ vmap' = Changed(Pages(a, BigPage), Held(size))
            /\ cpu' = [cpu EXCEPT ![c].pc = "page", ![c].base = a, ![c].dest = a]
            /\ ~twice' => \A d \in Cpus \ {c} : Pending(d) \intersect Pages(a, BigPage) = {}
  BY Zenon DEF ReserveSegment
<1> HIDE DEF size
<1> QED
  BY <1>2, <1>3, <1>4

\* AllocPage gets a frame, or turns back.
LEMMA AllocPageMoves ==
    ASSUME HeapType, BuddyInv, NEW c \in Cpus, AllocPage(c)
    PROVE  \E u \in States :
              /\ cpu' = [cpu EXCEPT ![c] = u]
              /\ u.pc = "map" \/ (u.pc = "unwind" /\ u.source = u.base)
              /\ u.base = cpu[c].base /\ u.dest = cpu[c].dest /\ u.at = cpu[c].at
              /\ u.pageSize = cpu[c].pageSize
<1> DEFINE size == cpu[c].pageSize
<1>1. cpu[c] \in States
  BY DEF HeapType
<1>2. CASE AllFits(size, size) = {}
  <2> DEFINE u == [cpu[c] EXCEPT !.pc = "unwind", !.source = cpu[c].base]
  <2>1. u \in States
    BY <1>1 DEF States
  <2>2. /\ u.pc = "unwind" /\ u.source = u.base
        /\ u.base = cpu[c].base /\ u.dest = cpu[c].dest /\ u.at = cpu[c].at
        /\ u.pageSize = cpu[c].pageSize
    BY <1>1 DEF States
  <2>3. cpu' = [cpu EXCEPT ![c] = u]
    BY <1>2 DEF AllocPage, HeapType
  <2> HIDE DEF u
  <2> QED
    BY <2>1, <2>2, <2>3
<1>3. CASE AllFits(size, size) # {}
  <2>1. PICK f \in AllFits(size, size) :
           cpu' = [cpu EXCEPT ![c].pc = "map", ![c].frame = f]
    BY <1>3 DEF AllocPage
  <2>2. size \in Nat
    BY <1>1, SizeAssumption DEF States
  <2>3. f \in Nat
    BY <2>2, FitsIn
  <2> DEFINE u == [cpu[c] EXCEPT !.pc = "map", !.frame = f]
  <2>4. u \in States
    BY <1>1, <2>3 DEF States
  <2>5. /\ u.pc = "map"
        /\ u.base = cpu[c].base /\ u.dest = cpu[c].dest /\ u.at = cpu[c].at
        /\ u.pageSize = cpu[c].pageSize
    BY <1>1 DEF States
  <2>6. cpu' = [cpu EXCEPT ![c] = u]
    BY <2>1 DEF HeapType
  <2> HIDE DEF u
  <2> QED
    BY <2>4, <2>5, <2>6
<1> QED
  BY <1>2, <1>3

LEMMA MapPageMoves ==
    ASSUME HeapType, NEW c \in Cpus, MapPage(c)
    PROVE  \E u \in States :
              /\ cpu' = [cpu EXCEPT ![c] = u]
              /\ u.dest = cpu[c].dest + cpu[c].pageSize
              /\ u.pc = IF u.dest = u.base + BigPage THEN "link" ELSE "page"
              /\ u.base = cpu[c].base /\ u.at = cpu[c].at /\ u.pageSize = cpu[c].pageSize
              /\ vmap' = Changed(Pages(cpu[c].dest, u.pageSize), Mapped(u.pageSize, cpu[c].frame))
<1>1. cpu[c] \in States
  BY DEF HeapType
<1>2. cpu[c].pageSize \in Nat /\ cpu[c].dest \in Nat
  BY <1>1, SizeAssumption DEF States
<1> DEFINE dest == cpu[c].dest + cpu[c].pageSize
           pc == IF dest = cpu[c].base + BigPage THEN "link" ELSE "page"
           u == [cpu[c] EXCEPT !.dest = dest, !.frame = 0, !.pc = pc]
<1>3. dest \in Nat /\ pc \in {"link", "page"}
  BY <1>2
<1>4. /\ cpu' = [cpu EXCEPT ![c] = u]
      /\ vmap' = Changed(Pages(cpu[c].dest, cpu[c].pageSize),
                         Mapped(cpu[c].pageSize, cpu[c].frame))
  BY DEF MapPage, HeapType
<1>5. pc = IF dest = cpu[c].base + BigPage THEN "link" ELSE "page"
  OBVIOUS
<1>6. dest = cpu[c].dest + cpu[c].pageSize
  OBVIOUS
<1> HIDE DEF dest, pc
<1>7. u \in States
  BY <1>1, <1>3 DEF States
<1>8. /\ u.dest = dest /\ u.pc = pc
      /\ u.base = cpu[c].base /\ u.at = cpu[c].at /\ u.pageSize = cpu[c].pageSize
  BY <1>1 DEF States
<1> HIDE DEF u
<1> QED
  BY <1>4, <1>5, <1>6, <1>7, <1>8

\* UnmapPage is done, or takes the next page out of the map.
LEMMA UnmapPageMoves ==
    ASSUME HeapType, NEW c \in Cpus, UnmapPage(c), cpu[c].source \in Addresses
    PROVE  \E u \in States :
              /\ cpu' = [cpu EXCEPT ![c] = u]
              /\ u.at <= cpu[c].at
              /\ \/ /\ cpu[c].source = cpu[c].dest
                    /\ u.pc \in {"idle", "reserve"}
                    /\ vmap' = vmap
                 \/ /\ cpu[c].source # cpu[c].dest
                    /\ u.pc = "release" /\ u.base = cpu[c].base /\ u.dest = cpu[c].dest
                    /\ u.source = cpu[c].source /\ u.pageSize = cpu[c].pageSize
                    /\ vmap' = Changed(Pages(u.source, vmap[u.source].size), Unmapped)
<1>1. cpu[c] \in States /\ vmap[cpu[c].source] \in Entries
  BY DEF HeapType
<1>2. CASE cpu[c].source = cpu[c].dest
  <2>1. cpu' = [cpu EXCEPT ![c] = NextPageSize(cpu[c])] /\ vmap' = vmap
    BY <1>2 DEF UnmapPage, Unwound
  <2> QED
    BY <1>1, <1>2, <2>1, NextPageSizeType
<1>3. CASE cpu[c].source # cpu[c].dest
  <2>1. PICK f : f = vmap[cpu[c].source].frame
    OBVIOUS
  <2>2. f \in Nat
    BY <1>1, <2>1 DEF Entries
  <2>3. /\ cpu' = [cpu EXCEPT ![c].pc = "release", ![c].frame = f]
        /\ vmap' = Changed(Pages(cpu[c].source, vmap[cpu[c].source].size), Unmapped)
    BY <1>3, <2>1 DEF UnmapPage
  <2> DEFINE u == [cpu[c] EXCEPT !.pc = "release", !.frame = f]
  <2>4. u \in States
    BY <1>1, <2>2 DEF States
  <2>5. /\ u.pc = "release" /\ u.base = cpu[c].base /\ u.dest = cpu[c].dest
        /\ u.source = cpu[c].source /\ u.pageSize = cpu[c].pageSize /\ u.at = cpu[c].at
        /\ cpu[c].at \in Nat
    BY <1>1 DEF States
  <2>6. cpu' = [cpu EXCEPT ![c] = u]
    BY <2>3 DEF HeapType
  <2> HIDE DEF u
  <2>7. u.at <= cpu[c].at
    BY <2>5
  <2>8. vmap' = Changed(Pages(u.source, vmap[u.source].size), Unmapped)
    BY <2>3, <2>5
  <2> QED
    BY <1>3, <2>4, <2>5, <2>6, <2>7, <2>8
<1> QED
  BY <1>2, <1>3

LEMMA FreePageMoves ==
    ASSUME HeapType, NEW c \in Cpus, FreePage(c)
    PROVE  \E u \in States :
              /\ cpu' = [cpu EXCEPT ![c] = u]
              /\ u.pc = "unwind" /\ u.source = cpu[c].source + cpu[c].pageSize
              /\ u.base = cpu[c].base /\ u.dest = cpu[c].dest /\ u.at = cpu[c].at
              /\ u.pageSize = cpu[c].pageSize
<1>1. cpu[c] \in States
  BY DEF HeapType
<1>2. PICK s : s = cpu[c].source + cpu[c].pageSize
  OBVIOUS
<1>3. s \in Nat
  BY <1>1, <1>2, SizeAssumption DEF States
<1> DEFINE u == [cpu[c] EXCEPT !.pc = "unwind", !.frame = 0, !.source = s]
<1>4. u \in States
  BY <1>1, <1>3 DEF States
<1>5. /\ u.pc = "unwind" /\ u.source = s
      /\ u.base = cpu[c].base /\ u.dest = cpu[c].dest /\ u.at = cpu[c].at
      /\ u.pageSize = cpu[c].pageSize
  BY <1>1 DEF States
<1>6. cpu' = [cpu EXCEPT ![c] = u]
  BY <1>2 DEF FreePage, HeapType
<1> HIDE DEF u
<1> QED
  BY <1>2, <1>4, <1>5, <1>6

-----------------------------------------------------------------------------
(* The heap: the inductive invariant.                                      *)

\* A CPU that builds a segment holds all of its pages.  One that takes it down again
\* holds those from Low up to dest: FreeAndUnmap has given back the ones before, and
\* the reservation of the others is forgotten, so that another CPU may have either.
Working == {"page", "map", "link", "unwind", "release"}

Low(u) ==
    CASE u.pc = "unwind"  -> u.source
      [] u.pc = "release" -> u.source + Page
      [] OTHER            -> u.base

Live(u) ==
    {p \in Pages(u.base, BigPage) :
        /\ u.pc \in Working
        /\ p >= Low(u)
        /\ u.pc \in {"unwind", "release"} => p < u.dest}

\* How far a CPU has got: the pages it holds are mapped up to dest and reserved
\* from there on.  A large page fails before anything is mapped, so that only
\* small pages are ever taken down.
ProgressInv(u) ==
    /\ u.pc \in Working => Pages(u.base, BigPage) \subseteq Addresses
    /\ u.pc = "link" => u.dest = u.base + BigPage
    /\ u.pc \in Working \ {"link"} =>
          /\ u.dest \in Pages(u.base, BigPage)
          /\ u.pageSize = BigPage => u.dest = u.base
    /\ u.pc \in {"unwind", "release"} =>
          /\ u.source \in Pages(u.base, BigPage)
          /\ u.source <= u.dest
          /\ u.pc = "release" => u.source < u.dest

LiveInv(u) ==
    \A p \in Live(u) :
        /\ vmap[p].size = u.pageSize
        /\ vmap[p].use = IF p < u.dest THEN "mapped" ELSE "reserved"

MemoryInv ==
    /\ \A c \in Cpus : ProgressInv(cpu[c]) /\ LiveInv(cpu[c])
    /\ \A c, d \in Cpus : c # d => Live(cpu[c]) \intersect Live(cpu[d]) = {}
    /\ \A i \in DOMAIN segments :
          /\ \A p \in Pages(segments[i], BigPage) :
                /\ p \in Addresses
                /\ vmap[p].use = "mapped"
                /\ \A c \in Cpus : p \notin Live(cpu[c])
          /\ \A j \in DOMAIN segments \ {i} :
                Pages(segments[i], BigPage) \intersect Pages(segments[j], BigPage) = {}
    /\ \A a \in Addresses :
          vmap[a].use = "mapped" =>
              \/ \E i \in DOMAIN segments : a \in Pages(segments[i], BigPage)
              \/ \E c \in Cpus : a \in Live(cpu[c])

\* The position in the list of segments is that of a segment, or the end.
BlockInv ==
    /\ \A c \in Cpus : cpu[c].at <= Len(segments)
    /\ \A b \in blocks :
          /\ CellsOf(b) \subseteq HeaderCells .. (Cells - 1)
          /\ b.segment \in ToSet(segments)
          /\ \A o \in blocks \ {b} :
                o.segment = b.segment => CellsOf(o) \intersect CellsOf(b) = {}

LEMMA CpuAfter ==
    ASSUME HeapType, NEW c \in Cpus, NEW u \in States, cpu' = [cpu EXCEPT ![c] = u]
    PROVE  /\ cpu' \in [Cpus -> States]
           /\ cpu'[c] = u
           /\ \A d \in Cpus \ {c} : cpu'[d] = cpu[d]
  BY DEF HeapType

LEMMA LiveIn ==
    ASSUME NEW u, NEW p \in Live(u)
    PROVE  p \in Pages(u.base, BigPage) /\ u.pc \in Working
  BY DEF Live

\* What a CPU has reserved and will map, it holds, and has not mapped.
LEMMA PendingIsLive ==
    ASSUME HeapType, MemoryInv, NEW c \in Cpus
    PROVE  /\ Pending(c) \subseteq Live(cpu[c])
           /\ \A p \in Pending(c) : vmap[p].use # "mapped"
<1> SUFFICES ASSUME NEW p \in Pending(c)
             PROVE  p \in Live(cpu[c]) /\ vmap[p].use # "mapped"
  OBVIOUS
<1>1. /\ cpu[c].pc \in {"page", "map"}
      /\ p \in Pages(cpu[c].base, BigPage) /\ p >= cpu[c].dest
  BY DEF Pending
<1>2. cpu[c].base \in Nat /\ cpu[c].dest \in Nat
  BY DEF HeapType, States
<1>3. p \in Nat /\ p >= cpu[c].base
  BY <1>1, <1>2, PageOrder
<1>4. p \in Live(cpu[c])
  BY <1>1, <1>3 DEF Live, Low, Working
<1>5. ~(p < cpu[c].dest)
  BY <1>1, <1>2, <1>3
<1> QED
  BY <1>4, <1>5 DEF MemoryInv, LiveInv

\* A step of one CPU keeps the invariant when it leaves alone what other CPUs hold
\* and what is linked, and when it still holds whatever it leaves mapped.
LEMMA MemoryKept ==
    ASSUME HeapType, MemoryInv, NEW c \in Cpus, NEW u \in States,
           cpu' = [cpu EXCEPT ![c] = u], segments' = segments,
           ProgressInv(u), LiveInv(u)',
           \A d \in Cpus \ {c} : \A p \in Live(cpu[d]) : p \notin Live(u) /\ vmap'[p] = vmap[p],
           \A i \in DOMAIN segments : \A p \in Pages(segments[i], BigPage) :
               p \notin Live(u) /\ vmap'[p] = vmap[p],
           \A a \in Addresses : vmap'[a].use = "mapped" =>
               a \in Live(u) \/ (vmap[a].use = "mapped" /\ a \notin Live(cpu[c]))
    PROVE  MemoryInv'
<1>1. cpu'[c] = u /\ \A d \in Cpus \ {c} : cpu'[d] = cpu[d]
  BY CpuAfter
<1>2. ASSUME NEW d \in Cpus
      PROVE  (ProgressInv(cpu[d]) /\ LiveInv(cpu[d]))'
  <2>1. CASE d = c
    <3>1. ProgressInv(cpu[d])'
      BY <1>1, <2>1 DEF ProgressInv
    <3>2. LiveInv(cpu[d])'
      BY <1>1, <2>1 DEF LiveInv, Live, Low
    <3> QED
      BY <3>1, <3>2
  <2>2. CASE d # c
    <3>1. ProgressInv(cpu[d]) /\ LiveInv(cpu[d])
      BY DEF MemoryInv
    <3>2. cpu'[d] = cpu[d]
      BY <1>1, <2>2
    <3>3. Live(cpu[d])' = Live(cpu[d])
      BY <3>2 DEF Live, Low
    <3>4. \A p \in Live(cpu[d]) : vmap'[p] = vmap[p]
      BY <2>2
    <3>5. ProgressInv(cpu[d])'
      BY <3>1, <3>2 DEF ProgressInv
    <3>6. LiveInv(cpu[d])'
      BY <3>1, <3>2, <3>3, <3>4 DEF LiveInv
    <3> QED
      BY <3>5, <3>6
  <2> QED
    BY <2>1, <2>2
<1>3. \A d \in Cpus : Live(cpu[d])' = IF d = c THEN Live(u) ELSE Live(cpu[d])
  BY <1>1 DEF Live, Low
<1>4. ASSUME NEW d \in Cpus, NEW e \in Cpus, d # e
      PROVE  (Live(cpu[d]) \intersect Live(cpu[e]))' = {}
  BY <1>3, <1>4 DEF MemoryInv
<1>5. ASSUME NEW i \in DOMAIN segments, NEW p \in Pages(segments[i], BigPage)
      PROVE  p \in Addresses /\ vmap'[p].use = "mapped"
             /\ \A d \in Cpus : p \notin Live(cpu[d])'
  BY <1>3 DEF MemoryInv
<1>6. ASSUME NEW i \in DOMAIN segments, NEW j \in DOMAIN segments \ {i}
      PROVE  Pages(segments[i], BigPage) \intersect Pages(segments[j], BigPage) = {}
  BY DEF MemoryInv
<1>7. ASSUME NEW a \in Addresses, vmap'[a].use = "mapped"
      PROVE  \/ \E i \in DOMAIN segments : a \in Pages(segments[i], BigPage)
             \/ \E d \in Cpus : a \in Live(cpu[d])'
  <2>1. CASE a \in Live(u)
    BY <1>3, <2>1
  <2>2. CASE vmap[a].use = "mapped" /\ a \notin Live(cpu[c])
    <3>1. \/ \E i \in DOMAIN segments : a \in Pages(segments[i], BigPage)
          \/ \E d \in Cpus : a \in Live(cpu[d])
      BY <2>2 DEF MemoryInv
    <3> QED
      BY <1>3, <2>2, <3>1
  <2> QED
    BY <1>7, <2>1, <2>2
<1>8. \A i \in DOMAIN segments : Pages(segments[i], BigPage)' = Pages(segments[i], BigPage)
  BY DEF Pages
<1> QED
  BY <1>2, <1>4, <1>5, <1>6, <1>7, <1>8 DEF MemoryInv

\* The step changes the map nowhere, and the CPU holds on to all that is mapped.
LEMMA MemoryAlone ==
    ASSUME HeapType, MemoryInv, NEW c \in Cpus, NEW u \in States,
           cpu' = [cpu EXCEPT ![c] = u], segments' = segments, vmap' = vmap,
           ProgressInv(u), LiveInv(u),
           Live(u) \subseteq Live(cpu[c]),
           \A p \in Live(cpu[c]) \ Live(u) : vmap[p].use # "mapped"
    PROVE  MemoryInv'
<1>1. LiveInv(u)'
  BY DEF LiveInv
<1>2. \A d \in Cpus \ {c} : \A p \in Live(cpu[d]) : p \notin Live(u) /\ vmap'[p] = vmap[p]
  BY DEF MemoryInv
<1>3. \A i \in DOMAIN segments : \A p \in Pages(segments[i], BigPage) :
          p \notin Live(u) /\ vmap'[p] = vmap[p]
  BY DEF MemoryInv
<1>4. \A a \in Addresses : vmap'[a].use = "mapped" =>
          a \in Live(u) \/ (vmap[a].use = "mapped" /\ a \notin Live(cpu[c]))
  OBVIOUS
<1> QED
  BY <1>1, <1>2, <1>3, <1>4, MemoryKept

\* A CPU that holds no pages, before and after the step.
LEMMA MemoryIdle ==
    ASSUME HeapType, MemoryInv, NEW c \in Cpus, NEW u \in States,
           cpu' = [cpu EXCEPT ![c] = u], segments' = segments, vmap' = vmap,
           cpu[c].pc \notin Working, u.pc \notin Working
    PROVE  MemoryInv'
<1>1. Live(u) = {} /\ Live(cpu[c]) = {}
  BY DEF Live
<1>2. ProgressInv(u) /\ LiveInv(u)
  BY <1>1 DEF ProgressInv, LiveInv, Working
<1> QED
  BY <1>1, <1>2, MemoryAlone

-----------------------------------------------------------------------------
(* The steps that change the map or what a CPU holds.                      *)

LEMMA ReserveMemory ==
    ASSUME HeapType, MemoryInv, NEW c \in Cpus, ReserveSegment(c), ~twice'
    PROVE  MemoryInv'
<1>1. segments' = segments /\ cpu[c].pc = "reserve"
  BY DEF ReserveSegment, At
<1>2. PICK u \in States :
         /\ cpu' = [cpu EXCEPT ![c] = u]
         /\ \/ u.pc \in {"idle", "reserve"} /\ vmap' = vmap
            \/ /\ u.pc = "page" /\ u.dest = u.base
               /\ u.base \in Reservable(u.pageSize)
               /\ vmap' = Changed(Pages(u.base, BigPage), Held(u.pageSize))
               /\ \A d \in Cpus \ {c} : Pending(d) \intersect Pages(u.base, BigPage) = {}
  BY ReserveMoves
<1>3. Live(cpu[c]) = {}
  BY <1>1 DEF Live, Working
<1>4. CASE u.pc \in {"idle", "reserve"} /\ vmap' = vmap
  BY <1>1, <1>2, <1>4, MemoryIdle DEF Working
<1>5. CASE /\ u.pc = "page" /\ u.dest = u.base
           /\ u.base \in Reservable(u.pageSize)
           /\ vmap' = Changed(Pages(u.base, BigPage), Held(u.pageSize))
           /\ \A d \in Cpus \ {c} : Pending(d) \intersect Pages(u.base, BigPage) = {}
  <2> DEFINE pages == Pages(u.base, BigPage)
  <2>1. u.base \in Nat
    BY DEF States
  <2>2. pages \subseteq Addresses /\ \A p \in pages : IsFree(p)
    BY <1>5 DEF Reservable
  <2>3. \A p \in pages : p \in Nat /\ p >= u.base
    BY <2>1, PageOrder
  <2>4. Live(u) = pages
    BY <1>5, <2>3 DEF Live, Low, Working
  <2>5. \A a \in Addresses : vmap'[a] = IF a \in pages THEN Held(u.pageSize) ELSE vmap[a]
    BY <1>5 DEF Changed
  <2>6. ProgressInv(u)
    BY <1>5, <2>1, <2>2, PageOrder DEF ProgressInv, Working
  <2>7. LiveInv(u)'
    <3>1. \A p \in pages : vmap'[p] = Held(u.pageSize) /\ ~(p < u.dest)
      BY <1>5, <2>1, <2>2, <2>3, <2>5
    <3> QED
      BY <2>4, <3>1 DEF LiveInv, Held
  <2>8. \A p \in pages : vmap[p].use # "mapped"
    BY <2>2 DEF IsFree, Held
  <2>9. ASSUME NEW d \in Cpus \ {c}, NEW p \in Live(cpu[d])
        PROVE  p \notin Live(u) /\ vmap'[p] = vmap[p]
    <3>1. p \in Addresses /\ p \in Pages(cpu[d].base, BigPage) /\ cpu[d].pc \in Working
      BY LiveIn DEF MemoryInv, ProgressInv
    <3>2. cpu[d].base \in Nat /\ cpu[d].dest \in Nat
      BY DEF HeapType, States
    <3>3. p \in Nat /\ p < cpu[d].base + BigPage
      <4>1. p \in Nat /\ p + Page <= cpu[d].base + BigPage
        BY <3>1, <3>2, PageOrder
      <4> QED
        BY <3>2, <4>1, SizeAssumption
    <3>4. ProgressInv(cpu[d]) /\ LiveInv(cpu[d])
      BY DEF MemoryInv
    <3>5. CASE p < cpu[d].dest
      <4>1. vmap[p].use = "mapped"
        BY <3>4, <3>5 DEF LiveInv
      <4> QED
        BY <2>4, <2>5, <2>8, <3>1, <4>1
    <3>6. CASE ~(p < cpu[d].dest)
      <4>1. cpu[d].pc # "link"
        BY <3>3, <3>4, <3>6 DEF ProgressInv
      <4>2. cpu[d].pc \notin {"unwind", "release"}
        BY <3>6 DEF Live
      <4>3. cpu[d].pc \in {"page", "map"} /\ p >= cpu[d].dest
        BY <3>1, <3>2, <3>3, <3>6, <4>1, <4>2 DEF Working
      <4>4. p \in Pending(d)
        BY <3>1, <4>3 DEF Pending
      <4> QED
        BY <1>5, <2>4, <2>5, <3>1, <4>4
    <3> QED
      BY <3>5, <3>6
  <2>10. ASSUME NEW i \in DOMAIN segments, NEW p \in Pages(segments[i], BigPage)
         PROVE  p \notin Live(u) /\ vmap'[p] = vmap[p]
    <3>1. p \in Addresses /\ vmap[p].use = "mapped"
      BY DEF MemoryInv
    <3> QED
      BY <2>4, <2>5, <2>8, <3>1
  <2>11. \A a \in Addresses : vmap'[a].use = "mapped" =>
             a \in Live(u) \/ (vmap[a].use = "mapped" /\ a \notin Live(cpu[c]))
    BY <1>3, <2>4, <2>5
  <2> HIDE DEF pages
  <2> QED
    BY <1>1, <1>2, <2>6, <2>7, <2>9, <2>10, <2>11, MemoryKept
<1> QED
  BY <1>2, <1>4, <1>5

LEMMA AllocPageMemory ==
    ASSUME HeapType, BuddyInv, MemoryInv, NEW c \in Cpus, AllocPage(c)
    PROVE  MemoryInv'
<1>1. segments' = segments /\ vmap' = vmap /\ cpu[c].pc = "page" /\ cpu[c] \in States
  BY DEF AllocPage, At, HeapType
<1>2. PICK u \in States :
         /\ cpu' = [cpu EXCEPT ![c] = u]
         /\ u.pc = "map" \/ (u.pc = "unwind" /\ u.source = u.base)
         /\ u.base = cpu[c].base /\ u.dest = cpu[c].dest
         /\ u.pageSize = cpu[c].pageSize
  BY AllocPageMoves
<1>3. u.base \in Nat
  BY DEF States
<1>4. Low(u) = u.base /\ Low(cpu[c]) = u.base
  BY <1>1, <1>2 DEF Low
<1>5. /\ Live(u) \subseteq Live(cpu[c])
      /\ \A p \in Live(cpu[c]) \ Live(u) : ~(p < cpu[c].dest)
  BY <1>1, <1>2, <1>4 DEF Live, Working
<1>6. ProgressInv(cpu[c]) /\ LiveInv(cpu[c])
  BY DEF MemoryInv
<1>7. LiveInv(u) /\ \A p \in Live(cpu[c]) \ Live(u) : vmap[p].use # "mapped"
  BY <1>2, <1>5, <1>6 DEF LiveInv
<1>8. ProgressInv(u)
  <2>1. /\ Pages(u.base, BigPage) \subseteq Addresses
        /\ u.dest \in Pages(u.base, BigPage)
        /\ u.pageSize = BigPage => u.dest = u.base
    BY <1>1, <1>2, <1>6 DEF ProgressInv, Working
  <2>2. u.base \in Pages(u.base, BigPage) /\ u.base <= u.dest
    BY <1>3, <2>1, PageOrder
  <2> QED
    BY <1>2, <2>1, <2>2 DEF ProgressInv
<1> QED
  BY <1>1, <1>2, <1>5, <1>7, <1>8, MemoryAlone

LEMMA MapPageMemory ==
    ASSUME HeapType, MemoryInv, NEW c \in Cpus, MapPage(c)
    PROVE  MemoryInv'
<1> DEFINE old == cpu[c]
<1>1. segments' = segments /\ old.pc = "map" /\ old \in States
  BY DEF MapPage, At, HeapType
<1>2. PICK u \in States :
         /\ cpu' = [cpu EXCEPT ![c] = u]
         /\ u.dest = old.dest + old.pageSize
         /\ u.pc = IF u.dest = u.base + BigPage THEN "link" ELSE "page"
         /\ u.base = old.base /\ u.pageSize = old.pageSize
         /\ vmap' = Changed(Pages(old.dest, u.pageSize), Mapped(u.pageSize, old.frame))
  BY MapPageMoves
<1> DEFINE all == Pages(u.base, BigPage)
           new == Pages(old.dest, u.pageSize)
<1>3. u.base \in Nat /\ old.dest \in Nat /\ u.pageSize \in {Page, BigPage}
      /\ Page \in Nat \ {0} /\ BigPage \in Nat
  BY <1>1, SizeAssumption DEF States
<1>4. ProgressInv(old) /\ LiveInv(old)
  BY DEF MemoryInv
<1>5. /\ all \subseteq Addresses
      /\ old.dest \in all
      /\ u.pageSize = BigPage => old.dest = u.base
  BY <1>1, <1>2, <1>4 DEF ProgressInv, Working
<1>6. \A p \in all : p \in Nat /\ u.base <= p /\ p < u.base + BigPage
  BY <1>3, PageOrder
<1>7. Live(u) = all /\ Live(old) = all
  BY <1>1, <1>2, <1>6 DEF Live, Low, Working
<1>8. /\ new \subseteq all
      /\ \A p \in all : p \in new <=> (old.dest <= p /\ p < u.dest)
  <2>1. CASE u.pageSize = BigPage
    BY <1>2, <1>5, <1>6, <2>1
  <2>2. CASE u.pageSize = Page
    <3>1. new = {old.dest}
      BY <1>3, <2>2, OnePage
    <3>2. \A p \in all : p <= old.dest \/ old.dest + Page <= p
      BY <1>3, <1>5, PageOrder
    <3> QED
      BY <1>2, <1>3, <1>5, <1>6, <2>2, <3>1, <3>2
  <2> QED
    BY <1>3, <2>1, <2>2
<1>9. \A a \in Addresses : vmap'[a] = IF a \in new THEN Mapped(u.pageSize, old.frame) ELSE vmap[a]
  BY <1>2 DEF Changed
<1>10. \A p \in all : /\ vmap[p].size = u.pageSize
                      /\ vmap[p].use = IF p < old.dest THEN "mapped" ELSE "reserved"
  BY <1>2, <1>4, <1>7 DEF LiveInv
<1>11. ProgressInv(u)
  <2>1. CASE u.dest = u.base + BigPage
    BY <1>2, <1>5, <2>1 DEF ProgressInv
  <2>2. CASE u.dest # u.base + BigPage
    <3>1. u.pageSize = Page /\ u.pageSize # BigPage
      BY <1>2, <1>3, <1>5, <2>2
    <3>2. u.dest \in all
      BY <1>2, <1>3, <1>5, <2>2, <3>1, PageOrder
    <3> QED
      BY <1>2, <1>5, <2>2, <3>1, <3>2 DEF ProgressInv
  <2> QED
    BY <2>1, <2>2
<1>12. LiveInv(u)'
  <2> SUFFICES ASSUME NEW p \in all
               PROVE  /\ vmap'[p].size = u.pageSize
                      /\ vmap'[p].use = IF p < u.dest THEN "mapped" ELSE "reserved"
    BY <1>7 DEF LiveInv
  <2>1. p \in Addresses /\ p \in Nat
    BY <1>5, <1>6
  <2>2. u.dest \in Nat /\ old.dest <= u.dest
    BY <1>2, <1>3
  <2>3. CASE p \in new
    <3>1. vmap'[p] = Mapped(u.pageSize, old.frame) /\ p < u.dest
      BY <1>8, <1>9, <2>1, <2>3
    <3> QED
      BY <3>1 DEF Mapped
  <2>4. CASE p \notin new
    <3>1. vmap'[p] = vmap[p]
      BY <1>9, <2>1, <2>4
    <3>2. p < old.dest <=> p < u.dest
      BY <1>3, <1>8, <2>1, <2>2, <2>4
    <3> QED
      BY <1>10, <3>1, <3>2
  <2> QED
    BY <2>3, <2>4
<1> HIDE DEF all, new
<1>13. ASSUME NEW d \in Cpus \ {c}, NEW p \in Live(cpu[d])
       PROVE  p \notin Live(u) /\ vmap'[p] = vmap[p]
  <2>1. p \in Addresses
    BY LiveIn DEF MemoryInv, ProgressInv
  <2>2. p \notin all
    BY <1>7 DEF MemoryInv
  <2> QED
    BY <1>7, <1>8, <1>9, <2>1, <2>2
<1>14. ASSUME NEW i \in DOMAIN segments, NEW p \in Pages(segments[i], BigPage)
       PROVE  p \notin Live(u) /\ vmap'[p] = vmap[p]
  <2>1. p \in Addresses /\ p \notin all
    BY <1>7 DEF MemoryInv
  <2> QED
    BY <1>7, <1>8, <1>9, <2>1
<1>15. \A a \in Addresses : vmap'[a].use = "mapped" =>
           a \in Live(u) \/ (vmap[a].use = "mapped" /\ a \notin Live(old))
  BY <1>7, <1>8, <1>9
<1> QED
  BY <1>1, <1>2, <1>11, <1>12, <1>13, <1>14, <1>15, MemoryKept

\* Only small pages are taken down, as a large one fails before it is mapped.
LEMMA SmallPages ==
    ASSUME NEW u \in States, ProgressInv(u), u.pc \in {"unwind", "release"}, u.source # u.dest
    PROVE  u.pageSize = Page /\ u.source < u.dest
<1>1. /\ u.source \in Pages(u.base, BigPage) /\ u.dest \in Pages(u.base, BigPage)
      /\ u.source <= u.dest
      /\ u.pageSize = BigPage => u.dest = u.base
  BY DEF ProgressInv, Working
<1>2. u.base \in Nat /\ u.pageSize \in {Page, BigPage}
  BY DEF States
<1>3. u.source \in Nat /\ u.dest \in Nat /\ u.base <= u.source
  BY <1>1, <1>2, PageOrder
<1> QED
  BY <1>1, <1>2, <1>3

LEMMA UnmapPageMemory ==
    ASSUME HeapType, MemoryInv, NEW c \in Cpus, UnmapPage(c)
    PROVE  MemoryInv'
<1> DEFINE old == cpu[c]
           all == Pages(old.base, BigPage)
<1>1. segments' = segments /\ old.pc = "unwind" /\ old \in States
  BY DEF UnmapPage, At, HeapType
<1>2. ProgressInv(old) /\ LiveInv(old)
  BY DEF MemoryInv
<1>3. /\ all \subseteq Addresses
      /\ old.dest \in all
      /\ old.source \in all /\ old.source <= old.dest
      /\ old.pageSize = BigPage => old.dest = old.base
  BY <1>1, <1>2 DEF ProgressInv, Working
<1>4. PICK u \in States :
         /\ cpu' = [cpu EXCEPT ![c] = u]
         /\ \/ /\ old.source = old.dest
               /\ u.pc \in {"idle", "reserve"}
               /\ vmap' = vmap
            \/ /\ old.source # old.dest
               /\ u.pc = "release" /\ u.base = old.base /\ u.dest = old.dest
               /\ u.source = old.source /\ u.pageSize = old.pageSize
               /\ vmap' = Changed(Pages(u.source, vmap[u.source].size), Unmapped)
  BY <1>3, UnmapPageMoves
<1>5. old.base \in Nat /\ Page \in Nat \ {0}
  BY <1>1, SizeAssumption DEF States
<1>6. \A p \in all : p \in Nat
  BY <1>5, PageOrder
<1>7. Live(old) = {p \in all : p >= old.source /\ p < old.dest}
  BY <1>1 DEF Live, Low, Working
<1>8. \A p \in Live(old) : /\ vmap[p].size = old.pageSize
                           /\ vmap[p].use = IF p < old.dest THEN "mapped" ELSE "reserved"
  BY <1>2 DEF LiveInv
<1>9. CASE /\ old.source = old.dest
           /\ u.pc \in {"idle", "reserve"}
           /\ vmap' = vmap
  <2>1. Live(u) = {}
    BY <1>9 DEF Live, Working
  <2>2. ProgressInv(u) /\ LiveInv(u)
    BY <1>9, <2>1 DEF ProgressInv, LiveInv, Working
  <2>3. \A p \in Live(old) : vmap[p].use # "mapped"
    BY <1>3, <1>6, <1>7, <1>8, <1>9
  <2> QED
    BY <1>1, <1>4, <1>9, <2>1, <2>2, <2>3, MemoryAlone
<1>10. CASE /\ old.source # old.dest
            /\ u.pc = "release" /\ u.base = old.base /\ u.dest = old.dest
            /\ u.source = old.source /\ u.pageSize = old.pageSize
            /\ vmap' = Changed(Pages(u.source, vmap[u.source].size), Unmapped)
  <2>1. old.pageSize = Page /\ old.source < old.dest
    BY <1>1, <1>2, <1>10, SmallPages
  <2>2. old.source \in Live(old)
    BY <1>3, <1>6, <1>7, <2>1
  <2>3. Pages(u.source, vmap[u.source].size) = {old.source}
    BY <1>3, <1>6, <1>8, <1>10, <2>1, <2>2, OnePage
  <2>4. \A a \in Addresses : vmap'[a] = IF a = old.source THEN Unmapped ELSE vmap[a]
    BY <1>10, <2>3 DEF Changed
  <2>5. \A p \in all : p <= old.source \/ old.source + Page <= p
    BY <1>3, <1>5, PageOrder
  <2>6. Live(u) = {p \in all : p >= old.source + Page /\ p < old.dest}
    BY <1>10 DEF Live, Low, Working
  <2>7. Live(u) = Live(old) \ {old.source}
    BY <1>3, <1>5, <1>6, <1>7, <2>5, <2>6
  <2>8. ProgressInv(u)
    BY <1>3, <1>10, <2>1 DEF ProgressInv
  <2>9. LiveInv(u)'
    <3> SUFFICES ASSUME NEW p \in Live(u)
                 PROVE  /\ vmap'[p].size = u.pageSize
                        /\ vmap'[p].use = IF p < u.dest THEN "mapped" ELSE "reserved"
      BY DEF LiveInv
    <3>1. p \in Live(old) /\ p # old.source /\ p \in Addresses
      BY <1>3, <1>7, <2>7
    <3>2. vmap'[p] = vmap[p]
      BY <2>4, <3>1
    <3> QED
      BY <1>8, <1>10, <3>1, <3>2
  <2> HIDE DEF all
  <2>10. ASSUME NEW d \in Cpus \ {c}, NEW p \in Live(cpu[d])
         PROVE  p \notin Live(u) /\ vmap'[p] = vmap[p]
    <3>1. p \in Addresses
      BY LiveIn DEF MemoryInv, ProgressInv
    <3>2. p \notin Live(old)
      BY DEF MemoryInv
    <3> QED
      BY <2>2, <2>4, <2>7, <3>1, <3>2
  <2>11. ASSUME NEW i \in DOMAIN segments, NEW p \in Pages(segments[i], BigPage)
         PROVE  p \notin Live(u) /\ vmap'[p] = vmap[p]
    <3>1. p \in Addresses /\ p \notin Live(old)
      BY DEF MemoryInv
    <3> QED
      BY <2>2, <2>4, <2>7, <3>1
  <2>12. \A a \in Addresses : vmap'[a].use = "mapped" =>
             a \in Live(u) \/ (vmap[a].use = "mapped" /\ a \notin Live(old))
    <3>1. Unmapped.use # "mapped"
      BY DEF Unmapped
    <3> QED
      BY <2>4, <2>7, <3>1
  <2> QED
    BY <1>1, <1>4, <2>8, <2>9, <2>10, <2>11, <2>12, MemoryKept
<1> QED
  BY <1>4, <1>9, <1>10

LEMMA FreePageMemory ==
    ASSUME HeapType, MemoryInv, NEW c \in Cpus, FreePage(c)
    PROVE  MemoryInv'
<1> DEFINE old == cpu[c]
           all == Pages(old.base, BigPage)
<1>1. segments' = segments /\ vmap' = vmap /\ old.pc = "release" /\ old \in States
  BY DEF FreePage, At, HeapType
<1>2. ProgressInv(old) /\ LiveInv(old)
  BY DEF MemoryInv
<1>3. /\ all \subseteq Addresses
      /\ old.dest \in all
      /\ old.source \in all /\ old.source < old.dest
      /\ old.pageSize = BigPage => old.dest = old.base
  BY <1>1, <1>2 DEF ProgressInv, Working
<1>4. PICK u \in States :
         /\ cpu' = [cpu EXCEPT ![c] = u]
         /\ u.pc = "unwind" /\ u.source = old.source + old.pageSize
         /\ u.base = old.base /\ u.dest = old.dest
         /\ u.pageSize = old.pageSize
  BY FreePageMoves
<1>5. old.base \in Nat /\ Page \in Nat \ {0}
  BY <1>1, SizeAssumption DEF States
<1>6. \A p \in all : p \in Nat /\ p + Page <= old.base + BigPage
  BY <1>5, PageOrder
<1>7. old.source # old.dest
  BY <1>3, <1>6
<1>8. old.pageSize = Page
  BY <1>1, <1>2, <1>7, SmallPages
<1>9. Live(u) = Live(old)
  BY <1>1, <1>4, <1>8 DEF Live, Low, Working
<1>10. LiveInv(u)
  BY <1>2, <1>4, <1>9 DEF LiveInv
<1>11. u.source \in all /\ u.source <= u.dest
  <2>1. old.source + Page <= old.dest
    BY <1>3, <1>5, <1>6, PageOrder
  <2>2. old.source + Page \in all \/ old.source + Page = old.base + BigPage
    BY <1>3, <1>5, PageOrder
  <2>3. old.dest + Page <= old.base + BigPage
    BY <1>3, <1>6
  <2> QED
    BY <1>3, <1>4, <1>5, <1>6, <1>8, <2>1, <2>2, <2>3
<1>12. ProgressInv(u)
  BY <1>3, <1>4, <1>11 DEF ProgressInv
<1> QED
  BY <1>1, <1>4, <1>9, <1>10, <1>12, MemoryAlone

\* The CPU hands its pages, all of them mapped, over to the list.
LEMMA CreateMemory ==
    ASSUME HeapType, MemoryInv, NEW c \in Cpus, CreateSegment(c)
    PROVE  MemoryInv'
<1> DEFINE old == cpu[c]
           all == Pages(old.base, BigPage)
<1>0. PICK n \in Nat : n = Len(segments)
  BY DEF HeapType
<1>1. /\ segments' = Append(segments, old.base) /\ vmap' = vmap
      /\ old.pc = "link" /\ old \in States
  BY DEF CreateSegment, Linked, At, HeapType
<1>2. PICK u \in States : cpu' = [cpu EXCEPT ![c] = u] /\ u.pc = "search"
  BY CreateMoves
<1>3. ProgressInv(old) /\ LiveInv(old)
  BY DEF MemoryInv
<1>4. all \subseteq Addresses /\ old.dest = old.base + BigPage
  BY <1>1, <1>3 DEF ProgressInv, Working
<1>5. old.base \in Nat /\ Page \in Nat \ {0} /\ BigPage \in Nat
  BY <1>1, SizeAssumption DEF States
<1>6. \A p \in all : p \in Nat /\ old.base <= p /\ p + Page <= old.base + BigPage
  BY <1>5, PageOrder
<1>7. Live(old) = all
  BY <1>1, <1>6 DEF Live, Low, Working
<1>8. \A p \in all : vmap[p].use = "mapped"
  BY <1>3, <1>4, <1>5, <1>6, <1>7 DEF LiveInv
<1>9. cpu'[c] = u /\ \A d \in Cpus \ {c} : cpu'[d] = cpu[d]
  BY <1>2, CpuAfter
<1>10. \A d \in Cpus : Live(cpu[d])' = IF d = c THEN {} ELSE Live(cpu[d])
  BY <1>2, <1>9 DEF Live, Low, Working
<1>11. /\ DOMAIN segments' = DOMAIN segments \union {n + 1}
       /\ n + 1 \notin DOMAIN segments
       /\ segments'[n + 1] = old.base
       /\ \A i \in DOMAIN segments : segments'[i] = segments[i]
  BY <1>0, <1>1, <1>5 DEF HeapType
<1>12. /\ Pages(segments[n + 1], BigPage)' = all
       /\ \A i \in DOMAIN segments : Pages(segments[i], BigPage)' = Pages(segments[i], BigPage)
  BY <1>11 DEF Pages
<1>13. ASSUME NEW d \in Cpus
       PROVE  (ProgressInv(cpu[d]) /\ LiveInv(cpu[d]))'
  <2>1. CASE d = c
    <3>1. ProgressInv(u)
      BY <1>2 DEF ProgressInv, Working
    <3>2. ProgressInv(cpu[d])'
      BY <1>9, <2>1, <3>1 DEF ProgressInv
    <3>3. LiveInv(cpu[d])'
      BY <1>10, <2>1 DEF LiveInv
    <3> QED
      BY <3>2, <3>3
  <2>2. CASE d # c
    <3>1. ProgressInv(cpu[d]) /\ LiveInv(cpu[d]) /\ cpu'[d] = cpu[d]
      BY <1>9, <2>2 DEF MemoryInv
    <3>2. ProgressInv(cpu[d])'
      BY <3>1 DEF ProgressInv
    <3>3. LiveInv(cpu[d])'
      BY <1>1, <1>10, <2>2, <3>1 DEF LiveInv
    <3> QED
      BY <3>2, <3>3
  <2> QED
    BY <2>1, <2>2
<1> HIDE DEF all
<1>14. ASSUME NEW d \in Cpus, NEW e \in Cpus, d # e
       PROVE  (Live(cpu[d]) \intersect Live(cpu[e]))' = {}
  BY <1>10, <1>14 DEF MemoryInv
<1>15. ASSUME NEW i \in DOMAIN segments', NEW p \in Pages(segments[i], BigPage)'
       PROVE  p \in Addresses /\ vmap'[p].use = "mapped" /\ \A d \in Cpus : p \notin Live(cpu[d])'
  <2>1. CASE i = n + 1
    <3>1. p \in all
      BY <1>12, <2>1
    <3>2. \A d \in Cpus \ {c} : p \notin Live(cpu[d])
      BY <1>7, <3>1 DEF MemoryInv
    <3> QED
      BY <1>1, <1>4, <1>8, <1>10, <3>1, <3>2
  <2>2. CASE i \in DOMAIN segments
    <3>1. p \in Pages(segments[i], BigPage)
      BY <1>12, <2>2
    <3> QED
      BY <1>1, <1>10, <2>2, <3>1 DEF MemoryInv
  <2> QED
    BY <1>11, <2>1, <2>2
<1>16. ASSUME NEW i \in DOMAIN segments', NEW j \in DOMAIN segments' \ {i}
       PROVE  (Pages(segments[i], BigPage) \intersect Pages(segments[j], BigPage))' = {}
  <2>1. \A k \in DOMAIN segments : Pages(segments[k], BigPage) \intersect all = {}
    BY <1>7 DEF MemoryInv
  <2>2. \A k, m \in DOMAIN segments : k # m =>
            Pages(segments[k], BigPage) \intersect Pages(segments[m], BigPage) = {}
    BY DEF MemoryInv
  <2> QED
    BY <1>11, <1>12, <2>1, <2>2
<1>17. ASSUME NEW a \in Addresses, vmap'[a].use = "mapped"
       PROVE  \/ \E i \in DOMAIN segments' : a \in Pages(segments[i], BigPage)'
              \/ \E d \in Cpus : a \in Live(cpu[d])'
  <2>1. \/ \E i \in DOMAIN segments : a \in Pages(segments[i], BigPage)
        \/ \E d \in Cpus : a \in Live(cpu[d])
    BY <1>1, <1>17 DEF MemoryInv
  <2> QED
    BY <1>7, <1>10, <1>11, <1>12, <2>1
<1> QED
  BY <1>13, <1>14, <1>15, <1>16, <1>17 DEF MemoryInv

-----------------------------------------------------------------------------
(* Every step keeps the invariant.                                         *)

Inv == ListsInv /\ BuddyInv /\ HeapType /\ BlockInv /\ (~twice => MemoryInv)

LEMMA InvInit == Init => Inv
<1> SUFFICES ASSUME Init PROVE Inv
  OBVIOUS
<1>1. ListsInv /\ HeapType
  BY ListsInit, HeapTypeInit
<1>2. BuddyInv
  BY DEF Init, BootInit, BuddyInv, Clusters
<1>3. \A c \in Cpus : cpu[c].pc = "idle" /\ cpu[c].at = 0 /\ Live(cpu[c]) = {}
  BY DEF Init, Idle, Live, Working
<1>4. segments = <<>> /\ DOMAIN segments = {} /\ Len(segments) = 0 /\ blocks = {}
  BY DEF Init
<1>5. \A a \in Addresses : vmap[a].use # "mapped"
  BY DEF Init, Unmapped
<1>6. MemoryInv
  BY <1>3, <1>4, <1>5 DEF MemoryInv, ProgressInv, LiveInv, Working
<1>7. BlockInv
  BY <1>3, <1>4 DEF BlockInv
<1> QED
  BY <1>1, <1>2, <1>6, <1>7 DEF Inv

LEMMA BuddyKept ==
    ASSUME BuddyInv, buddy' = buddy, owned' = owned
    PROVE  BuddyInv'
  BY DEF BuddyInv

\* The allocators, in the boot and afterwards.
LEMMA BuddyStep == ListsInv /\ BuddyInv /\ HeapType /\ [Next]_vars => BuddyInv'
<1> SUFFICES ASSUME ListsInv, BuddyInv, HeapType, [Next]_vars
             PROVE  BuddyInv'
  OBVIOUS
<1>1. Page \in Nat
  BY SizeAssumption
<1>2. CASE BootNext
  <2>1. CASE Reserve
    BY <2>1, ReserveKeeps
  <2>2. CASE ~Reserve
    <3>1. buddy' = buddy /\ owned' = owned
      BY <1>2, <2>2 DEF BootNext, ReadEntry, TakeRoot, TakePdpt, MapNext, StartCluster,
                        RetrySmall, BeginTree, TreePage, EndCluster, Panic
    <3> QED
      BY <3>1, BuddyKept
  <2> QED
    BY <2>1, <2>2
<1>3. CASE AllocPhys
  BY <1>1, <1>3, GiveKeeps DEF AllocPhys
<1>4. CASE AllocLower
  BY <1>1, <1>4, GiveKeeps DEF AllocLower
<1>5. CASE FreePhys
  BY <1>5, ReleaseKeeps DEF FreePhys
<1>6. ASSUME NEW c \in Cpus, AllocPage(c)
      PROVE  BuddyInv'
  <2>1. cpu[c].pageSize \in Nat
    <3>1. cpu[c] \in States
      BY DEF HeapType
    <3> QED
      BY <3>1, SizeAssumption DEF States
  <2>2. \/ buddy' = buddy /\ owned' = owned
        \/ \E f \in AllFits(cpu[c].pageSize, cpu[c].pageSize) : Give(f, cpu[c].pageSize)
    BY <1>6 DEF AllocPage
  <2> QED
    BY <2>1, <2>2, GiveKeeps, BuddyKept
<1>7. ASSUME NEW c \in Cpus, FreePage(c)
      PROVE  BuddyInv'
  BY <1>7, ReleaseKeeps DEF FreePage
<1>8. CASE buddy' = buddy /\ owned' = owned
  BY <1>8, BuddyKept
<1>9. ASSUME NEW c \in Cpus,
             \/ \E size \in BlockSizes : Alloc(c, size)
             \/ \E b \in blocks : Free(c, b)
             \/ Search(c) \/ NotFound(c) \/ CreateSegment(c) \/ Owns(c) \/ FreeBlock(c)
             \/ ReserveSegment(c) \/ MapPage(c) \/ UnmapPage(c)
      PROVE  buddy' = buddy /\ owned' = owned
  BY <1>9 DEF Alloc, Free, Search, NotFound, CreateSegment, Owns, FreeBlock, ReserveSegment,
              MapPage, UnmapPage
<1>10. CASE UNCHANGED vars
  BY <1>8, <1>10 DEF vars
<1> QED
  BY <1>2, <1>3, <1>4, <1>5, <1>6, <1>7, <1>8, <1>9, <1>10 DEF Next

\* AllocNoNewSegment finds room where no block is.
LEMMA RunIsFree ==
    ASSUME HeapType, BlockInv, NEW c \in Cpus, Search(c)
    PROVE  \/ blocks' = blocks
           \/ \E b \in Blocks :
                 /\ blocks' = blocks \union {b}
                 /\ CellsOf(b) \subseteq HeaderCells .. (Cells - 1)
                 /\ b.segment \in ToSet(segments)
                 /\ \A o \in blocks : o.segment = b.segment => CellsOf(o) \intersect CellsOf(b) = {}
<1> DEFINE seg == Segment(cpu[c].at)
           size == cpu[c].size
           runs == FreeRuns(seg, size)
           first == {b.first : b \in runs}
<1>1. cpu[c] \in States /\ cpu[c].at > 0 /\ cpu[c].at <= Len(segments)
  BY DEF Search, HeapType, BlockInv
<1>2. cpu[c].at \in DOMAIN segments /\ size \in Nat
  BY <1>1 DEF States, HeapType
<1>3. seg \in ToSet(segments) /\ seg \in Nat
  BY <1>2 DEF Segment, ToSet, HeapType
<1>4. CASE runs = {}
  BY <1>4 DEF Search
<1>5. CASE runs # {}
  <2>1. PICK b : b = CHOOSE x \in runs : \A o \in runs : x.first <= o.first
    OBVIOUS
  <2>2. blocks' = blocks \union {b}
    BY <1>5, <2>1 DEF Search
  <2>3. HeaderCells \in Nat /\ Cells \in Nat
    BY HeapAssumption
  <2>4. \A x \in runs : \E i \in HeaderCells .. (Cells - size) :
                            x = [segment |-> seg, first |-> i, size |-> size]
    BY DEF FreeRuns
  <2>5. \A x \in runs : \A o \in blocks :
            o.segment = seg => CellsOf(o) \intersect CellsOf(x) = {}
    BY DEF FreeRuns
  <2> HIDE DEF runs
  <2>6. first \subseteq Nat /\ first # {}
    BY <1>2, <1>5, <2>3, <2>4
  <2>7. \E m \in first : \A y \in first : m <= y
    BY <2>6, LeastNatural
  <2>8. b \in runs
    BY <2>1, <2>7
  <2>9. PICK i \in HeaderCells .. (Cells - size) :
            b = [segment |-> seg, first |-> i, size |-> size]
    BY <2>4, <2>8
  <2> HIDE DEF seg, size
  <2>10. b \in Blocks /\ b.segment = seg /\ b.first = i /\ b.size = size
    BY <1>2, <1>3, <2>3, <2>9 DEF Blocks
  <2>11. CellsOf(b) \subseteq HeaderCells .. (Cells - 1)
    BY <1>2, <2>3, <2>9, <2>10 DEF CellsOf
  <2> QED
    BY <1>3, <2>2, <2>5, <2>8, <2>10, <2>11
<1> QED
  BY <1>4, <1>5

\* A step that hands out no memory keeps the blocks apart.
LEMMA BlocksKept ==
    ASSUME HeapType, BlockInv, NEW c \in Cpus, NEW u \in States, cpu' = [cpu EXCEPT ![c] = u],
           u.at <= Len(segments), segments' = segments, blocks' \subseteq blocks
    PROVE  BlockInv'
<1>1. \A d \in Cpus : cpu'[d].at <= Len(segments')
  BY CpuAfter DEF BlockInv
<1> QED
  BY <1>1 DEF BlockInv

LEMMA SearchBlocks ==
    ASSUME HeapType, BlockInv, NEW c \in Cpus, Search(c)
    PROVE  blocks' \subseteq Blocks /\ BlockInv'
<1>1. segments' = segments
  BY DEF Search
<1>2. PICK u \in States : cpu' = [cpu EXCEPT ![c] = u] /\ u.at <= cpu[c].at
  BY SearchMoves
<1>3. u.at <= Len(segments)
  BY <1>2 DEF BlockInv, HeapType, States
<1>4. CASE blocks' = blocks
  BY <1>1, <1>2, <1>3, <1>4, BlocksKept DEF HeapType
<1>5. CASE blocks' # blocks
  <2>1. PICK b \in Blocks :
           /\ blocks' = blocks \union {b}
           /\ CellsOf(b) \subseteq HeaderCells .. (Cells - 1)
           /\ b.segment \in ToSet(segments)
           /\ \A o \in blocks : o.segment = b.segment => CellsOf(o) \intersect CellsOf(b) = {}
    BY <1>5, RunIsFree
  <2>2. \A d \in Cpus : cpu'[d].at <= Len(segments')
    BY <1>1, <1>2, <1>3, CpuAfter DEF BlockInv
  <2>3. ASSUME NEW x \in blocks'
        PROVE  /\ CellsOf(x) \subseteq HeaderCells .. (Cells - 1)
               /\ x.segment \in ToSet(segments')
               /\ \A o \in blocks' \ {x} :
                     o.segment = x.segment => CellsOf(o) \intersect CellsOf(x) = {}
    <3>1. CASE x = b
      BY <1>1, <2>1, <3>1
    <3>2. CASE x \in blocks
      BY <1>1, <2>1, <3>2 DEF BlockInv
    <3> QED
      BY <2>1, <3>1, <3>2
  <2> QED
    BY <2>1, <2>2, <2>3 DEF BlockInv, HeapType
<1> QED
  BY <1>4, <1>5

LEMMA CreateBlocks ==
    ASSUME HeapType, BlockInv, NEW c \in Cpus, CreateSegment(c)
    PROVE  segments' \in Seq(Nat) /\ BlockInv'
<1>1. PICK u \in States : cpu' = [cpu EXCEPT ![c] = u] /\ u.at = Len(segments')
  BY CreateMoves
<1>2. cpu[c].base \in Nat
  BY DEF HeapType, States
<1>3. segments' = Append(segments, cpu[c].base) /\ blocks' = blocks
  BY DEF CreateSegment, Linked
<1>4. segments' \in Seq(Nat) /\ Len(segments') = Len(segments) + 1 /\ Len(segments) \in Nat
  BY <1>2, <1>3 DEF HeapType
<1>5. ToSet(segments) \subseteq ToSet(segments')
  <2>1. \A i \in DOMAIN segments : i \in DOMAIN segments' /\ segments'[i] = segments[i]
    BY <1>2, <1>3 DEF HeapType
  <2> QED
    BY <2>1 DEF ToSet
<1>6. \A d \in Cpus : cpu[d].at \in Nat
  BY DEF HeapType, States
<1>7. \A d \in Cpus : cpu'[d].at <= Len(segments')
  BY <1>1, <1>4, <1>6, CpuAfter DEF BlockInv
<1> QED
  BY <1>3, <1>4, <1>5, <1>7 DEF BlockInv

\* A step of one CPU, put together.
LEMMA TypeKept ==
    ASSUME HeapType, NEW c \in Cpus, NEW u \in States, cpu' = [cpu EXCEPT ![c] = u],
           vmap' \in [Addresses -> Entries], segments' \in Seq(Nat), blocks' \subseteq Blocks
    PROVE  HeapType'
  BY CpuAfter DEF HeapType

\* The CPU holds no pages and only looks at the heap.
LEMMA QuietStep ==
    ASSUME HeapType, MemoryInv, BlockInv, NEW c \in Cpus, NEW u \in States,
           cpu' = [cpu EXCEPT ![c] = u], vmap' = vmap, segments' = segments,
           blocks' \subseteq blocks, cpu[c].pc \notin Working, u.pc \notin Working,
           u.at <= cpu[c].at \/ u.at = Len(segments)
    PROVE  HeapType' /\ MemoryInv' /\ BlockInv'
<1>1. u.at <= Len(segments)
  <2>1. u.at \in Nat /\ cpu[c].at \in Nat /\ Len(segments) \in Nat /\ cpu[c].at <= Len(segments)
    BY DEF HeapType, States, BlockInv
  <2> QED
    BY <2>1
<1>2. HeapType'
  BY TypeKept DEF HeapType
<1>3. MemoryInv'
  BY MemoryIdle
<1>4. BlockInv'
  BY <1>1, BlocksKept
<1> QED
  BY <1>2, <1>3, <1>4

LEMMA EntryTypes ==
    ASSUME NEW size \in {Page, BigPage}, NEW f \in Nat
    PROVE  Held(size) \in Entries /\ Mapped(size, f) \in Entries /\ Unmapped \in Entries
<1>1. size \in Nat
  BY SizeAssumption
<1> QED
  BY <1>1 DEF Held, Mapped, Unmapped, Entries

LEMMA HeapStep ==
    ASSUME BuddyInv, HeapType, MemoryInv, BlockInv, NEW c \in Cpus,
           \/ \E size \in BlockSizes : Alloc(c, size)
           \/ \E b \in blocks : Free(c, b)
           \/ Search(c) \/ NotFound(c) \/ CreateSegment(c) \/ Owns(c) \/ FreeBlock(c)
           \/ ReserveSegment(c) \/ AllocPage(c) \/ MapPage(c) \/ UnmapPage(c) \/ FreePage(c)
    PROVE  HeapType' /\ (~twice' => MemoryInv') /\ BlockInv'
<1> USE DEF Working
<1>1. ASSUME NEW size \in BlockSizes, Alloc(c, size)
      PROVE  HeapType' /\ MemoryInv' /\ BlockInv'
  <2>1. vmap' = vmap /\ segments' = segments /\ blocks' = blocks /\ cpu[c].pc = "idle"
    BY <1>1 DEF Alloc, At
  <2> QED
    BY <1>1, <2>1, AllocMoves, QuietStep
<1>2. ASSUME NEW b \in blocks, Free(c, b)
      PROVE  HeapType' /\ MemoryInv' /\ BlockInv'
  <2>1. vmap' = vmap /\ segments' = segments /\ blocks' = blocks /\ cpu[c].pc = "idle"
    BY <1>2 DEF Free, At
  <2> QED
    BY <1>2, <2>1, FreeMoves, QuietStep
<1>3. CASE Search(c)
  <2>1. PICK u \in States :
           cpu' = [cpu EXCEPT ![c] = u] /\ u.pc \in {"search", "idle"} /\ u.at <= cpu[c].at
    BY <1>3, SearchMoves
  <2>2. vmap' = vmap /\ segments' = segments /\ cpu[c].pc = "search"
    BY <1>3 DEF Search, At
  <2>3. MemoryInv'
    BY <2>1, <2>2, MemoryIdle
  <2>4. HeapType'
    BY <1>3, <2>1, <2>2, SearchBlocks, TypeKept DEF HeapType
  <2> QED
    BY <1>3, <2>3, <2>4, SearchBlocks
<1>4. CASE NotFound(c)
  <2>1. vmap' = vmap /\ segments' = segments /\ blocks' = blocks /\ cpu[c].pc = "search"
    BY <1>4 DEF NotFound, At
  <2> QED
    BY <1>4, <2>1, NotFoundMoves, QuietStep
<1>5. CASE CreateSegment(c)
  <2>1. PICK u \in States : cpu' = [cpu EXCEPT ![c] = u]
    BY <1>5, CreateMoves
  <2>2. vmap' = vmap /\ blocks' = blocks
    BY <1>5 DEF CreateSegment
  <2>3. HeapType'
    BY <1>5, <2>1, <2>2, CreateBlocks, TypeKept DEF HeapType
  <2> QED
    BY <1>5, <2>3, CreateMemory, CreateBlocks
<1>6. CASE Owns(c)
  <2>1. vmap' = vmap /\ segments' = segments /\ blocks' = blocks /\ cpu[c].pc = "owns"
    BY <1>6 DEF Owns, At
  <2> QED
    BY <1>6, <2>1, OwnsMoves, QuietStep
<1>7. CASE FreeBlock(c)
  <2>1. vmap' = vmap /\ segments' = segments /\ blocks' \subseteq blocks /\ cpu[c].pc = "free"
    BY <1>7 DEF FreeBlock, At
  <2>2. PICK u \in States : cpu' = [cpu EXCEPT ![c] = u] /\ u.pc = "idle" /\ u.at = 0
    BY <1>7, FreeBlockMoves
  <2>3. u.at <= cpu[c].at
    BY <2>2 DEF HeapType, States
  <2> QED
    BY <2>1, <2>2, <2>3, QuietStep
<1>8. ASSUME NEW u \in States, cpu' = [cpu EXCEPT ![c] = u], u.at <= cpu[c].at,
             vmap' \in [Addresses -> Entries], segments' = segments, blocks' = blocks
      PROVE  HeapType' /\ BlockInv'
  <2>1. HeapType'
    BY <1>8, TypeKept DEF HeapType
  <2>2. u.at <= Len(segments)
    <3>1. u.at \in Nat /\ cpu[c].at \in Nat /\ Len(segments) \in Nat /\ cpu[c].at <= Len(segments)
      BY DEF HeapType, States, BlockInv
    <3> QED
      BY <1>8, <3>1
  <2>3. BlockInv'
    BY <1>8, <2>2, BlocksKept
  <2> QED
    BY <2>1, <2>3
<1>9. cpu[c] \in States /\ cpu[c].at \in Nat /\ cpu[c].frame \in Nat
      /\ cpu[c].pageSize \in {Page, BigPage}
  BY DEF HeapType, States
<1>10. CASE ReserveSegment(c)
  <2>1. segments' = segments /\ blocks' = blocks
    BY <1>10 DEF ReserveSegment
  <2>2. PICK u \in States :
           /\ cpu' = [cpu EXCEPT ![c] = u]
           /\ u.at <= cpu[c].at
           /\ vmap' = vmap \/ vmap' = Changed(Pages(u.base, BigPage), Held(u.pageSize))
    BY <1>10, ReserveMoves
  <2>3. u.pageSize \in {Page, BigPage}
    BY DEF States
  <2>4. vmap' \in [Addresses -> Entries]
    BY <1>9, <2>2, <2>3, EntryTypes, ChangedType DEF HeapType
  <2> QED
    BY <1>8, <1>10, <2>1, <2>2, <2>4, ReserveMemory
<1>11. CASE AllocPage(c)
  <2>1. segments' = segments /\ blocks' = blocks /\ vmap' = vmap
    BY <1>11 DEF AllocPage
  <2>2. PICK u \in States : cpu' = [cpu EXCEPT ![c] = u] /\ u.at = cpu[c].at
    BY <1>11, AllocPageMoves
  <2>3. u.at <= cpu[c].at /\ vmap' \in [Addresses -> Entries]
    BY <1>9, <2>1, <2>2 DEF HeapType
  <2> QED
    BY <1>8, <1>11, <2>1, <2>2, <2>3, AllocPageMemory
<1>12. CASE MapPage(c)
  <2>1. segments' = segments /\ blocks' = blocks
    BY <1>12 DEF MapPage
  <2>2. PICK u \in States :
           /\ cpu' = [cpu EXCEPT ![c] = u]
           /\ u.at = cpu[c].at /\ u.pageSize = cpu[c].pageSize
           /\ vmap' = Changed(Pages(cpu[c].dest, u.pageSize), Mapped(u.pageSize, cpu[c].frame))
    BY <1>12, MapPageMoves
  <2>3. u.at <= cpu[c].at /\ Mapped(u.pageSize, cpu[c].frame) \in Entries
    BY <1>9, <2>2, EntryTypes
  <2>4. vmap' \in [Addresses -> Entries]
    BY <2>2, <2>3, ChangedType
  <2> QED
    BY <1>8, <1>12, <2>1, <2>2, <2>3, <2>4, MapPageMemory
<1>13. CASE UnmapPage(c)
  <2>1. segments' = segments /\ blocks' = blocks /\ cpu[c].pc = "unwind"
    BY <1>13 DEF UnmapPage, At
  <2>2. cpu[c].source \in Addresses
    BY <2>1 DEF MemoryInv, ProgressInv
  <2>3. PICK u \in States :
           /\ cpu' = [cpu EXCEPT ![c] = u]
           /\ u.at <= cpu[c].at
           /\ \/ vmap' = vmap
              \/ vmap' = Changed(Pages(u.source, vmap[u.source].size), Unmapped)
    BY <1>13, <2>2, UnmapPageMoves
  <2>4. vmap' \in [Addresses -> Entries]
    BY <1>9, <2>3, EntryTypes, ChangedType DEF HeapType
  <2> QED
    BY <1>8, <1>13, <2>1, <2>3, <2>4, UnmapPageMemory
<1>14. CASE FreePage(c)
  <2>1. segments' = segments /\ blocks' = blocks /\ vmap' = vmap
    BY <1>14 DEF FreePage
  <2>2. PICK u \in States : cpu' = [cpu EXCEPT ![c] = u] /\ u.at = cpu[c].at
    BY <1>14, FreePageMoves
  <2>3. u.at <= cpu[c].at /\ vmap' \in [Addresses -> Entries]
    BY <1>9, <2>1, <2>2 DEF HeapType
  <2> QED
    BY <1>8, <1>14, <2>1, <2>2, <2>3, FreePageMemory
<1> QED
  BY <1>1, <1>2, <1>3, <1>4, <1>5, <1>6, <1>7, <1>10, <1>11, <1>12, <1>13, <1>14

LEMMA HeapUntouched ==
    ASSUME HeapType, ~twice => MemoryInv, BlockInv, UNCHANGED heapVars
    PROVE  HeapType' /\ (~twice' => MemoryInv') /\ BlockInv'
<1>1. vmap' = vmap /\ segments' = segments /\ blocks' = blocks /\ cpu' = cpu /\ twice' = twice
  BY DEF heapVars
<1>2. HeapType'
  BY <1>1 DEF HeapType
<1>3. ASSUME MemoryInv PROVE MemoryInv'
  <2>1. \A c \in Cpus : Live(cpu[c])' = Live(cpu[c])
    BY <1>1 DEF Live, Low
  <2>2. \A c \in Cpus : ProgressInv(cpu[c])' /\ LiveInv(cpu[c])'
    <3>1. \A c \in Cpus : ProgressInv(cpu[c])'
      BY <1>1, <1>3 DEF MemoryInv, ProgressInv
    <3>2. \A c \in Cpus : LiveInv(cpu[c])'
      BY <1>1, <1>3, <2>1 DEF MemoryInv, LiveInv
    <3> QED
      BY <3>1, <3>2
  <2>3. \A i \in DOMAIN segments : Pages(segments[i], BigPage)' = Pages(segments[i], BigPage)
    BY <1>1 DEF Pages
  <2> QED
    BY <1>1, <1>3, <2>1, <2>2, <2>3 DEF MemoryInv
<1>4. BlockInv'
  BY <1>1 DEF BlockInv
<1> QED
  BY <1>1, <1>2, <1>3, <1>4

LEMMA InvStep == Inv /\ [Next]_vars => Inv'
<1> SUFFICES ASSUME Inv, [Next]_vars
             PROVE  Inv'
  OBVIOUS
<1>1. ListsInv /\ BuddyInv /\ HeapType /\ BlockInv /\ (~twice => MemoryInv)
  BY DEF Inv
<1>2. ListsInv' /\ BuddyInv'
  BY <1>1, ListsStep, BuddyStep
<1>3. CASE UNCHANGED heapVars
  BY <1>1, <1>2, <1>3, HeapUntouched DEF Inv
<1>4. CASE AllocPhys \/ AllocLower \/ FreePhys \/ (BootNext /\ UNCHANGED <<heapVars, clients>>)
  BY <1>3, <1>4 DEF AllocPhys, AllocLower, FreePhys
<1>5. ASSUME NEW c \in Cpus,
             \/ \E size \in BlockSizes : Alloc(c, size)
             \/ \E b \in blocks : Free(c, b)
             \/ Search(c) \/ NotFound(c) \/ CreateSegment(c) \/ Owns(c) \/ FreeBlock(c)
             \/ ReserveSegment(c) \/ AllocPage(c) \/ MapPage(c) \/ UnmapPage(c) \/ FreePage(c)
      PROVE  Inv'
  <2>1. ~twice
    BY <1>5 DEF Alloc, Free, Search, NotFound, CreateSegment, Owns, FreeBlock,
                ReserveSegment, AllocPage, MapPage, UnmapPage, FreePage, At
  <2> QED
    BY <1>1, <1>2, <1>5, <2>1, HeapStep DEF Inv
<1>6. CASE UNCHANGED vars
  BY <1>3, <1>6 DEF vars, heapVars
<1> QED
  BY <1>4, <1>5, <1>6 DEF Next

LEMMA InvAlways == Spec => []Inv
  BY InvInit, InvStep, PTL DEF Spec

-----------------------------------------------------------------------------

\* Memory returns to the cluster it came from, for every memory map and every
\* order of Alloc and Free: what AllocLower hands out is below LowerEnd.
THEOREM ClustersAreSeparate == Spec => []ClustersSeparate
<1>1. Inv => ClustersSeparate
  BY DEF Inv, BuddyInv, ClustersSeparate
<1> QED
  BY <1>1, InvAlways, PTL

\* Malloc never hands out memory twice, however many CPUs search, create segments
\* and free at the same time, until GlobalMap gives two of them the same addresses.
THEOREM BlocksAreDisjoint == Spec => []BlocksDisjoint
<1>1. Inv => BlocksDisjoint
  <2> SUFFICES ASSUME Inv, ~twice, NEW b \in blocks
               PROVE  /\ CellsOf(b) \subseteq HeaderCells .. (Cells - 1)
                      /\ b.segment \in ToSet(segments)
                      /\ \A c \in Cpus : Pending(c) \intersect Pages(b.segment, BigPage) = {}
                      /\ \A o \in blocks \ {b} :
                            \/ Pages(o.segment, BigPage) \intersect Pages(b.segment, BigPage) = {}
                            \/ /\ o.segment = b.segment
                               /\ CellsOf(o) \intersect CellsOf(b) = {}
    BY DEF BlocksDisjoint
  <2>1. MemoryInv /\ BlockInv /\ HeapType
    BY DEF Inv
  <2>2. CellsOf(b) \subseteq HeaderCells .. (Cells - 1) /\ b.segment \in ToSet(segments)
    BY <2>1 DEF BlockInv
  <2>3. PICK i \in DOMAIN segments : b.segment = segments[i]
    BY <2>2 DEF ToSet
  <2>4. ASSUME NEW c \in Cpus
        PROVE  Pending(c) \intersect Pages(b.segment, BigPage) = {}
    <3>1. Pending(c) \subseteq Live(cpu[c])
      BY <2>1, PendingIsLive
    <3> QED
      BY <2>1, <2>3, <3>1 DEF MemoryInv
  <2>5. ASSUME NEW o \in blocks \ {b}
        PROVE  \/ Pages(o.segment, BigPage) \intersect Pages(b.segment, BigPage) = {}
               \/ o.segment = b.segment /\ CellsOf(o) \intersect CellsOf(b) = {}
    <3>1. o.segment \in ToSet(segments)
      BY <2>1 DEF BlockInv
    <3>2. PICK j \in DOMAIN segments : o.segment = segments[j]
      BY <3>1 DEF ToSet
    <3>3. CASE i = j
      BY <2>1, <2>3, <3>2, <3>3 DEF BlockInv
    <3>4. CASE i # j
      BY <2>1, <2>3, <3>2, <3>4 DEF MemoryInv
    <3> QED
      BY <3>3, <3>4
  <2> QED
    BY <2>2, <2>4, <2>5
<1> QED
  BY <1>1, InvAlways, PTL

\* A linked segment stays mapped, and AllocAndMap loses none, also when it fails
\* half way and another CPU reserves what it has given back or forgotten.
THEOREM SegmentsAreMapped == Spec => []SegmentsMapped
<1>1. Inv => SegmentsMapped
  <2> SUFFICES ASSUME Inv, ~twice
               PROVE  /\ \A i \in DOMAIN segments :
                            \A p \in Pages(segments[i], BigPage) : vmap[p].use = "mapped"
                      /\ \A a \in Addresses :
                            vmap[a].use = "mapped" =>
                                \/ \E i \in DOMAIN segments : a \in Pages(segments[i], BigPage)
                                \/ \E c \in Cpus :
                                      /\ cpu[c].pc \in Working
                                      /\ a \in Pages(cpu[c].base, BigPage) \ Pending(c)
    BY DEF SegmentsMapped, Working
  <2>1. MemoryInv /\ HeapType
    BY DEF Inv
  <2>2. \A i \in DOMAIN segments : \A p \in Pages(segments[i], BigPage) : vmap[p].use = "mapped"
    BY <2>1 DEF MemoryInv
  <2>3. ASSUME NEW a \in Addresses, vmap[a].use = "mapped"
        PROVE  \/ \E i \in DOMAIN segments : a \in Pages(segments[i], BigPage)
               \/ \E c \in Cpus : /\ cpu[c].pc \in Working
                                  /\ a \in Pages(cpu[c].base, BigPage) \ Pending(c)
    <3>1. \/ \E i \in DOMAIN segments : a \in Pages(segments[i], BigPage)
          \/ \E c \in Cpus : a \in Live(cpu[c])
      BY <2>1, <2>3 DEF MemoryInv
    <3>2. ASSUME NEW c \in Cpus, a \in Live(cpu[c])
          PROVE  a \notin Pending(c)
      BY <2>1, <2>3, <3>2, PendingIsLive
    <3> QED
      BY <3>1, <3>2, LiveIn
  <2> QED
    BY <2>2, <2>3
<1> QED
  BY <1>1, InvAlways, PTL

-----------------------------------------------------------------------------
(* The region lists hold the usable memory.                                *)

Elements(list) == {list[i] : i \in DOMAIN list}

Sorted(list) == \A i, j \in DOMAIN list : i < j => End(list[i]) <= list[j].start

Apart(q, r) == End(q) <= r.start \/ End(r) <= q.start

\* The regions of both lists.
Kept(regs) == Elements(regs.lower) \union Elements(regs.upper)

InOrder(regs) ==
    /\ regs \in [lower : Seq(LowerRange), upper : Seq(UpperRange)]
    /\ Sorted(regs.lower) /\ Sorted(regs.upper)
    /\ \A q \in Kept(regs) : q.size > 0

\* The lists cover the entries that have been read.
RegionInv ==
    /\ mmap \in MemoryMaps
    /\ read \in 0 .. Len(mmap)
    /\ phase \in {"regions", "panic"} \/ read = Len(mmap)
    /\ InOrder(regions)
    /\ \A a \in Nat :
          (\E q \in Kept(regions) : a \in Units(q)) <=>
              \E k \in 1 .. read : ~IsSkipped(mmap[k]) /\ a \in Units(Stretched(mmap[k]))

\* The entries of a list behind the place of an insertion move up.
LEMMA InsertAtPlace ==
    ASSUME NEW S, NEW list \in Seq(S), NEW r \in S, NEW k \in 1 .. (Len(list) + 1)
    PROVE  /\ InsertAt(list, k, r) \in Seq(S)
           /\ Len(InsertAt(list, k, r)) = Len(list) + 1
           /\ \A i \in 1 .. (Len(list) + 1) :
                 InsertAt(list, k, r)[i] =
                     IF i < k THEN list[i] ELSE IF i = k THEN r ELSE list[i - 1]
<1>1. PICK before : before = SubSeq(list, 1, k - 1)
  OBVIOUS
<1>2. PICK after : after = SubSeq(list, k, Len(list))
  OBVIOUS
<1>3. k \in Nat /\ Len(list) \in Nat /\ k - 1 \in 0 .. Len(list)
  OBVIOUS
<1>4. before \in Seq(S) /\ Len(before) = k - 1
  BY <1>1, <1>3
<1>5. \A i \in 1 .. (k - 1) : before[i] = list[i]
  BY <1>1, <1>3
<1>6. after \in Seq(S) /\ Len(after) = Len(list) - k + 1
  BY <1>2, <1>3
<1>7. \A i \in 1 .. (Len(list) - k + 1) : after[i] = list[k + i - 1]
  BY <1>2, <1>3
<1>8. PICK mid : mid = before \o <<r>>
  OBVIOUS
<1>9. mid \in Seq(S) /\ Len(mid) = k /\ mid[k] = r
  BY <1>3, <1>4, <1>8
<1>10. \A i \in 1 .. (k - 1) : mid[i] = list[i]
  BY <1>3, <1>4, <1>5, <1>8
<1>11. PICK new : new = mid \o after
  OBVIOUS
<1>12. new \in Seq(S) /\ Len(new) = Len(list) + 1
  <2>1. mid \o after \in Seq(S)
    BY <1>6, <1>9
  <2>2. Len(mid \o after) = Len(mid) + Len(after)
    BY <1>6, <1>9
  <2> QED
    BY <1>3, <1>6, <1>9, <1>11, <2>1, <2>2
<1>13. \A i \in 1 .. k : new[i] = mid[i]
  BY <1>3, <1>6, <1>9, <1>11
<1>14. \A i \in (k + 1) .. (Len(list) + 1) : new[i] = list[i - 1]
  <2> SUFFICES ASSUME NEW i \in (k + 1) .. (Len(list) + 1)
               PROVE  new[i] = list[i - 1]
    OBVIOUS
  <2>1. new[i] = after[i - k]
    BY <1>3, <1>6, <1>9, <1>11
  <2>2. i - k \in 1 .. (Len(list) - k + 1) /\ k + (i - k) - 1 = i - 1
    BY <1>3
  <2> QED
    BY <1>7, <2>1, <2>2
<1>15. InsertAt(list, k, r) = new
  BY <1>1, <1>2, <1>8, <1>11 DEF InsertAt
<1> QED
  BY <1>3, <1>9, <1>10, <1>12, <1>13, <1>14, <1>15

\* Insert puts a region that overlaps no other in its place.
LEMMA InsertInOrder ==
    ASSUME NEW list \in Seq(Ranges), Sorted(list), \A q \in Elements(list) : q.size > 0,
           NEW r \in Ranges, r.size > 0, \A q \in Elements(list) : Apart(q, r)
    PROVE  /\ Sorted(Insert(list, r))
           /\ Elements(Insert(list, r)) = Elements(list) \union {r}
<1> DEFINE later == {i \in DOMAIN list : list[i].start > r.start}
           k == IF later = {} THEN Len(list) + 1 ELSE Min(later)
           new == Insert(list, r)
<1>1. /\ k \in 1 .. (Len(list) + 1)
      /\ \A i \in DOMAIN list : i < k => ~(list[i].start > r.start)
      /\ k <= Len(list) => list[k].start > r.start
  <2>1. CASE later = {}
    BY <2>1
  <2>2. CASE later # {}
    <3>1. later \subseteq Nat
      OBVIOUS
    <3>2. Min(later) \in later /\ \A y \in later : Min(later) <= y
      BY <2>2, <3>1, MinIsLeast
    <3>3. k = Min(later)
      BY <2>2
    <3> HIDE DEF k
    <3>4. k \in DOMAIN list /\ list[k].start > r.start
      BY <3>2, <3>3
    <3>5. \A i \in DOMAIN list : list[i].start > r.start => k <= i
      BY <3>2, <3>3
    <3> HIDE DEF later
    <3> QED
      BY <3>4, <3>5
  <2> QED
    BY <2>1, <2>2
<1>2. new = InsertAt(list, k, r)
  BY DEF Insert
<1> HIDE DEF k, new
<1>3. /\ new \in Seq(Ranges) /\ Len(new) = Len(list) + 1
      /\ \A i \in 1 .. Len(new) :
            new[i] = IF i < k THEN list[i] ELSE IF i = k THEN r ELSE list[i - 1]
  <2>1. /\ InsertAt(list, k, r) \in Seq(Ranges)
        /\ Len(InsertAt(list, k, r)) = Len(list) + 1
        /\ \A i \in 1 .. (Len(list) + 1) :
              InsertAt(list, k, r)[i] =
                  IF i < k THEN list[i] ELSE IF i = k THEN r ELSE list[i - 1]
    BY <1>1, InsertAtPlace
  <2> QED
    BY <1>2, <2>1
<1>4. \A i \in 1 .. Len(list) : list[i] \in Ranges /\ list[i].size > 0 /\ Apart(list[i], r)
  BY DEF Elements
<1>5. \A i, j \in 1 .. Len(list) : i < j => End(list[i]) <= list[j].start
  BY DEF Sorted
<1>6. \A i \in 1 .. Len(list) : i < k => End(list[i]) <= r.start
  <2> SUFFICES ASSUME NEW i \in 1 .. Len(list), i < k
               PROVE  End(list[i]) <= r.start
    OBVIOUS
  <2>1. ~(list[i].start > r.start)
    BY <1>1
  <2>2. /\ list[i].start \in Nat /\ list[i].size \in Nat /\ list[i].size > 0
        /\ r.start \in Nat /\ r.size \in Nat /\ Apart(list[i], r)
    BY <1>4 DEF Ranges
  <2> QED
    BY <2>1, <2>2 DEF Apart, End
<1>7. \A i \in 1 .. Len(list) : i >= k => End(r) <= list[i].start
  <2> SUFFICES ASSUME NEW i \in 1 .. Len(list), i >= k
               PROVE  End(r) <= list[i].start
    OBVIOUS
  <2>1. k \in 1 .. Len(list) /\ list[k].start > r.start
    BY <1>1
  <2>2. /\ list[i].start \in Nat /\ list[k].start \in Nat /\ list[k].size \in Nat
        /\ r.start \in Nat /\ r.size \in Nat /\ list[i].size \in Nat
    BY <1>4, <2>1 DEF Ranges
  <2>3. CASE i = k
    BY <1>4, <2>1, <2>2, <2>3 DEF Apart, End
  <2>4. CASE i > k
    <3>1. End(list[k]) <= list[i].start /\ list[k].size > 0
      BY <1>4, <1>5, <2>1, <2>4
    <3>2. list[i].start > r.start
      BY <2>1, <2>2, <3>1 DEF End
    <3>3. Apart(list[i], r)
      BY <1>4
    <3> QED
      BY <2>2, <3>2, <3>3 DEF Apart, End
  <2> QED
    BY <1>1, <2>3, <2>4
<1>8. Sorted(new)
  <2> SUFFICES ASSUME NEW i \in 1 .. Len(new), NEW j \in 1 .. Len(new), i < j
               PROVE  End(new[i]) <= new[j].start
    BY <1>3 DEF Sorted
  <2>1. CASE i < k /\ j < k
    <3>1. new[i] = list[i] /\ new[j] = list[j] /\ i \in 1 .. Len(list) /\ j \in 1 .. Len(list)
      BY <1>1, <1>3, <2>1
    <3> QED
      BY <1>5, <3>1
  <2>2. CASE i < k /\ j = k
    <3>1. new[i] = list[i] /\ new[j] = r /\ i \in 1 .. Len(list)
      BY <1>1, <1>3, <2>2
    <3> QED
      BY <1>6, <2>2, <3>1
  <2>3. CASE i < k /\ j > k
    <3>1. /\ new[i] = list[i] /\ new[j] = list[j - 1]
          /\ i \in 1 .. Len(list) /\ j - 1 \in 1 .. Len(list) /\ i < j - 1
      BY <1>1, <1>3, <2>3
    <3> QED
      BY <1>5, <3>1
  <2>4. CASE i = k
    <3>1. new[i] = r /\ new[j] = list[j - 1] /\ j - 1 \in 1 .. Len(list) /\ j - 1 >= k
      BY <1>1, <1>3, <2>4
    <3> QED
      BY <1>7, <3>1
  <2>5. CASE i > k
    <3>1. /\ new[i] = list[i - 1] /\ new[j] = list[j - 1]
          /\ i - 1 \in 1 .. Len(list) /\ j - 1 \in 1 .. Len(list) /\ i - 1 < j - 1
      BY <1>1, <1>3, <2>5
    <3> QED
      BY <1>5, <3>1
  <2> QED
    BY <1>1, <2>1, <2>2, <2>3, <2>4, <2>5
<1>9. Elements(new) \subseteq Elements(list) \union {r}
  <2> SUFFICES ASSUME NEW i \in 1 .. Len(new)
               PROVE  new[i] \in Elements(list) \union {r}
    BY <1>3 DEF Elements
  <2> QED
    BY <1>1, <1>3 DEF Elements
<1>10. Elements(list) \union {r} \subseteq Elements(new)
  <2>1. r \in Elements(new)
    <3>1. k \in DOMAIN new /\ new[k] = r
      BY <1>1, <1>3
    <3> QED
      BY <3>1 DEF Elements
  <2>2. ASSUME NEW i \in 1 .. Len(list)
        PROVE  list[i] \in Elements(new)
    <3>1. CASE i < k
      BY <1>1, <1>3, <3>1 DEF Elements
    <3>2. CASE i >= k
      <4>1. i + 1 \in 1 .. Len(new) /\ new[i + 1] = list[i]
        BY <1>1, <1>3, <3>2
      <4> QED
        BY <1>3, <4>1 DEF Elements
    <3> QED
      BY <1>1, <3>1, <3>2
  <2> QED
    BY <2>1, <2>2 DEF Elements
<1> QED
  BY <1>8, <1>9, <1>10 DEF new

LEMMA AddRegionInOrder ==
    ASSUME NEW regs, InOrder(regs), NEW r \in LowerRange \union UpperRange, r.size > 0,
           \A q \in Kept(regs) : Apart(q, r)
    PROVE  InOrder(AddRegion(regs, r)) /\ Kept(AddRegion(regs, r)) = Kept(regs) \union {r}
<1> DEFINE new == AddRegion(regs, r)
<1>1. new \in [lower : Seq(LowerRange), upper : Seq(UpperRange)]
  BY AddRegionType DEF InOrder
<1>2. r \in Ranges
  BY DEF LowerRange, UpperRange
<1>3. regs.lower \in Seq(Ranges) /\ regs.upper \in Seq(Ranges)
  BY DEF InOrder, LowerRange, UpperRange
<1>4. regs \in [lower : Seq(Ranges), upper : Seq(Ranges)]
  BY <1>3 DEF InOrder
<1>5. CASE r.start < LowerEnd
  <2>1. new.lower = Insert(regs.lower, r) /\ new.upper = regs.upper
    BY <1>4, <1>5 DEF AddRegion
  <2>2. Sorted(new.lower) /\ Elements(new.lower) = Elements(regs.lower) \union {r}
    BY <1>2, <1>3, <2>1, InsertInOrder DEF InOrder, Kept
  <2>3. Kept(new) = Kept(regs) \union {r}
    BY <2>1, <2>2 DEF Kept
  <2> HIDE DEF new
  <2>4. InOrder(new)
    BY <1>1, <2>1, <2>2, <2>3 DEF InOrder
  <2> QED
    BY <2>3, <2>4 DEF new
<1>6. CASE ~(r.start < LowerEnd)
  <2>1. new.upper = Insert(regs.upper, r) /\ new.lower = regs.lower
    BY <1>4, <1>6 DEF AddRegion
  <2>2. Sorted(new.upper) /\ Elements(new.upper) = Elements(regs.upper) \union {r}
    BY <1>2, <1>3, <2>1, InsertInOrder DEF InOrder, Kept
  <2>3. Kept(new) = Kept(regs) \union {r}
    BY <2>1, <2>2 DEF Kept
  <2> HIDE DEF new
  <2>4. InOrder(new)
    BY <1>1, <2>1, <2>2, <2>3 DEF InOrder
  <2> QED
    BY <2>3, <2>4 DEF new
<1> QED
  BY <1>5, <1>6

\* Also when it is split, a region is added as a whole.
LEMMA AddPartsInOrder ==
    ASSUME NEW regs, InOrder(regs), NEW r \in Ranges, r.size > 0,
           \A q \in Kept(regs) : Apart(q, r)
    PROVE  /\ InOrder(AddParts(regs, r))
           /\ \A a \in Nat : (\E q \in Kept(AddParts(regs, r)) : a \in Units(q)) <=>
                 a \in Units(r) \/ \E q \in Kept(regs) : a \in Units(q)
<1>1. \A q \in Kept(regs) : q \in Ranges
  BY DEF Kept, Elements, InOrder, LowerRange, UpperRange
<1>2. CASE r.start < LowerEnd /\ End(r) > LowerEnd
  <2> DEFINE low  == Extent(r.start, LowerEnd - r.start)
             high == Extent(LowerEnd, End(r) - LowerEnd)
             half == AddRegion(regs, low)
  <2>1. low \in LowerRange /\ low.size > 0
    BY <1>2, SizeAssumption DEF LowerRange, Ranges, End, Extent
  <2>2. high \in UpperRange /\ high.size > 0
    BY <1>2, SizeAssumption DEF UpperRange, Ranges, End, Extent
  <2>3. Apart(low, high)
    BY <1>2, SizeAssumption DEF Ranges, End, Extent, Apart
  <2>4. \A q \in Kept(regs) : Apart(q, low) /\ Apart(q, high)
    BY <1>1, <1>2, SizeAssumption DEF Ranges, End, Extent, Apart
  <2>5. \A a \in Nat : a \in Units(r) <=> a \in Units(low) \/ a \in Units(high)
    BY <1>2, SizeAssumption DEF Units, Ranges, End, Extent
  <2>6. AddParts(regs, r) = AddRegion(half, high)
    BY <1>2 DEF AddParts
  <2> HIDE DEF low, high
  <2>7. InOrder(half) /\ Kept(half) = Kept(regs) \union {low}
    BY <2>1, <2>4, AddRegionInOrder
  <2> HIDE DEF half
  <2>8. InOrder(AddRegion(half, high)) /\ Kept(AddRegion(half, high)) = Kept(half) \union {high}
    BY <2>2, <2>3, <2>4, <2>7, AddRegionInOrder
  <2> QED
    BY <2>5, <2>6, <2>7, <2>8
<1>3. CASE ~(r.start < LowerEnd /\ End(r) > LowerEnd)
  <2>1. r \in LowerRange \union UpperRange
    BY <1>3, SizeAssumption DEF UpperRange, LowerRange, Ranges, End
  <2>2. AddParts(regs, r) = AddRegion(regs, r)
    BY <1>3 DEF AddParts
  <2>3. InOrder(AddRegion(regs, r)) /\ Kept(AddRegion(regs, r)) = Kept(regs) \union {r}
    BY <2>1, AddRegionInOrder
  <2> QED
    BY <2>2, <2>3
<1> QED
  BY <1>2, <1>3
-----------------------------------------------------------------------------

\* Two entries of the memory map stay apart when they are stretched: at most one
\* reaches from the first megabyte beyond it.
LEMMA StretchedApart ==
    ASSUME NEW m \in MemoryMaps, NEW k \in DOMAIN m, NEW l \in DOMAIN m, k # l,
           ~IsSkipped(m[k]), ~IsSkipped(m[l])
    PROVE  Apart(Stretched(m[k]), Stretched(m[l]))
<1>1. ~Overlap(EntryRange(m[k]), EntryRange(m[l])) /\ m[k].len > 0 /\ m[l].len > 0
  BY MapAssumption DEF IsSkipped
<1>2. /\ m[k].base \in Nat /\ m[k].len \in Nat
      /\ m[l].base \in Nat /\ m[l].len \in Nat
  <2>1. PICK E : E = [base : Nat, len : Nat, type : Nat]
    OBVIOUS
  <2>2. m \in Seq(E)
    BY <2>1, MapAssumption
  <2>3. m[k] \in E /\ m[l] \in E
    BY <2>2
  <2> QED
    BY <2>1, <2>3
<1>3. PICK x, y, u, v \in Nat : x = m[k].base /\ u = m[k].len /\ y = m[l].base /\ v = m[l].len
  BY <1>2
<1>4. x + u > LowMemory /\ y + v > LowMemory /\ u > 0 /\ v > 0
  BY <1>1, <1>3, SizeAssumption DEF IsSkipped
<1>5. x + u <= y \/ y + v <= x
  BY <1>1, <1>3 DEF Overlap, EntryRange, Extent, End
<1>6. /\ Stretched(m[k]) = IF x <= LowMemory THEN Extent(0, u + x) ELSE Extent(x, u)
      /\ Stretched(m[l]) = IF y <= LowMemory THEN Extent(0, v + y) ELSE Extent(y, v)
  BY <1>3 DEF Stretched
<1> QED
  BY <1>4, <1>5, <1>6, SizeAssumption DEF Apart, Extent, End

\* What is stretched holds the entry, and nothing more above the first megabyte.
LEMMA StretchedUnits ==
    ASSUME NEW e \in [base : Nat, len : Nat, type : Nat], NEW a \in Nat, a >= LowMemory
    PROVE  ~IsSkipped(e) /\ a \in Units(Stretched(e)) <=>
               IsUsable(e) /\ a \in Units(EntryRange(e))
  BY SizeAssumption DEF IsSkipped, Units, Stretched, EntryRange, Extent, End

LEMMA EntryType ==
    ASSUME NEW m \in MemoryMaps, NEW k \in DOMAIN m
    PROVE  m[k] \in [base : Nat, len : Nat, type : Nat]
<1>1. PICK E : E = [base : Nat, len : Nat, type : Nat]
  OBVIOUS
<1>2. m \in Seq(E)
  BY <1>1, MapAssumption
<1>3. m[k] \in E
  BY <1>2
<1> QED
  BY <1>1, <1>3

LEMMA MapLength ==
    ASSUME NEW m \in MemoryMaps
    PROVE  Len(m) \in Nat /\ DOMAIN m = 1 .. Len(m)
<1>1. PICK E : m \in Seq(E)
  BY MapAssumption
<1> QED
  BY <1>1

LEMMA RegionInit == Init => RegionInv
<1> SUFFICES ASSUME Init
             PROVE  RegionInv
  OBVIOUS
<1>1. /\ phase = "regions" /\ mmap \in MemoryMaps /\ read = 0
      /\ regions = [lower |-> <<>>, upper |-> <<>>]
  BY DEF Init, BootInit
<1>2. Len(mmap) \in Nat
  BY <1>1, MapLength
<1>3. Elements(<<>>) = {}
  BY DEF Elements
<1>4. Kept(regions) = {}
  BY <1>1, <1>3 DEF Kept
<1>5. InOrder(regions)
  BY <1>1, <1>4 DEF InOrder, Sorted
<1> QED
  BY <1>1, <1>2, <1>4, <1>5 DEF RegionInv

\* An entry of the memory map that is not skipped is added to the lists.
LEMMA ReadKeeps ==
    ASSUME RegionInv, read < Len(mmap), ~IsSkipped(mmap[read + 1])
    PROVE  /\ InOrder(AddParts(regions, Stretched(mmap[read + 1])))
           /\ \A a \in Nat :
                 (\E q \in Kept(AddParts(regions, Stretched(mmap[read + 1]))) : a \in Units(q)) <=>
                     \E k \in 1 .. (read + 1) :
                         ~IsSkipped(mmap[k]) /\ a \in Units(Stretched(mmap[k]))
<1> DEFINE r == Stretched(mmap[read + 1])
<1>1. /\ mmap \in MemoryMaps /\ read \in Nat /\ Len(mmap) \in Nat
      /\ DOMAIN mmap = 1 .. Len(mmap) /\ read + 1 \in DOMAIN mmap
  BY MapLength DEF RegionInv
<1>2. mmap[read + 1] \in [base : Nat, len : Nat, type : Nat]
  BY <1>1, EntryType
<1>3. r \in Ranges
  BY <1>2, StretchedType
<1>4. r.size > 0
  <2>1. mmap[read + 1].len > 0
    BY <1>1, MapAssumption DEF IsSkipped
  <2> QED
    BY <1>2, <2>1 DEF Stretched, Extent
<1>5. \A q \in Kept(regions) : q \in Ranges /\ q.size > 0
  BY DEF RegionInv, InOrder, Kept, Elements, LowerRange, UpperRange
<1>6. ASSUME NEW q \in Kept(regions)
      PROVE  Apart(q, r)
  <2>1. /\ q.start \in Nat /\ q.size \in Nat /\ q.size > 0
        /\ r.start \in Nat /\ r.size \in Nat /\ r.size > 0
    BY <1>3, <1>4, <1>5 DEF Ranges
  <2> SUFFICES ASSUME ~Apart(q, r) PROVE FALSE
    OBVIOUS
  <2>2. PICK a \in Nat : a \in Units(q) /\ a \in Units(r)
    <3>1. CASE q.start <= r.start
      <4>1. r.start \in Units(q) /\ r.start \in Units(r)
        BY <2>1, <3>1 DEF Units, Apart, End
      <4> QED
        BY <2>1, <4>1
    <3>2. CASE r.start <= q.start
      <4>1. q.start \in Units(q) /\ q.start \in Units(r)
        BY <2>1, <3>2 DEF Units, Apart, End
      <4> QED
        BY <2>1, <4>1
    <3> QED
      BY <2>1, <3>1, <3>2
  <2>3. PICK k \in 1 .. read : ~IsSkipped(mmap[k]) /\ a \in Units(Stretched(mmap[k]))
    BY <2>2 DEF RegionInv
  <2>4. k \in DOMAIN mmap /\ k # read + 1
    BY <1>1
  <2>5. Apart(Stretched(mmap[k]), r)
    BY <1>1, <2>3, <2>4, StretchedApart
  <2>6. mmap[k] \in [base : Nat, len : Nat, type : Nat]
    BY <1>1, <2>4, EntryType
  <2>7. Stretched(mmap[k]) \in Ranges
    BY <2>6, StretchedType
  <2> HIDE DEF r
  <2> QED
    BY <1>3, <2>2, <2>3, <2>5, <2>7 DEF Units, Apart, End, Ranges
<1> HIDE DEF r
<1>7. /\ InOrder(AddParts(regions, r))
      /\ \A a \in Nat : (\E q \in Kept(AddParts(regions, r)) : a \in Units(q)) <=>
            a \in Units(r) \/ \E q \in Kept(regions) : a \in Units(q)
  BY <1>3, <1>4, <1>6, AddPartsInOrder DEF RegionInv
<1>8. \A k \in Int : k \in 1 .. (read + 1) <=> k \in 1 .. read \/ k = read + 1
  BY <1>1
<1>9. ASSUME NEW a \in Nat
      PROVE  (\E q \in Kept(AddParts(regions, r)) : a \in Units(q)) <=>
                 \E k \in 1 .. (read + 1) :
                     ~IsSkipped(mmap[k]) /\ a \in Units(Stretched(mmap[k]))
  <2>1. (\E q \in Kept(regions) : a \in Units(q)) <=>
            \E k \in 1 .. read : ~IsSkipped(mmap[k]) /\ a \in Units(Stretched(mmap[k]))
    BY DEF RegionInv
  <2>2. a \in Units(r) <=> ~IsSkipped(mmap[read + 1]) /\ a \in Units(Stretched(mmap[read + 1]))
    BY DEF r
  <2> QED
    BY <1>1, <1>7, <1>8, <2>1, <2>2
<1> QED
  BY <1>7, <1>9 DEF r

LEMMA RegionStep == RegionInv /\ [Next]_vars => RegionInv'
<1> SUFFICES ASSUME RegionInv, [Next]_vars
             PROVE  RegionInv'
  OBVIOUS
<1>1. mmap \in MemoryMaps /\ read \in Nat /\ Len(mmap) \in Nat /\ read <= Len(mmap)
  BY MapLength DEF RegionInv
<1>2. CASE UNCHANGED <<mmap, read, regions>> /\ (phase' = "panic" \/ read = Len(mmap))
  BY <1>2 DEF RegionInv
<1>3. CASE ReadEntry
  <2> DEFINE e == mmap[read + 1]
             added == IF IsSkipped(e) THEN regions ELSE AddParts(regions, Stretched(e))
  <2>1. read < Len(mmap) /\ phase = "regions"
    BY <1>3 DEF ReadEntry
  <2>2. /\ InOrder(added)
        /\ \A a \in Nat :
              (\E q \in Kept(added) : a \in Units(q)) <=>
                  \E k \in 1 .. (read + 1) :
                      ~IsSkipped(mmap[k]) /\ a \in Units(Stretched(mmap[k]))
    <3>1. CASE IsSkipped(e)
      <4>1. \A k \in 1 .. (read + 1) : ~IsSkipped(mmap[k]) => k \in 1 .. read
        BY <1>1, <3>1
      <4>2. \A k \in 1 .. read : k \in 1 .. (read + 1)
        BY <1>1
      <4> QED
        BY <3>1, <4>1, <4>2 DEF RegionInv
    <3>2. CASE ~IsSkipped(e)
      BY <2>1, <3>2, ReadKeeps
    <3> QED
      BY <3>1, <3>2
  <2>3. \/ UNCHANGED <<mmap, read, regions>> /\ phase' = "panic"
        \/ /\ UNCHANGED <<mmap, phase>>
           /\ read' = read + 1 /\ regions' = added
    BY <1>3 DEF ReadEntry, Panic
  <2> HIDE DEF added
  <2>4. CASE UNCHANGED <<mmap, phase>> /\ read' = read + 1 /\ regions' = added
    <3>1. read + 1 \in 0 .. Len(mmap)
      BY <1>1, <2>1
    <3> QED
      BY <1>1, <2>1, <2>2, <2>4, <3>1 DEF RegionInv
  <2> QED
    BY <1>2, <2>3, <2>4
<1>4. CASE BootNext /\ ~ReadEntry
  <2>1. UNCHANGED <<mmap, read, regions>> /\ phase # "panic"
    BY <1>4 DEF BootNext, TakeRoot, TakePdpt, MapNext, StartCluster, RetrySmall, BeginTree,
                TreePage, EndCluster, Reserve, Panic
  <2>2. phase = "regions" => read = Len(mmap)
    BY <1>4 DEF BootNext, TakeRoot, TakePdpt, MapNext, StartCluster, RetrySmall, BeginTree,
                TreePage, EndCluster, Reserve, Panic
  <2> QED
    BY <1>2, <2>1, <2>2 DEF RegionInv
<1>5. CASE ~BootNext
  <2>1. UNCHANGED bootVars
    BY <1>5 DEF Next, vars, AllocPhys, AllocLower, FreePhys, Alloc, Free, Search, NotFound,
                CreateSegment, Owns, FreeBlock, ReserveSegment, AllocPage, MapPage, UnmapPage,
                FreePage
  <2> QED
    BY <2>1 DEF bootVars, RegionInv
<1> QED
  BY <1>3, <1>4, <1>5

LEMMA RegionAlways == Spec => []RegionInv
  BY RegionInit, RegionStep, PTL DEF Spec

\* The lists one after the other, as FindRegion and NextRegion search them.
LEMMA AllInOrder ==
    ASSUME InOrder(regions)
    PROVE  /\ All \in Seq(Ranges)
           /\ \A i \in DOMAIN All : All[i] \in Ranges /\ All[i].size > 0
           /\ \A i, j \in DOMAIN All : i < j => End(All[i]) <= All[j].start
           /\ Elements(All) = Kept(regions)
<1> DEFINE n == Len(regions.lower)
           m == Len(regions.upper)
<1>1. regions.lower \in Seq(LowerRange) /\ regions.upper \in Seq(UpperRange)
  BY DEF InOrder
<1>2. LowerRange \subseteq Ranges /\ UpperRange \subseteq Ranges
  BY DEF LowerRange, UpperRange
<1>3. regions.lower \in Seq(Ranges) /\ regions.upper \in Seq(Ranges)
  BY <1>1, <1>2
<1>4. All \in Seq(Ranges) /\ Len(All) = n + m /\ n \in Nat /\ m \in Nat
  BY <1>3 DEF All
<1>5. /\ \A i \in 1 .. n : All[i] = regions.lower[i]
      /\ \A i \in (n + 1) .. (n + m) : All[i] = regions.upper[i - n]
  <2>1. PICK low, high : low = regions.lower /\ high = regions.upper
    OBVIOUS
  <2>2. low \in Seq(Ranges) /\ high \in Seq(Ranges) /\ Len(low) = n /\ Len(high) = m
    BY <1>3, <2>1
  <2> HIDE DEF n, m
  <2>3. \A i \in 1 .. n : (low \o high)[i] = low[i]
    BY <1>4, <2>2
  <2>4. \A i \in (n + 1) .. (n + m) : (low \o high)[i] = high[i - n]
    BY <1>4, <2>2
  <2> QED
    BY <2>1, <2>3, <2>4 DEF All
<1>6. \A i \in 1 .. n : regions.lower[i] \in LowerRange
  BY <1>1
<1>7. \A i \in 1 .. m : regions.upper[i] \in UpperRange
  BY <1>1
<1>8. DOMAIN regions.lower = 1 .. n /\ DOMAIN regions.upper = 1 .. m /\ DOMAIN All = 1 .. (n + m)
  BY <1>1, <1>4
<1> HIDE DEF n, m
<1>9. ASSUME NEW i \in DOMAIN All, NEW j \in DOMAIN All, i < j
      PROVE  End(All[i]) <= All[j].start
  <2>1. CASE j <= n
    <3>1. i \in 1 .. n /\ j \in 1 .. n
      BY <1>4, <1>8, <1>9, <2>1
    <3> QED
      BY <1>5, <1>8, <1>9, <3>1 DEF InOrder, Sorted
  <2>2. CASE i <= n /\ j > n
    <3>1. i \in 1 .. n /\ j \in (n + 1) .. (n + m) /\ j - n \in 1 .. m
      BY <1>4, <1>8, <2>2
    <3>2. All[i] \in LowerRange /\ All[j] \in UpperRange
      BY <1>5, <1>6, <1>7, <3>1
    <3> QED
      BY <3>2, SizeAssumption DEF LowerRange, UpperRange, Ranges, End
  <2>3. CASE i > n
    <3>1. /\ i \in (n + 1) .. (n + m) /\ j \in (n + 1) .. (n + m)
          /\ i - n \in 1 .. m /\ j - n \in 1 .. m /\ i - n < j - n
      BY <1>4, <1>8, <1>9, <2>3
    <3> QED
      BY <1>5, <1>8, <3>1 DEF InOrder, Sorted
  <2> QED
    BY <1>4, <1>8, <2>1, <2>2, <2>3
<1>10. Elements(All) \subseteq Kept(regions)
  <2> SUFFICES ASSUME NEW i \in 1 .. (n + m)
               PROVE  All[i] \in Kept(regions)
    BY <1>8 DEF Elements
  <2>1. CASE i \in 1 .. n
    BY <1>5, <1>8, <2>1 DEF Kept, Elements
  <2>2. CASE i \in (n + 1) .. (n + m)
    <3>1. i - n \in 1 .. m
      BY <1>4, <2>2
    <3> QED
      BY <1>5, <1>8, <2>2, <3>1 DEF Kept, Elements
  <2> QED
    BY <1>4, <2>1, <2>2
<1>11. Kept(regions) \subseteq Elements(All)
  <2>1. ASSUME NEW i \in 1 .. n
        PROVE  regions.lower[i] \in Elements(All)
    <3>1. i \in DOMAIN All /\ All[i] = regions.lower[i]
      BY <1>4, <1>5, <1>8
    <3> QED
      BY <3>1 DEF Elements
  <2>2. ASSUME NEW i \in 1 .. m
        PROVE  regions.upper[i] \in Elements(All)
    <3>1. i + n \in DOMAIN All /\ i + n \in (n + 1) .. (n + m) /\ (i + n) - n = i
      BY <1>4, <1>8
    <3>2. All[i + n] = regions.upper[i]
      BY <1>5, <3>1
    <3> QED
      BY <3>1, <3>2 DEF Elements
  <2> QED
    BY <1>8, <2>1, <2>2 DEF Kept, Elements
<1>12. ASSUME NEW i \in DOMAIN All
       PROVE  All[i] \in Ranges /\ All[i].size > 0
  <2>1. All[i] \in Kept(regions)
    BY <1>10 DEF Elements
  <2> QED
    BY <1>4, <2>1 DEF InOrder
<1> QED
  BY <1>4, <1>9, <1>10, <1>11, <1>12

\* Whatever the order of the memory map, the lists are sorted, do not overlap, keep to
\* their side of LowerEnd, and hold exactly the usable memory above the first megabyte.
THEOREM RegionsAreExact == Spec => []RegionsExact
<1>1. RegionInv => RegionsExact
  <2> SUFFICES ASSUME RegionInv, phase \notin {"regions", "panic"}
               PROVE  /\ \A i, j \in DOMAIN All : i < j => End(All[i]) <= All[j].start
                      /\ \A i \in DOMAIN regions.lower : End(regions.lower[i]) <= LowerEnd
                      /\ \A i \in DOMAIN regions.upper : regions.upper[i].start >= LowerEnd
                      /\ {a \in UNION {Units(All[i]) : i \in DOMAIN All} : a >= LowMemory} =
                            {a \in Listed : a >= LowMemory}
    BY DEF RegionsExact
  <2>1. /\ InOrder(regions) /\ mmap \in MemoryMaps
        /\ read = Len(mmap) /\ DOMAIN mmap = 1 .. read
    BY MapLength DEF RegionInv
  <2>2. /\ \A i \in DOMAIN regions.lower : regions.lower[i] \in LowerRange
        /\ \A i \in DOMAIN regions.upper : regions.upper[i] \in UpperRange
    BY <2>1 DEF InOrder
  <2>3. /\ \A i \in DOMAIN regions.lower : End(regions.lower[i]) <= LowerEnd
        /\ \A i \in DOMAIN regions.upper : regions.upper[i].start >= LowerEnd
    BY <2>2 DEF LowerRange, UpperRange
  <2>4. /\ \A i \in DOMAIN All : All[i] \in Ranges
        /\ Elements(All) = Kept(regions)
        /\ \A i, j \in DOMAIN All : i < j => End(All[i]) <= All[j].start
    BY <2>1, AllInOrder
  <2>5. \A a : (\E i \in DOMAIN All : a \in Units(All[i])) => a \in Nat
    BY <2>4 DEF Units, Ranges, End
  <2>6. \A a \in Listed : a \in Nat
    <3> SUFFICES ASSUME NEW k \in DOMAIN mmap, NEW a \in Units(EntryRange(mmap[k]))
                 PROVE  a \in Nat
      BY DEF Listed
    <3>1. mmap[k] \in [base : Nat, len : Nat, type : Nat]
      BY <2>1, EntryType
    <3> QED
      BY <3>1 DEF Units, EntryRange, Extent, End
  <2>7. ASSUME NEW a \in Nat, a >= LowMemory
        PROVE  (\E i \in DOMAIN All : a \in Units(All[i])) <=> a \in Listed
    <3>1. (\E i \in DOMAIN All : a \in Units(All[i])) <=> \E q \in Kept(regions) : a \in Units(q)
      BY <2>4 DEF Elements
    <3>2. (\E q \in Kept(regions) : a \in Units(q)) <=>
             \E k \in DOMAIN mmap : ~IsSkipped(mmap[k]) /\ a \in Units(Stretched(mmap[k]))
      BY <2>1 DEF RegionInv
    <3>3. \A k \in DOMAIN mmap :
             ~IsSkipped(mmap[k]) /\ a \in Units(Stretched(mmap[k])) <=>
                 IsUsable(mmap[k]) /\ a \in Units(EntryRange(mmap[k]))
      BY <2>1, <2>7, EntryType, StretchedUnits
    <3>4. a \in Listed <=> \E k \in DOMAIN mmap : IsUsable(mmap[k]) /\ a \in Units(EntryRange(mmap[k]))
      BY DEF Listed
    <3> QED
      BY <3>1, <3>2, <3>3, <3>4
  <2>8. {a \in UNION {Units(All[i]) : i \in DOMAIN All} : a >= LowMemory} =
            {a \in Listed : a >= LowMemory}
    BY <2>5, <2>6, <2>7
  <2> QED
    BY <2>3, <2>4, <2>8
<1> QED
  BY <1>1, RegionAlways, PTL

-----------------------------------------------------------------------------
(* What the StepAllocator takes.                                           *)

\* lastAddr is the last byte of the last region: nothing can be taken any more.
Stuck == All # <<>> /\ lastAddr + 1 = End(All[Len(All)])

Within(r) == \E i \in DOMAIN All : r.start >= All[i].start /\ End(r) <= End(All[i])

\* What is taken lies in a region, behind the kernel, and nothing is taken twice.
TakenInv ==
    /\ lastAddr \in Nat
    /\ taken \subseteq Ranges
    /\ \A r \in taken :
          /\ ReservedEnd <= r.start
          /\ Within(r)
          /\ \A s \in taken \ {r} : ~Overlap(r, s)

\* lastAddr is behind all of it.
Behind == ReservedEnd <= lastAddr /\ \A r \in taken : End(r) <= lastAddr

\* Only a failed attempt to take large pages can move lastAddr back, and then the
\* small pages that are tried next are not found either.
StepInv ==
    /\ TakenInv
    /\ phase = "regions" => taken = {}
    /\ tree.pageSize \in {Page, BigPage} /\ tree.size \in Nat
    /\ phase = "trees" /\ tree.left > 0 => tree.size > 0
    /\ phase = "retry" => tree.size > 0
    /\ \/ phase = "panic"
       \/ Stuck /\ phase = "retry"
       \/ Stuck /\ phase = "trees" /\ tree.pageSize = Page /\ tree.left > 0
       \/ Behind

\* The pages of the BuddyAllocator are behind what was taken before it.
GivenInv ==
    /\ phase # "ready" => owned = {} /\ \A c \in Clusters : buddy[c] = {}
    /\ \A c \in Clusters : \A a \in buddy[c] : lastAddr <= a
    /\ \A r \in owned : lastAddr <= r.start

LEMMA AlignUpBounds ==
    ASSUME NEW addr \in Nat, NEW align \in Nat, align > 0
    PROVE  AlignUp(addr, align) \in Nat /\ AlignUp(addr, align) >= addr
<1> DEFINE x == addr + align - 1
           q == x \div align
<1>1. x \in Nat /\ x = addr + align - 1
  OBVIOUS
<1> HIDE DEF x
<1>2. q \in Nat /\ x = align * q + (x % align) /\ x % align \in 0 .. (align - 1)
  BY <1>1
<1>3. AlignUp(addr, align) = q * align
  BY DEF AlignUp, x
<1> HIDE DEF q
<1>4. align * q \in Nat /\ q * align = align * q
  BY <1>2
<1> QED
  BY <1>1, <1>2, <1>3, <1>4

\* Half a page or more needs a page.
LEMMA PagesNeeded ==
    ASSUME NEW size \in Nat, NEW page \in Nat, page > 0
    PROVE  (AlignUp(size, page) \div page > 0) <=> size > 0
<1> DEFINE x == size + page - 1
           q == x \div page
<1>1. x \in Nat /\ x = size + page - 1
  OBVIOUS
<1> HIDE DEF x
<1>2. q \in Nat /\ x = page * q + (x % page) /\ x % page \in 0 .. (page - 1)
  BY <1>1
<1>3. AlignUp(size, page) = q * page
  BY DEF AlignUp, x
<1> HIDE DEF q
<1>4. (q * page) \div page = q
  BY <1>2
<1>5. CASE q = 0
  BY <1>1, <1>2, <1>3, <1>4, <1>5
<1>6. CASE q > 0
  <2>1. page * q >= page
    BY <1>2, <1>6
  <2> QED
    BY <1>1, <1>2, <1>3, <1>4, <1>6, <2>1
<1> QED
  BY <1>2, <1>5, <1>6

LEMMA ClipBounds ==
    ASSUME NEW r \in Ranges, r.size > 0, NEW addr \in Nat, r.start <= addr,
           NEW align \in Nat, align > 0
    PROVE  /\ Clip(r, addr, align) \in Nat
           /\ Clip(r, addr, align) >= r.start
           /\ Clip(r, addr, align) >= addr \/ Clip(r, addr, align) + 1 = End(r)
<1>1. PICK up : up = AlignUp(addr, align) /\ up \in Nat /\ up >= addr
  BY AlignUpBounds
<1>2. Clip(r, addr, align) = IF up > End(r) THEN End(r) - 1 ELSE up
  BY <1>1 DEF Clip
<1> QED
  BY <1>1, <1>2 DEF Ranges, End
-----------------------------------------------------------------------------
\* The regions that Alloc tries, all of them from the one lastAddr is in.
LEMMA StepAllocOk ==
    ASSUME InOrder(regions), lastAddr \in Nat,
           NEW size \in Nat, size >= 2, NEW align \in Nat, align > 0
    PROVE  LET a == StepAlloc(size, align)
           IN  /\ a.ok => /\ a.addr \in Nat /\ a.addr >= lastAddr /\ a.last = a.addr + size
                          /\ Within(Extent(a.addr, size))
                          /\ ~Stuck
               /\ ~a.ok => /\ a.last \in Nat
                           /\ \/ a.last >= lastAddr
                              \/ All # <<>> /\ a.last + 1 = End(All[Len(All)])
<1> DEFINE here  == IF FindRegion(lastAddr) # {} THEN FindRegion(lastAddr)
                    ELSE FindRegion(lastAddr - 1)
           first == Min(here)
           tried == {first} \union NextRegion(first)
           Start(i) == IF i = first THEN lastAddr ELSE All[i].start
           Place(i) == Clip(All[i], Start(i), align)
           fits  == {i \in tried : Place(i) + size <= End(All[i])}
           a == StepAlloc(size, align)
           n == Len(All)
<1>1. a = IF here = {} THEN [ok |-> FALSE, addr |-> 0, last |-> lastAddr]
          ELSE IF fits = {} THEN [ok |-> FALSE, addr |-> 0, last |-> Place(Max(tried))]
          ELSE [ok |-> TRUE, addr |-> Place(Min(fits)), last |-> Place(Min(fits)) + size]
  BY DEF StepAlloc
<1>2. /\ n \in Nat /\ DOMAIN All = 1 .. n
      /\ \A i \in 1 .. n : /\ All[i].start \in Nat /\ All[i].size \in Nat /\ All[i].size > 0
                           /\ All[i] \in Ranges /\ End(All[i]) = All[i].start + All[i].size
      /\ \A i, j \in 1 .. n : i < j => End(All[i]) <= All[j].start
  <2>1. /\ All \in Seq(Ranges)
        /\ \A i \in DOMAIN All : All[i] \in Ranges /\ All[i].size > 0
        /\ \A i, j \in DOMAIN All : i < j => End(All[i]) <= All[j].start
    BY AllInOrder
  <2> QED
    BY <2>1 DEF Ranges, End
<1>3. here \subseteq 1 .. n
  BY <1>2 DEF FindRegion
<1>4. CASE here = {}
  BY <1>1, <1>4
<1>5. CASE here # {}
  <2> HIDE DEF a
  <2>1. first \in here
    <3>1. here \subseteq Nat
      BY <1>2, <1>3
    <3> HIDE DEF here
    <3> QED
      BY <1>5, <3>1, MinIsLeast
  <2>2. first \in 1 .. n /\ All[first].start <= lastAddr /\ lastAddr <= End(All[first])
    <3>1. first \in 1 .. n
      BY <1>3, <2>1
    <3>2. Holds(All[first], lastAddr) \/ Holds(All[first], lastAddr - 1)
      BY <2>1 DEF FindRegion
    <3> HIDE DEF first, here
    <3> QED
      BY <1>2, <3>1, <3>2 DEF Holds
  <2>3. ASSUME Holds(All[n], lastAddr), n > 0
        PROVE  first = n
    <3>1. n \in FindRegion(lastAddr)
      BY <1>2, <2>3 DEF FindRegion
    <3>2. first \in FindRegion(lastAddr)
      BY <2>1, <3>1
    <3>3. lastAddr < End(All[first])
      BY <3>2 DEF FindRegion, Holds
    <3> HIDE DEF first, here
    <3>4. n \in 1 .. n /\ All[n].start <= lastAddr
      BY <1>2, <2>3 DEF Holds
    <3>5. CASE first < n
      <4>1. End(All[first]) <= All[n].start
        BY <1>2, <2>2, <3>4, <3>5
      <4>2. End(All[first]) \in Nat /\ All[n].start \in Nat
        BY <1>2, <2>2, <3>4
      <4> QED
        BY <3>3, <3>4, <4>1, <4>2
    <3> HIDE DEF n
    <3>6. n \in Nat /\ first \in 1 .. n
      BY <1>2, <2>2
    <3> QED
      BY <3>5, <3>6
  <2> HIDE DEF here, first
  <2>4. n \in 1 .. n
    BY <1>2, <2>2
  <2>5. tried = {i \in 1 .. n : i >= first}
    <3>1. ASSUME NEW i \in 1 .. n
          PROVE  i \in tried <=> i >= first
      <4>1. CASE i = first
        BY <2>2, <4>1
      <4>2. CASE i > first
        <5>1. All[i].start > All[first].start
          BY <1>2, <2>2, <4>2
        <5> QED
          BY <1>2, <2>2, <4>2, <5>1 DEF NextRegion
      <4>3. CASE i < first
        <5>1. /\ End(All[i]) <= All[first].start /\ All[i].start < End(All[i])
              /\ All[i].start \in Nat /\ End(All[i]) \in Nat /\ All[first].start \in Nat
          BY <1>2, <2>2, <4>3
        <5>2. ~(All[i].start > All[first].start)
          BY <5>1
        <5> QED
          BY <2>2, <4>3, <5>2 DEF NextRegion
      <4> QED
        BY <2>2, <4>1, <4>2, <4>3
    <3>2. tried \subseteq 1 .. n
      BY <1>2, <2>2 DEF NextRegion
    <3> HIDE DEF tried
    <3> QED
      BY <3>1, <3>2
  <2> HIDE DEF tried
  <2>6. ASSUME NEW i \in tried
        PROVE  /\ i \in 1 .. n
               /\ Start(i) \in Nat /\ All[i].start <= Start(i) /\ lastAddr <= Start(i)
    BY <1>2, <2>2, <2>5
  <2> HIDE DEF Start
  <2>7. ASSUME NEW i \in tried
        PROVE  /\ i \in 1 .. n
               /\ Place(i) \in Nat /\ Place(i) >= All[i].start
               /\ Place(i) >= lastAddr \/ Place(i) + 1 = End(All[i])
    <3>1. /\ Place(i) \in Nat /\ Place(i) >= All[i].start
          /\ Place(i) >= Start(i) \/ Place(i) + 1 = End(All[i])
      BY <1>2, <2>6, ClipBounds
    <3> HIDE DEF Place
    <3> QED
      BY <2>6, <3>1
  <2> HIDE DEF Place
  <2>8. CASE fits = {}
    <3>1. Max(tried) = n
      <4>1. n \in tried /\ \A i \in tried : n >= i
        BY <1>2, <2>2, <2>4, <2>5
      <4>2. \A m \in tried : (\A i \in tried : m >= i) => m = n
        <5> SUFFICES ASSUME NEW m \in tried, \A i \in tried : m >= i
                     PROVE  m = n
          OBVIOUS
        <5>1. m >= n /\ n >= m
          BY <4>1
        <5>2. m \in 1 .. n
          BY <2>5
        <5> HIDE DEF n
        <5> QED
          BY <1>2, <5>1, <5>2
      <4> HIDE DEF n
      <4> QED
        BY <4>1, <4>2 DEF Max
    <3>2. n \in tried /\ All # <<>>
      BY <1>2, <2>2, <2>4, <2>5
    <3>3. ~a.ok /\ a.last = Place(n)
      BY <1>1, <1>5, <2>8, <3>1
    <3> QED
      BY <2>7, <3>2, <3>3 DEF a
  <2>9. CASE fits # {}
    <3>1. Min(fits) \in fits
      <4>1. fits \subseteq Nat
        BY <2>5
      <4> HIDE DEF fits
      <4> QED
        BY <2>9, <4>1, MinIsLeast
    <3>2. PICK i \in tried : i = Min(fits) /\ Place(i) + size <= End(All[i])
      BY <3>1
    <3>3. a.ok /\ a.addr = Place(i) /\ a.last = Place(i) + size
      BY <1>1, <1>5, <2>9, <3>2
    <3> HIDE DEF fits
    <3>4. Place(i) \in Nat /\ Place(i) >= lastAddr /\ i \in 1 .. n /\ Place(i) >= All[i].start
      BY <1>2, <2>7, <3>2
    <3>5. Within(Extent(a.addr, size))
      BY <1>2, <3>2, <3>3, <3>4 DEF Within, Extent, End
    <3>6. ~Stuck
      <4> SUFFICES ASSUME Stuck PROVE FALSE
        OBVIOUS
      <4>1. lastAddr + 1 = End(All[n])
        BY DEF Stuck
      <4>2. Holds(All[n], lastAddr)
        BY <1>2, <2>4, <4>1 DEF Holds
      <4>3. i = n
        <5>1. first = n
          BY <1>2, <2>3, <2>4, <4>2
        <5>2. i \in 1 .. n /\ i >= n
          BY <2>5, <5>1
        <5> HIDE DEF n
        <5> QED
          BY <1>2, <5>2
      <4> QED
        BY <1>2, <3>2, <3>4, <4>1, <4>3
    <3> QED
      BY <3>3, <3>4, <3>5, <3>6 DEF a
  <2> QED
    BY <2>8, <2>9
<1> QED
  BY <1>4, <1>5

\* A range that Alloc finds is a new one, and lastAddr moves behind it.
LEMMA TakeKeeps ==
    ASSUME InOrder(regions), TakenInv, Stuck \/ Behind, UNCHANGED regions,
           NEW size \in Nat, size >= 2, NEW align \in Nat, align > 0, Take(size, align)
    PROVE  TakenInv' /\ Behind'
<1>1. PICK a : a = StepAlloc(size, align)
  OBVIOUS
<1>2. a.ok /\ lastAddr' = a.last /\ taken' = taken \union {Extent(a.addr, size)}
  BY <1>1 DEF Take
<1>3. lastAddr \in Nat /\ taken \subseteq Ranges
  BY DEF TakenInv
<1>4. /\ a.addr \in Nat /\ a.addr >= lastAddr /\ a.last = a.addr + size
      /\ Within(Extent(a.addr, size)) /\ ~Stuck
  BY <1>1, <1>2, <1>3, StepAllocOk
<1>5. Behind
  BY <1>4
<1>6. PICK new \in Ranges : new = Extent(a.addr, size) /\ new.start = a.addr /\ End(new) = a.last
  <2>1. Extent(a.addr, size) \in Ranges
    BY <1>4 DEF Extent, Ranges
  <2> QED
    BY <1>4, <2>1 DEF Extent, End
<1>7. ReservedEnd \in Nat
  BY SizeAssumption DEF ReservedEnd
<1>8. \A r : Within(r)' <=> Within(r)
  BY DEF Within, All
<1>9. \A r \in taken : ~Overlap(r, new) /\ ~Overlap(new, r)
  BY <1>3, <1>4, <1>5, <1>6 DEF Behind, Overlap, End, Ranges
<1>10. lastAddr' \in Nat /\ taken' \subseteq Ranges
  BY <1>2, <1>3, <1>4, <1>6
<1>11. ASSUME NEW r \in taken'
       PROVE  /\ ReservedEnd <= r.start
              /\ Within(r)'
              /\ \A s \in taken' \ {r} : ~Overlap(r, s)
              /\ End(r) <= lastAddr'
  <2>1. CASE r = new
    <3>1. ReservedEnd <= r.start
      BY <1>3, <1>4, <1>5, <1>6, <1>7, <2>1 DEF Behind
    <3> QED
      BY <1>2, <1>4, <1>6, <1>8, <1>9, <2>1, <3>1
  <2>2. CASE r \in taken
    <3>1. End(r) <= lastAddr'
      BY <1>2, <1>3, <1>4, <1>5, <2>2 DEF Behind, End, Ranges
    <3>2. ReservedEnd <= r.start /\ Within(r)'
      BY <1>8, <2>2 DEF TakenInv
    <3>3. \A s \in taken' \ {r} : ~Overlap(r, s)
      BY <1>2, <1>6, <1>9, <2>2 DEF TakenInv
    <3> QED
      BY <3>1, <3>2, <3>3
  <2> QED
    BY <1>2, <1>6, <2>1, <2>2
<1>12. ReservedEnd <= lastAddr'
  BY <1>2, <1>3, <1>4, <1>5, <1>7 DEF Behind
<1>13. TakenInv'
  BY <1>10, <1>11 DEF TakenInv, ReservedEnd
<1>14. Behind'
  BY <1>11, <1>12 DEF Behind, ReservedEnd
<1> QED
  BY <1>13, <1>14

-----------------------------------------------------------------------------
LEMMA PageSizes ==
    Page \in Nat /\ Page >= 2 /\ BigPage \in Nat /\ BigPage >= 2
<1>1. Page \in Nat /\ Page >= 2 /\ Fanout \in Nat /\ Fanout >= 1 /\ BigPage = Fanout * Page
  BY SizeAssumption
<1>2. Fanout * Page >= Page
  BY <1>1
<1> QED
  BY <1>1, <1>2

\* Nothing of this changes while nothing is taken.
LEMMA StepUntouched ==
    ASSUME TakenInv, UNCHANGED <<regions, lastAddr, taken>>
    PROVE  TakenInv' /\ (Behind => Behind') /\ (Stuck => Stuck')
<1>1. \A r : Within(r)' <=> Within(r)
  BY DEF Within, All
<1>2. TakenInv'
  BY <1>1 DEF TakenInv, ReservedEnd
<1>3. (Behind => Behind') /\ (Stuck => Stuck')
  BY DEF Behind, Stuck, All, ReservedEnd
<1> QED
  BY <1>2, <1>3

LEMMA StepInit == Init => StepInv
<1> SUFFICES ASSUME Init
             PROVE  StepInv
  OBVIOUS
<1>1. /\ lastAddr = ReservedEnd /\ taken = {} /\ phase = "regions"
      /\ tree = [cluster |-> "lower", size |-> 0, pageSize |-> Page, left |-> 0]
  BY DEF Init, BootInit
<1>2. ReservedEnd \in Nat
  BY SizeAssumption DEF ReservedEnd
<1>3. TakenInv
  BY <1>1, <1>2 DEF TakenInv
<1>4. Behind
  BY <1>1, <1>2 DEF Behind
<1> QED
  BY <1>1, <1>3, <1>4 DEF StepInv

\* AllocAndMap begins, or panics for want of a page table.
LEMMA BeginTreeStep ==
    ASSUME RegionInv, StepInv, NEW c, NEW size \in Nat, NEW pageSize \in {Page, BigPage},
           BeginTree(c, size, pageSize),
           Behind \/ (Stuck /\ pageSize = Page /\ size > 0)
    PROVE  StepInv'
<1>1. Page \in Nat /\ Page >= 2 /\ pageSize \in Nat /\ pageSize > 0
  BY PageSizes
<1>2. PICK table \in BOOLEAN :
          IF table /\ ~StepAlloc(Page, Page).ok THEN Panic
          ELSE /\ tree' = [cluster |-> c, size |-> size, pageSize |-> pageSize,
                           left |-> AlignUp(size, pageSize) \div pageSize]
               /\ phase' = "trees"
               /\ IF table THEN Take(Page, Page) ELSE UNCHANGED <<lastAddr, taken>>
               /\ UNCHANGED <<mmap, read, regions, mapVars, buddy, owned>>
  BY DEF BeginTree
<1>3. CASE Panic
  <2>1. TakenInv'
    BY <1>3, StepUntouched DEF Panic, StepInv
  <2> QED
    BY <1>3, <2>1 DEF Panic, StepInv
<1>4. CASE ~Panic
  <2>1. /\ phase' = "trees" /\ UNCHANGED regions
        /\ tree'.size = size /\ tree'.pageSize = pageSize
        /\ tree'.left = AlignUp(size, pageSize) \div pageSize
        /\ Take(Page, Page) \/ UNCHANGED <<lastAddr, taken>>
    BY <1>2, <1>4
  <2>2. tree'.left > 0 <=> size > 0
    BY <1>1, <2>1, PagesNeeded
  <2>3. TakenInv' /\ (Behind' \/ (Stuck' /\ pageSize = Page /\ size > 0))
    <3>1. CASE Take(Page, Page)
      BY <1>1, <2>1, <3>1, TakeKeeps DEF RegionInv, StepInv
    <3>2. CASE UNCHANGED <<lastAddr, taken>>
      BY <2>1, <3>2, StepUntouched DEF StepInv
    <3> QED
      BY <2>1, <3>1, <3>2
  <2> QED
    BY <2>1, <2>2, <2>3 DEF StepInv
<1> QED
  BY <1>3, <1>4

\* A page of the trees is taken; when a large one is not found, lastAddr may move back.
LEMMA TreePageStep ==
    ASSUME RegionInv, StepInv, TreePage
    PROVE  StepInv'
<1> DEFINE a == StepAlloc(tree.pageSize, tree.pageSize)
<1>1. phase = "trees" /\ tree.left > 0 /\ tree.size > 0 /\ (Stuck \/ Behind)
  BY DEF TreePage, StepInv
<1>2. tree.pageSize \in Nat /\ tree.pageSize >= 2 /\ tree.pageSize > 0
  BY PageSizes DEF StepInv
<1>3. CASE a.ok
  <2>1. /\ Take(tree.pageSize, tree.pageSize)
        /\ tree' = [tree EXCEPT !.left = @ - 1]
        /\ UNCHANGED <<phase, regions>>
    BY <1>3 DEF TreePage
  <2>2. TakenInv' /\ Behind'
    BY <1>1, <1>2, <2>1, TakeKeeps DEF RegionInv, StepInv
  <2>3. tree'.size = tree.size /\ tree'.pageSize = tree.pageSize
    BY <2>1
  <2> QED
    BY <1>1, <2>1, <2>2, <2>3 DEF StepInv
<1>4. CASE ~a.ok
  <2>1. CASE Panic
    <3>1. TakenInv'
      BY <2>1, StepUntouched DEF Panic, StepInv
    <3> QED
      BY <2>1, <3>1 DEF Panic, StepInv
  <2>2. CASE ~Panic
    <3>1. /\ lastAddr' = a.last /\ phase' = "retry" /\ tree.pageSize # Page
          /\ UNCHANGED <<regions, taken, tree>>
      BY <1>4, <2>2 DEF TreePage
    <3>2. Behind
      BY <1>1, <3>1 DEF StepInv
    <3>3. /\ a.last \in Nat
          /\ a.last >= lastAddr \/ (All # <<>> /\ a.last + 1 = End(All[Len(All)]))
      BY <1>2, <1>4, StepAllocOk DEF RegionInv, StepInv, TakenInv
    <3> HIDE DEF a
    <3>4. \A r : Within(r)' <=> Within(r)
      BY <3>1 DEF Within, All
    <3>5. TakenInv'
      BY <3>1, <3>3, <3>4 DEF TakenInv, StepInv, ReservedEnd
    <3>6. CASE a.last >= lastAddr
      <4>1. ReservedEnd \in Nat /\ lastAddr \in Nat /\ \A r \in taken : End(r) \in Nat
        BY SizeAssumption DEF ReservedEnd, StepInv, TakenInv, Ranges, End
      <4>2. ReservedEnd <= a.last /\ \A r \in taken : End(r) <= a.last
        BY <3>2, <3>3, <3>6, <4>1 DEF Behind
      <4>3. Behind'
        BY <3>1, <4>2 DEF Behind, ReservedEnd
      <4> QED
        BY <1>1, <3>1, <3>5, <4>3 DEF StepInv
    <3>7. CASE All # <<>> /\ a.last + 1 = End(All[Len(All)])
      <4>1. Stuck'
        BY <3>1, <3>7 DEF Stuck, All
      <4> QED
        BY <1>1, <3>1, <3>5, <4>1 DEF StepInv
    <3> QED
      BY <3>3, <3>6, <3>7
  <2> QED
    BY <2>1, <2>2
<1> QED
  BY <1>3, <1>4

LEMMA StepStep == RegionInv /\ StepInv /\ [Next]_vars => StepInv'
<1> SUFFICES ASSUME RegionInv, StepInv, [Next]_vars
             PROVE  StepInv'
  OBVIOUS
<1>1. Page \in Nat /\ Page >= 2 /\ Page > 0
  BY PageSizes
<1>2. phase \notin {"panic", "retry", "trees"} => Behind
  BY DEF StepInv
<1>3. CASE Panic
  <2>1. TakenInv'
    BY <1>3, StepUntouched DEF Panic, StepInv
  <2> QED
    BY <1>3, <2>1 DEF Panic, StepInv
<1>4. CASE /\ phase \notin {"panic", "retry", "trees"} /\ phase' \in {"pdpt", "map"}
           /\ UNCHANGED <<regions, tree>>
           /\ Take(Page, Page) \/ UNCHANGED <<lastAddr, taken>>
  <2>1. TakenInv' /\ Behind'
    <3>1. CASE Take(Page, Page)
      BY <1>1, <1>2, <1>4, <3>1, TakeKeeps DEF RegionInv, StepInv
    <3>2. CASE UNCHANGED <<lastAddr, taken>>
      BY <1>2, <1>4, <3>2, StepUntouched DEF StepInv
    <3> QED
      BY <1>4, <3>1, <3>2
  <2> QED
    BY <1>4, <2>1 DEF StepInv
<1>5. CASE ReadEntry /\ ~Panic
  <2>1. phase = "regions" /\ UNCHANGED <<phase, lastAddr, taken, tree>> /\ taken = {}
    BY <1>5 DEF ReadEntry, StepInv
  <2>2. TakenInv' /\ Behind'
    BY <1>2, <2>1 DEF TakenInv, Behind, StepInv, ReservedEnd
  <2> QED
    BY <2>1, <2>2 DEF StepInv
<1>6. CASE TakeRoot /\ ~Panic
  BY <1>4, <1>6 DEF TakeRoot
<1>7. CASE TakePdpt /\ ~Panic
  BY <1>4, <1>7 DEF TakePdpt
<1>8. CASE MapNext /\ ~Panic
  BY <1>4, <1>8 DEF MapNext
<1>9. ASSUME NEW c \in Clusters, StartCluster(c)
      PROVE  StepInv'
  <2>1. phase \in {"map", "upper"}
    BY <1>9 DEF StartCluster
  <2>2. PICK size \in TreeSizes :
            BeginTree(c, size, IF size % BigPage = 0 THEN BigPage ELSE Page)
    BY <1>9 DEF StartCluster
  <2>3. size \in Nat
    BY SizeAssumption
  <2> QED
    BY <1>2, <2>1, <2>2, <2>3, BeginTreeStep
<1>10. CASE RetrySmall
  <2>1. phase = "retry" /\ BeginTree(tree.cluster, tree.size, Page)
    BY <1>10 DEF RetrySmall
  <2>2. tree.size \in Nat /\ tree.size > 0 /\ (Behind \/ Stuck)
    BY <2>1 DEF StepInv
  <2> QED
    BY <2>1, <2>2, BeginTreeStep
<1>11. CASE TreePage
  BY <1>11, TreePageStep
<1>12. CASE EndCluster \/ Reserve
  <2>1. /\ UNCHANGED <<regions, lastAddr, taken, tree>>
        /\ phase' \in {"upper", "reserve", "ready"} /\ Behind
    BY <1>12 DEF EndCluster, Reserve, StepInv
  <2>2. TakenInv' /\ Behind'
    BY <2>1, StepUntouched DEF StepInv
  <2> QED
    BY <2>1, <2>2 DEF StepInv
<1>13. CASE ~BootNext
  <2>1. UNCHANGED bootVars
    BY <1>13 DEF Next, vars, AllocPhys, AllocLower, FreePhys, Alloc, Free, Search, NotFound,
                CreateSegment, Owns, FreeBlock, ReserveSegment, AllocPage, MapPage, UnmapPage,
                FreePage
  <2>2. UNCHANGED <<phase, regions, lastAddr, taken, tree>>
    BY <2>1 DEF bootVars
  <2>3. TakenInv' /\ (Behind => Behind') /\ (Stuck => Stuck')
    BY <2>2, StepUntouched DEF StepInv
  <2> QED
    BY <2>2, <2>3 DEF StepInv
<1> QED
  BY <1>3, <1>5, <1>6, <1>7, <1>8, <1>9, <1>10, <1>11, <1>12, <1>13 DEF BootNext

LEMMA StepAlways == Spec => []StepInv
  BY StepInit, StepStep, RegionAlways, PTL DEF Spec

LEMMA GivenStep ==
    StepInv /\ BuddyInv /\ HeapType /\ GivenInv /\ [Next]_vars => GivenInv'
<1> SUFFICES ASSUME StepInv, BuddyInv, HeapType, GivenInv, [Next]_vars
             PROVE  GivenInv'
  OBVIOUS
<1>1. /\ buddy \in [Clusters -> SUBSET Nat] /\ owned \subseteq Ranges
      /\ lastAddr \in Nat /\ Page \in Nat
  BY SizeAssumption DEF BuddyInv, StepInv, TakenInv
<1>2. ASSUME phase = "ready", UNCHANGED <<phase, lastAddr>>, NEW size \in Nat,
             NEW a \in AllFits(size, size) \union LowerFits(size, size), Give(a, size)
      PROVE  GivenInv'
  <2>1. \A c \in Clusters : \A b \in buddy'[c] : b \in buddy[c]
    BY <1>2 DEF Give
  <2>2. owned' = owned \union {Extent(a, size)} /\ Extent(a, size).start = a
    BY <1>2 DEF Give, Extent
  <2>3. PICK c \in Clusters : a \in buddy[c]
    BY <1>2, FitsIn
  <2>4. lastAddr <= a
    BY <2>3 DEF GivenInv
  <2> QED
    BY <1>2, <2>1, <2>2, <2>4 DEF GivenInv
<1>3. ASSUME phase = "ready", UNCHANGED <<phase, lastAddr>>, NEW a, Release(a)
      PROVE  GivenInv'
  <2> DEFINE back == UNION {PagesIn(r) : r \in Freed(a)}
  <2>1. owned' \subseteq owned /\ buddy' = [buddy EXCEPT ![ClusterOf(a)] = @ \union back]
    BY <1>3 DEF Release
  <2>2. \A p \in back : lastAddr <= p
    <3> SUFFICES ASSUME NEW r \in owned, NEW p \in PagesIn(r)
                 PROVE  lastAddr <= p
      BY DEF Freed
    <3>1. r \in Ranges /\ p \in Nat /\ r.start <= p
      BY <1>1, PagesInType
    <3>2. lastAddr <= r.start /\ r.start \in Nat
      BY <3>1 DEF GivenInv, Ranges
    <3> QED
      BY <1>1, <3>1, <3>2
  <2> HIDE DEF back
  <2>3. \A c \in Clusters : \A b \in buddy'[c] : b \in buddy[c] \/ b \in back
    BY <1>1, <2>1
  <2> QED
    BY <1>3, <2>1, <2>2, <2>3 DEF GivenInv
<1>4. CASE Reserve
  <2>1. /\ buddy' = [c \in Clusters |-> PagesOf(regions[c], ReservedUpTo)]
        /\ owned' = {} /\ lastAddr' = lastAddr /\ phase' = "ready"
    BY <1>4 DEF Reserve, GivenInv
  <2>2. \A c \in Clusters : \A a \in buddy'[c] : lastAddr <= a
    <3> SUFFICES ASSUME NEW c \in Clusters, NEW a \in PagesOf(regions[c], lastAddr)
                 PROVE  lastAddr <= a
      BY <2>1 DEF ReservedUpTo
    <3> QED
      BY <1>1 DEF PagesOf
  <2> QED
    BY <2>1, <2>2 DEF GivenInv
<1>5. CASE BootNext /\ ~Reserve
  <2>1. phase # "ready" /\ phase' # "ready" /\ UNCHANGED <<buddy, owned>>
    BY <1>5 DEF BootNext, ReadEntry, TakeRoot, TakePdpt, MapNext, StartCluster, RetrySmall,
                BeginTree, TreePage, EndCluster, Panic
  <2> QED
    BY <2>1 DEF GivenInv
<1>6. CASE UNCHANGED <<phase, lastAddr, buddy, owned>>
  BY <1>6 DEF GivenInv
<1>7. CASE AllocPhys \/ AllocLower
  <2>1. phase = "ready" /\ UNCHANGED <<phase, lastAddr>>
    BY <1>7 DEF AllocPhys, AllocLower, bootVars
  <2>2. \E a \in AllFits(Page, Page) \union LowerFits(Page, Page) : Give(a, Page)
    BY <1>7 DEF AllocPhys, AllocLower
  <2> QED
    BY <1>1, <1>2, <2>1, <2>2
<1>8. CASE FreePhys
  BY <1>3, <1>8 DEF FreePhys, bootVars
<1>9. ASSUME NEW c \in Cpus, AllocPage(c)
      PROVE  GivenInv'
  <2>1. phase = "ready" /\ UNCHANGED <<phase, lastAddr>>
    BY <1>9 DEF AllocPage, At, bootVars
  <2>2. cpu[c].pageSize \in Nat
    <3>1. cpu[c] \in States
      BY DEF HeapType
    <3> QED
      BY <3>1, SizeAssumption DEF States
  <2>3. \/ UNCHANGED <<buddy, owned>>
        \/ \E f \in AllFits(cpu[c].pageSize, cpu[c].pageSize) : Give(f, cpu[c].pageSize)
    BY <1>9 DEF AllocPage
  <2> QED
    BY <1>2, <1>6, <2>1, <2>2, <2>3
<1>10. ASSUME NEW c \in Cpus, FreePage(c)
       PROVE  GivenInv'
  BY <1>3, <1>10 DEF FreePage, At, bootVars
<1>11. ASSUME NEW c \in Cpus,
              \/ \E size \in BlockSizes : Alloc(c, size)
              \/ \E b \in blocks : Free(c, b)
              \/ Search(c) \/ NotFound(c) \/ CreateSegment(c) \/ Owns(c) \/ FreeBlock(c)
              \/ ReserveSegment(c) \/ MapPage(c) \/ UnmapPage(c)
       PROVE  UNCHANGED <<phase, lastAddr, buddy, owned>>
  BY <1>11 DEF Alloc, Free, Search, NotFound, CreateSegment, Owns, FreeBlock, ReserveSegment,
               MapPage, UnmapPage, bootVars
<1>12. CASE UNCHANGED vars
  BY <1>6, <1>12 DEF vars, bootVars
<1> QED
  BY <1>4, <1>5, <1>6, <1>7, <1>8, <1>9, <1>10, <1>11, <1>12 DEF Next

LEMMA GivenInit == Init => GivenInv
  BY DEF Init, BootInit, GivenInv

LEMMA GivenAlways == Spec => []GivenInv
<1>1. Inv => BuddyInv /\ HeapType
  BY DEF Inv
<1> QED
  BY <1>1, GivenInit, GivenStep, StepAlways, InvAlways, PTL DEF Spec

\* What was taken before the BuddyAllocator existed is memory, is taken once, is not
\* part of the kernel, and is never free or handed out afterwards.
THEOREM BootMemoryIsKept == Spec => []BootMemoryKept
<1>1. StepInv /\ GivenInv /\ BuddyInv => BootMemoryKept
  <2> SUFFICES ASSUME StepInv, GivenInv, BuddyInv
               PROVE  BootMemoryKept
    OBVIOUS
  <2> DEFINE kernel == Extent(0, ReservedEnd)
             given == owned \union {Extent(a, Page) : a \in buddy.lower \union buddy.upper}
  <2>1. /\ kernel.start = 0 /\ End(kernel) = ReservedEnd /\ ReservedEnd \in Nat
        /\ lastAddr \in Nat /\ taken \subseteq Ranges
    BY SizeAssumption DEF StepInv, TakenInv, Extent, End, ReservedEnd
  <2>2. \A r \in taken : r.start \in Nat /\ End(r) \in Nat
    BY <2>1 DEF Ranges, End
  <2>3. \A r \in taken : ~Overlap(r, kernel)
    BY <2>1, <2>2 DEF StepInv, TakenInv, Overlap
  <2>4. \A s \in given : phase = "ready" /\ s.start \in Nat /\ lastAddr <= s.start
    <3>1. \A s \in owned : phase = "ready" /\ s.start \in Nat /\ lastAddr <= s.start
      BY DEF GivenInv, BuddyInv, Ranges
    <3>2. \A a \in buddy.lower \union buddy.upper :
             phase = "ready" /\ a \in Nat /\ lastAddr <= a
      BY DEF GivenInv, BuddyInv, Clusters
    <3>3. \A a : Extent(a, Page).start = a
      BY DEF Extent
    <3> QED
      BY <3>1, <3>2, <3>3
  <2>5. ASSUME NEW r \in taken \union {kernel}, NEW s \in given
        PROVE  ~Overlap(r, s)
    <3>1. Behind /\ s.start \in Nat /\ lastAddr <= s.start
      BY <2>4 DEF StepInv
    <3>2. End(r) <= lastAddr /\ End(r) \in Nat
      BY <2>1, <2>2, <3>1 DEF Behind
    <3> HIDE DEF given, kernel
    <3> QED
      BY <2>1, <3>1, <3>2 DEF Overlap
  <2>6. ASSUME NEW r \in taken
        PROVE  /\ \E i \in DOMAIN All : r.start >= All[i].start /\ End(r) <= End(All[i])
               /\ \A s \in (taken \union {kernel}) \ {r} : ~Overlap(r, s)
    BY <2>3 DEF StepInv, TakenInv, Within
  <2> QED
    BY <2>5, <2>6 DEF BootMemoryKept
<1>2. Inv => BuddyInv
  BY DEF Inv
<1> QED
  BY <1>1, <1>2, StepAlways, GivenAlways, InvAlways, PTL

=============================================================================
