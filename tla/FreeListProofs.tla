---------------------------- MODULE FreeListProofs ----------------------------
(***************************************************************************)
(* Proofs about FreeList, for every arena, size of the address space, and  *)
(* number of callers: no address is lost.  The list may overlap itself and *)
(* need not be in order, because a region that is allocated from the front *)
(* keeps its size; the invariant says that no region wraps around, and     *)
(* that what the list and the callers have covers the arena.               *)
(***************************************************************************)
EXTENDS FreeList, TLAPS, WellFoundedInduction

-----------------------------------------------------------------------------
(* Regions.                                                                *)

\* Regions that end before the end of the address space.
Whole == {r \in [start : Nat, size : Nat \ {0}] : r.start + r.size < AddrMod}

Inside(a, r) == r.start <= a /\ a < r.start + r.size

Has(l, r) == \E k \in DOMAIN l : l[k] = r

\* Some region of a list has the address.
In(l, a) == \E i \in DOMAIN l : Inside(a, l[i])

LEMMA SmallMod ==
    ASSUME NEW x \in Nat, x < AddrMod
    PROVE  x % AddrMod = x
  BY ModAssumption

\* A region does not wrap around.
LEMMA WholeRegion ==
    ASSUME NEW r \in Whole
    PROVE  /\ r.start \in Nat /\ r.size \in Nat /\ r.size > 0
           /\ End(r) = r.start + r.size /\ End(r) \in Nat /\ End(r) > 0 /\ End(r) < AddrMod
           /\ \A a : a \in PagesOf(r) <=> a \in Nat /\ Inside(a, r)
<1>1. /\ r.start \in Nat /\ r.size \in Nat /\ r.size > 0
      /\ r.start + r.size \in Nat /\ r.start + r.size < AddrMod
  BY DEF Whole
<1>2. End(r) = r.start + r.size
  BY <1>1, SmallMod DEF End, Plus
<1>3. \A i \in 0 .. (r.size - 1) : Plus(r.start, i) = r.start + i
  <2> SUFFICES ASSUME NEW i \in 0 .. (r.size - 1)
               PROVE  Plus(r.start, i) = r.start + i
    OBVIOUS
  <2>1. r.start + i \in Nat /\ r.start + i < AddrMod
    BY <1>1, ModAssumption
  <2> QED
    BY <2>1, SmallMod DEF Plus
<1>4. ASSUME NEW a
      PROVE  a \in PagesOf(r) <=> a \in Nat /\ Inside(a, r)
  <2>1. ASSUME a \in PagesOf(r)
        PROVE  a \in Nat /\ Inside(a, r)
    <3>1. PICK i \in 0 .. (r.size - 1) : a = Plus(r.start, i)
      BY <2>1 DEF PagesOf
    <3> QED
      BY <1>1, <1>3, <3>1 DEF Inside
  <2>2. ASSUME a \in Nat, Inside(a, r)
        PROVE  a \in PagesOf(r)
    <3>1. a - r.start \in 0 .. (r.size - 1) /\ r.start + (a - r.start) = a
      BY <1>1, <2>2 DEF Inside
    <3>2. a = Plus(r.start, a - r.start)
      BY <1>3, <3>1
    <3> QED
      BY <3>1, <3>2 DEF PagesOf
  <2> QED
    BY <2>1, <2>2
<1> QED
  BY <1>1, <1>2, <1>4

LEMMA NewRegion ==
    ASSUME NEW start \in Nat, NEW size \in Nat, size > 0, start + size < AddrMod
    PROVE  /\ Region(start, size) \in Whole
           /\ Region(start, size).start = start /\ Region(start, size).size = size
  BY DEF Region, Whole

-----------------------------------------------------------------------------
(* Lists.                                                                  *)

LEMMA Removed ==
    ASSUME NEW S, NEW l \in Seq(S), NEW i \in 1 .. Len(l)
    PROVE  /\ RemoveAt(l, i) \in Seq(S)
           /\ \A j \in 1 .. Len(l) : j # i => Has(RemoveAt(l, i), l[j])
<1>1. PICK before : before = SubSeq(l, 1, i - 1)
  OBVIOUS
<1>2. PICK after : after = SubSeq(l, i + 1, Len(l))
  OBVIOUS
<1>3. i \in Nat /\ Len(l) \in Nat /\ i >= 1 /\ i <= Len(l)
  OBVIOUS
<1>4. before \in Seq(S) /\ Len(before) = i - 1 /\ \A j \in 1 .. (i - 1) : before[j] = l[j]
  BY <1>1, <1>3
<1>5. after \in Seq(S) /\ Len(after) = Len(l) - i
  BY <1>2, <1>3
<1>6. \A j \in 1 .. (Len(l) - i) : after[j] = l[i + j]
  BY <1>2, <1>3
<1>7. PICK new : new = before \o after
  OBVIOUS
<1>8. new \in Seq(S) /\ Len(new) = Len(l) - 1
  <2>1. before \in Seq(S) /\ after \in Seq(S)
    BY <1>4, <1>5
  <2>2. Len(before \o after) = Len(before) + Len(after) /\ before \o after \in Seq(S)
    BY <2>1
  <2> QED
    BY <1>3, <1>4, <1>5, <1>7, <2>2
<1>9. \A j \in 1 .. (i - 1) : new[j] = before[j]
  BY <1>3, <1>4, <1>5, <1>7
<1>10. \A j \in i .. (Len(l) - 1) : new[j] = after[j - (i - 1)]
  BY <1>3, <1>4, <1>5, <1>7
<1>11. ASSUME NEW j \in 1 .. Len(l), j # i
       PROVE  Has(new, l[j])
  <2>1. CASE j < i
    <3>1. j \in DOMAIN new /\ new[j] = l[j]
      BY <1>3, <1>4, <1>8, <1>9, <2>1
    <3> QED
      BY <3>1 DEF Has
  <2>2. CASE j > i
    <3>1. j - 1 \in i .. (Len(l) - 1) /\ j - i \in 1 .. (Len(l) - i)
          /\ (j - 1) - (i - 1) = j - i /\ i + (j - i) = j
      BY <1>3, <2>2
    <3>2. new[j - 1] = l[j]
      BY <1>6, <1>10, <3>1
    <3>3. j - 1 \in DOMAIN new
      BY <1>3, <1>8, <3>1
    <3> QED
      BY <3>2, <3>3 DEF Has
  <2> QED
    BY <1>3, <1>11, <2>1, <2>2
<1>12. RemoveAt(l, i) = new
  BY <1>1, <1>2, <1>7 DEF RemoveAt
<1> QED
  BY <1>8, <1>11, <1>12

\* A list with new entry g in place of those from i to m; none of them if m = i - 1.
LEMMA Spliced ==
    ASSUME NEW S, NEW l \in Seq(S), NEW g \in S, NEW i \in 1 .. (Len(l) + 1),
           NEW m \in (i - 1) .. Len(l)
    PROVE  LET new == SubSeq(l, 1, i - 1) \o <<g>> \o SubSeq(l, m + 1, Len(l))
           IN  /\ new \in Seq(S)
               /\ Has(new, g)
               /\ \A j \in 1 .. Len(l) : j < i \/ j > m => Has(new, l[j])
<1>1. PICK before : before = SubSeq(l, 1, i - 1)
  OBVIOUS
<1>2. PICK after : after = SubSeq(l, m + 1, Len(l))
  OBVIOUS
<1>3. i \in Nat /\ Len(l) \in Nat /\ m \in Nat /\ i >= 1 /\ m >= i - 1 /\ m <= Len(l)
  OBVIOUS
<1>4. before \in Seq(S) /\ Len(before) = i - 1 /\ \A j \in 1 .. (i - 1) : before[j] = l[j]
  BY <1>1, <1>3
<1>5. after \in Seq(S) /\ Len(after) = Len(l) - m
  BY <1>2, <1>3
<1>6. \A j \in 1 .. (Len(l) - m) : after[j] = l[m + j]
  BY <1>2, <1>3
<1>7. PICK mid : mid = before \o <<g>>
  OBVIOUS
<1>8. mid \in Seq(S) /\ Len(mid) = i /\ mid[i] = g /\ \A j \in 1 .. (i - 1) : mid[j] = before[j]
  BY <1>3, <1>4, <1>7
<1>9. PICK new : new = mid \o after
  OBVIOUS
<1>10. new \in Seq(S) /\ Len(new) = i + (Len(l) - m)
  <2>1. Len(mid \o after) = Len(mid) + Len(after) /\ mid \o after \in Seq(S)
    BY <1>5, <1>8
  <2> QED
    BY <1>3, <1>5, <1>8, <1>9, <2>1
<1>11. \A j \in 1 .. i : new[j] = mid[j]
  BY <1>3, <1>5, <1>8, <1>9
<1>12. \A j \in (i + 1) .. (i + (Len(l) - m)) : new[j] = after[j - i]
  BY <1>3, <1>5, <1>8, <1>9
<1>13. i \in DOMAIN new /\ new[i] = g
  BY <1>3, <1>8, <1>10, <1>11
<1>14. ASSUME NEW j \in 1 .. Len(l), j < i \/ j > m
       PROVE  Has(new, l[j])
  <2>1. CASE j < i
    <3>1. j \in DOMAIN new /\ new[j] = l[j]
      BY <1>3, <1>4, <1>8, <1>10, <1>11, <2>1
    <3> QED
      BY <3>1 DEF Has
  <2>2. CASE j > m
    <3>1. /\ j - m \in 1 .. (Len(l) - m) /\ m + (j - m) = j
          /\ i + (j - m) \in (i + 1) .. (i + (Len(l) - m)) /\ i + (j - m) - i = j - m
      BY <1>3, <2>2
    <3>2. new[i + (j - m)] = l[j]
      BY <1>6, <1>12, <3>1
    <3>3. i + (j - m) \in DOMAIN new
      BY <1>3, <1>10, <3>1
    <3> QED
      BY <3>2, <3>3 DEF Has
  <2> QED
    BY <1>14, <2>1, <2>2
<1>15. new = SubSeq(l, 1, i - 1) \o <<g>> \o SubSeq(l, m + 1, Len(l))
  BY <1>1, <1>2, <1>7, <1>9
<1> QED
  BY <1>10, <1>13, <1>14, <1>15 DEF Has

LEMMA Inserted ==
    ASSUME NEW S, NEW l \in Seq(S), NEW g \in S, NEW i \in 1 .. (Len(l) + 1)
    PROVE  /\ InsertAt(l, i, g) \in Seq(S)
           /\ Has(InsertAt(l, i, g), g)
           /\ \A j \in 1 .. Len(l) : Has(InsertAt(l, i, g), l[j])
<1>1. PICK m : m = i - 1
  OBVIOUS
<1>2. m \in (i - 1) .. Len(l) /\ m + 1 = i /\ \A j \in 1 .. Len(l) : j < i \/ j > m
  BY <1>1
<1>3. PICK new : new = SubSeq(l, 1, i - 1) \o <<g>> \o SubSeq(l, m + 1, Len(l))
  OBVIOUS
<1>4. /\ new \in Seq(S) /\ Has(new, g)
      /\ \A j \in 1 .. Len(l) : j < i \/ j > m => Has(new, l[j])
  BY <1>2, <1>3, Spliced
<1>5. InsertAt(l, i, g) = new
  BY <1>2, <1>3 DEF InsertAt
<1> QED
  BY <1>2, <1>4, <1>5

LEMMA Replaced ==
    ASSUME NEW S, NEW l \in Seq(S), NEW g \in S, NEW i \in 1 .. Len(l)
    PROVE  /\ [l EXCEPT ![i] = g] \in Seq(S)
           /\ Len([l EXCEPT ![i] = g]) = Len(l)
           /\ [l EXCEPT ![i] = g][i] = g /\ Has([l EXCEPT ![i] = g], g)
           /\ \A j \in 1 .. Len(l) : j # i => [l EXCEPT ![i] = g][j] = l[j]
           /\ \A j \in 1 .. Len(l) : j # i => Has([l EXCEPT ![i] = g], l[j])
<1>1. PICK new : new = [l EXCEPT ![i] = g]
  OBVIOUS
<1>2. DOMAIN new = 1 .. Len(l) /\ new[i] = g /\ \A j \in 1 .. Len(l) : j # i => new[j] = l[j]
  BY <1>1
<1>3. new \in Seq(S) /\ Len(new) = Len(l)
  BY <1>1
<1> QED
  BY <1>1, <1>2, <1>3 DEF Has

LEMMA HasIn ==
    ASSUME NEW l, NEW r, Has(l, r), NEW a, Inside(a, r)
    PROVE  In(l, a)
  BY DEF Has, In

-----------------------------------------------------------------------------
(* Allocation.                                                             *)

\* Sums of sizes.
LEMMA Between ==
    ASSUME NEW x \in Nat, NEW u \in Nat, NEW y \in Nat, NEW z \in Nat, NEW a \in Nat, NEW e \in Nat,
           x + u <= y, y <= a, a < z, z <= e
    PROVE  x <= a /\ a < e
  OBVIOUS

LEMMA Joined ==
    ASSUME NEW y \in Nat, NEW v \in Nat, NEW u \in Nat, NEW a \in Nat,
           (y <= a /\ a < y + v) \/ (y + v <= a /\ a < (y + v) + u)
    PROVE  y <= a /\ a < y + (u + v)
  OBVIOUS

LEMMA SumIsPositive ==
    ASSUME NEW u \in Nat, NEW v \in Nat, v > 0
    PROVE  u + v \in Nat /\ u + v > 0
  OBVIOUS

LEMMA LessWithout ==
    ASSUME NEW x \in Nat, NEW v \in Nat, NEW M \in Nat, x + v < M
    PROVE  x < M
  OBVIOUS

LEMMA PartSizes ==
    ASSUME NEW x \in Nat, NEW u \in Nat, NEW y \in Nat, NEW v \in Nat, NEW M \in Nat,
           x <= y, y + v <= x + u, x + u < M
    PROVE  /\ y - x \in Nat /\ x + (y - x) = y
           /\ (x + u) - (y + v) \in Nat /\ (y + v) + ((x + u) - (y + v)) = x + u
           /\ u - v \in Nat /\ x + (u - v) < M /\ u - v < M
           /\ y < M /\ (x + u) - (y + v) < M
           /\ y # x => y - x > 0 /\ u - v > 0
           /\ y + v # x + u => (x + u) - (y + v) > 0
  OBVIOUS

\* The list and the new allocation have what the list had before.
LEMMA AllocKeeps ==
    ASSUME list \in Seq(Whole), NEW i \in 1 .. Len(list), NEW q \in Whole,
           list[i].start <= q.start, End(q) <= End(list[i]),
           End(list[i]) + q.size < AddrMod
    PROVE  /\ AllocInRegion(i, q) \in Seq(Whole)
           /\ \A a \in Nat : In(list, a) => In(AllocInRegion(i, q), a) \/ Inside(a, q)
<1> DEFINE new == AllocInRegion(i, q)
<1>1. PICK r \in Whole : r = list[i]
  OBVIOUS
<1>2. /\ r.start \in Nat /\ r.size \in Nat /\ r.size > 0 /\ End(r) = r.start + r.size
      /\ q.start \in Nat /\ q.size \in Nat /\ q.size > 0 /\ End(q) = q.start + q.size
      /\ End(r) < AddrMod /\ End(q) < AddrMod
  BY WholeRegion
<1>3. r.start <= q.start /\ End(q) <= End(r) /\ End(r) + q.size < AddrMod
  BY <1>1
<1>4. PICK x, u, y, v \in Nat : /\ x = r.start /\ u = r.size /\ y = q.start /\ v = q.size
                                /\ u > 0 /\ v > 0 /\ End(r) = x + u /\ End(q) = y + v
                                /\ x <= y /\ y + v <= x + u /\ (x + u) + v < AddrMod
  BY <1>2, <1>3
<1>5. AddrMod \in Nat
  BY ModAssumption
<1>6. x <= y /\ y + v <= x + u /\ x + u < AddrMod
  <2>1. x + u \in Nat /\ v \in Nat /\ (x + u) + v < AddrMod
    BY <1>4
  <2>2. x + u < AddrMod
    BY <1>5, <2>1, LessWithout
  <2> QED
    BY <1>4, <2>2
<1>7. /\ y - x \in Nat /\ x + (y - x) = y
      /\ (x + u) - (y + v) \in Nat /\ (y + v) + ((x + u) - (y + v)) = x + u
      /\ u - v \in Nat /\ x + (u - v) < AddrMod /\ u - v < AddrMod
      /\ y < AddrMod /\ (x + u) - (y + v) < AddrMod
      /\ y # x => y - x > 0 /\ u - v > 0
      /\ y + v # x + u => (x + u) - (y + v) > 0
  BY <1>5, <1>6, PartSizes
<1> SUFFICES /\ new \in Seq(Whole)
             /\ \A j \in 1 .. Len(list) : j # i => Has(new, list[j])
             /\ \A a \in Nat : Inside(a, r) => In(new, a) \/ Inside(a, q)
  <2> HIDE DEF new
  <2> SUFFICES ASSUME NEW a \in Nat, NEW j \in 1 .. Len(list), Inside(a, list[j]),
                      \A k \in 1 .. Len(list) : k # i => Has(new, list[k]),
                      \A b \in Nat : Inside(b, r) => In(new, b) \/ Inside(b, q)
               PROVE  In(new, a) \/ Inside(a, q)
    BY DEF In, new
  <2> QED
    BY <1>1, HasIn
<1>8. CASE r = q
  <2>1. new = RemoveAt(list, i)
    BY <1>1, <1>8 DEF AllocInRegion
  <2> QED
    BY <1>8, <2>1, Removed
<1>9. CASE r # q /\ q.start = r.start
  <2>1. PICK g \in Whole : g = Region(r.start + q.size, r.size)
                            /\ g.start = r.start + q.size /\ g.size = r.size
    <3>1. r.start + q.size \in Nat /\ (r.start + q.size) + r.size < AddrMod
      BY <1>2, <1>3
    <3> QED
      BY <1>2, <3>1, NewRegion
  <2>2. new = [list EXCEPT ![i] = g]
    <3>1. Plus(r.start, q.size) = r.start + q.size
      BY <1>2, <1>9, SmallMod DEF Plus
    <3>2. [r EXCEPT !.start = Plus(r.start, q.size)] = g
      BY <2>1, <3>1 DEF Whole, Region
    <3>3. new = [list EXCEPT ![i].start = Plus(@, q.size)]
      BY <1>1, <1>9 DEF AllocInRegion
    <3> QED
      BY <1>1, <3>2, <3>3
  <2> HIDE DEF new
  <2>3. new \in Seq(Whole) /\ Has(new, g) /\ \A j \in 1 .. Len(list) : j # i => Has(new, list[j])
    BY <2>2, Replaced
  <2>4. \A a \in Nat : Inside(a, r) => Inside(a, g) \/ Inside(a, q)
    BY <1>2, <1>9, <2>1 DEF Inside
  <2> QED
    BY <2>3, <2>4, HasIn
<1>10. CASE r # q /\ q.start # r.start /\ End(q) = End(r)
  <2>1. PICK g \in Whole : g = Region(r.start, r.size - q.size)
                            /\ g.start = r.start /\ g.size = r.size - q.size
    <3>1. y # x /\ y + v = x + u
      BY <1>10, <1>4
    <3>2. u - v \in Nat /\ u - v > 0 /\ x + (u - v) < AddrMod
      BY <1>6, <1>7, <3>1
    <3>3. /\ Region(x, u - v) \in Whole
          /\ Region(x, u - v).start = x /\ Region(x, u - v).size = u - v
      BY <3>2, NewRegion
    <3> QED
      BY <1>4, <3>3
  <2>2. new = [list EXCEPT ![i] = g]
    <3>1. (r.size - q.size) % AddrMod = r.size - q.size
      <4>1. y + v = x + u
        BY <1>10, <1>4
      <4>2. u - v \in Nat /\ u - v < AddrMod
        BY <1>7
      <4> QED
        BY <1>4, <4>2, SmallMod
    <3>2. [r EXCEPT !.size = (r.size - q.size) % AddrMod] = g
      BY <2>1, <3>1 DEF Whole, Region
    <3>3. new = [list EXCEPT ![i].size = (@ - q.size) % AddrMod]
      BY <1>1, <1>10 DEF AllocInRegion
    <3> QED
      BY <1>1, <3>2, <3>3
  <2> HIDE DEF new
  <2>3. new \in Seq(Whole) /\ Has(new, g) /\ \A j \in 1 .. Len(list) : j # i => Has(new, list[j])
    BY <2>2, Replaced
  <2>4. \A a \in Nat : Inside(a, r) => Inside(a, g) \/ Inside(a, q)
    BY <1>2, <1>10, <2>1 DEF Inside
  <2> QED
    BY <2>3, <2>4, HasIn
<1>11. CASE r # q /\ q.start # r.start /\ End(q) # End(r)
  <2>1. PICK g \in Whole : g = Region(r.start, q.start - r.start)
                            /\ g.start = r.start /\ g.size = q.start - r.start
    <3>1. y # x
      BY <1>11, <1>4
    <3>2. y - x \in Nat /\ y - x > 0 /\ x + (y - x) < AddrMod
      BY <1>6, <1>7, <3>1
    <3>3. /\ Region(x, y - x) \in Whole
          /\ Region(x, y - x).start = x /\ Region(x, y - x).size = y - x
      BY <3>2, NewRegion
    <3> QED
      BY <1>4, <3>3
  <2>2. PICK s \in Whole : s = Region(End(q), End(r) - End(q))
                            /\ s.start = End(q) /\ s.size = End(r) - End(q)
    <3>1. y + v # x + u
      BY <1>11, <1>4
    <3>2. /\ (x + u) - (y + v) \in Nat /\ (x + u) - (y + v) > 0 /\ y + v \in Nat
          /\ (y + v) + ((x + u) - (y + v)) < AddrMod
      BY <1>6, <1>7, <3>1
    <3>3. /\ Region(y + v, (x + u) - (y + v)) \in Whole
          /\ Region(y + v, (x + u) - (y + v)).start = y + v
          /\ Region(y + v, (x + u) - (y + v)).size = (x + u) - (y + v)
      BY <3>2, NewRegion
    <3> QED
      BY <1>4, <3>3
  <2>3. PICK mid : mid = [list EXCEPT ![i] = g]
    OBVIOUS
  <2>4. new = InsertAt(mid, i + 1, s)
    <3>1. (End(r) - End(q)) % AddrMod = End(r) - End(q)
      <4>1. (x + u) - (y + v) \in Nat /\ (x + u) - (y + v) < AddrMod
        BY <1>7
      <4> QED
        BY <1>4, <4>1, SmallMod
    <3>2. [r EXCEPT !.size = q.start - r.start] = g
      BY <2>1 DEF Whole, Region
    <3>3. [list EXCEPT ![i].size = q.start - r.start] = mid
      BY <1>1, <2>3, <3>2
    <3>4. new = InsertAt([list EXCEPT ![i].size = q.start - r.start], i + 1,
                         Region(End(q), (End(r) - End(q)) % AddrMod))
      BY <1>1, <1>11 DEF AllocInRegion
    <3> QED
      BY <2>2, <3>1, <3>3, <3>4
  <2>5. /\ mid \in Seq(Whole) /\ Len(mid) = Len(list) /\ mid[i] = g
        /\ \A j \in 1 .. Len(list) : j # i => mid[j] = list[j]
    BY <2>3, Replaced
  <2> HIDE DEF new
  <2>6. new \in Seq(Whole) /\ Has(new, s) /\ \A j \in 1 .. Len(list) : Has(new, mid[j])
    <3>1. i + 1 \in 1 .. (Len(mid) + 1)
      BY <2>5
    <3> QED
      BY <2>4, <2>5, <3>1, Inserted
  <2>7. Has(new, g) /\ \A j \in 1 .. Len(list) : j # i => Has(new, list[j])
    BY <2>5, <2>6
  <2>8. \A a \in Nat : Inside(a, r) => Inside(a, g) \/ Inside(a, q) \/ Inside(a, s)
    <3> SUFFICES ASSUME NEW a \in Nat, x <= a, a < x + u
                 PROVE  Inside(a, g) \/ Inside(a, q) \/ Inside(a, s)
      BY <1>4 DEF Inside
    <3>1. Inside(a, g) <=> x <= a /\ a < x + (y - x)
      BY <1>4, <2>1 DEF Inside
    <3>2. Inside(a, q) <=> y <= a /\ a < y + v
      BY <1>4 DEF Inside
    <3>3. Inside(a, s) <=> y + v <= a /\ a < (y + v) + ((x + u) - (y + v))
      BY <1>4, <2>2 DEF Inside
    <3>4. x + (y - x) = y /\ (y + v) + ((x + u) - (y + v)) = x + u
      OBVIOUS
    <3>5. a < y \/ (y <= a /\ a < y + v) \/ y + v <= a
      OBVIOUS
    <3> QED
      BY <3>1, <3>2, <3>3, <3>4, <3>5
  <2> QED
    BY <2>6, <2>7, <2>8, HasIn
<1> QED
  BY <1>8, <1>9, <1>10, <1>11

-----------------------------------------------------------------------------
(* Release.                                                                *)

\* A set of natural numbers has a least element, and a bounded one a greatest.
LEMMA LeastNatural ==
    ASSUME NEW T, T \subseteq Nat, T # {}
    PROVE  \E x \in T : \A y \in T : x <= y
<1> DEFINE R == OpToRel(<, Nat)
<1>1. IsWellFoundedOn(R, Nat)
  BY NatLessThanWellFounded
<1>2. \A x, y \in Nat : y < x => <<y, x>> \in R
  BY DEF OpToRel
<1> HIDE DEF R
<1>3. PICK x \in T : \A y \in T : ~(<<y, x>> \in R)
  BY <1>1, WFMin
<1>4. ASSUME NEW y \in T PROVE x <= y
  <2>1. ~(y < x)
    BY <1>2, <1>3
  <2> QED
    BY <2>1
<1> QED
  BY <1>4

LEMMA MaxIsGreatest ==
    ASSUME NEW n \in Nat, NEW T, T \subseteq 0 .. n, T # {}
    PROVE  Max(T) \in T /\ \A y \in T : Max(T) >= y
<1> DEFINE U == {n - y : y \in T}
<1>1. U \subseteq Nat /\ U # {}
  OBVIOUS
<1>2. PICK d \in U : \A e \in U : d <= e
  BY <1>1, LeastNatural
<1>3. PICK x \in T : d = n - x
  OBVIOUS
<1>4. ASSUME NEW y \in T PROVE x >= y
  <2>1. n - x <= n - y
    BY <1>2, <1>3
  <2>2. x \in 0 .. n /\ y \in 0 .. n
    OBVIOUS
  <2> QED
    BY <2>1, <2>2
<1>5. \E x_1 \in T : \A y \in T : x_1 >= y
  BY <1>4
<1> QED
  BY <1>5 DEF Max

LEMMA MinIsIn ==
    ASSUME NEW T, T \subseteq Nat, T # {}
    PROVE  Min(T) \in T
<1>1. \E x \in T : \A y \in T : x <= y
  BY LeastNatural
<1> QED
  BY <1>1 DEF Min

\* The regions behind i and q follow each other, so they reach from one end to the
\* other: no region of them begins before the first or ends behind the last.
LEMMA Chained ==
    ASSUME list \in Seq(Whole), NEW i \in 1 .. Len(list), NEW q \in Whole,
           End(list[i]) = q.start, NEW k \in 0 .. (Len(list) - i),
           \A j \in 1 .. k : Reach(i, q, j - 1) = list[i + j].start
    PROVE  /\ Reach(i, q, k) \in Nat /\ Reach(i, q, k) < AddrMod
           /\ End(q) <= Reach(i, q, k)
           /\ \A j \in 1 .. k : q.start <= list[i + j].start /\ End(list[i + j]) <= Reach(i, q, k)
<1> DEFINE Stop(j) == Reach(i, q, j)
<1>1. i \in Nat /\ k \in Nat /\ Len(list) \in Nat
      /\ \A j \in 1 .. k : i + j \in 1 .. Len(list) /\ list[i + j] \in Whole
  OBVIOUS
<1>2. /\ q.start \in Nat /\ q.size \in Nat /\ End(q) \in Nat /\ End(q) < AddrMod
      /\ q.start <= End(q) /\ End(q) = q.start + q.size
  BY WholeRegion
<1>3. Stop(0) = End(q)
  <2>1. Stop(0) = Plus(End(list[i]), q.size)
    BY DEF Reach
  <2> QED
    BY <2>1 DEF End
<1>4. \A j \in 1 .. k : Stop(j) = End(list[i + j])
  BY <1>1 DEF Reach
<1>5. \A j \in 1 .. k : /\ list[i + j].start \in Nat /\ Stop(j) \in Nat /\ Stop(j) < AddrMod
                        /\ list[i + j].start <= Stop(j)
  <2> SUFFICES ASSUME NEW j \in 1 .. k
               PROVE  /\ list[i + j].start \in Nat /\ Stop(j) \in Nat /\ Stop(j) < AddrMod
                      /\ list[i + j].start <= Stop(j)
    OBVIOUS
  <2>1. PICK r \in Whole : r = list[i + j]
    BY <1>1
  <2>2. /\ r.start \in Nat /\ r.size \in Nat /\ End(r) \in Nat /\ End(r) < AddrMod
        /\ End(r) = r.start + r.size
    BY WholeRegion
  <2>3. r.start <= End(r)
    BY <2>2
  <2> QED
    BY <1>4, <2>1, <2>2, <2>3
<1>6. \A j \in 1 .. k : Stop(j - 1) = list[i + j].start
  OBVIOUS
<1>7. \A j \in 0 .. k : Stop(j) \in Nat /\ Stop(j) < AddrMod
  BY <1>1, <1>2, <1>3, <1>5
<1>8. \A j \in 1 .. k : Stop(j - 1) <= Stop(j)
  BY <1>5, <1>6
<1> HIDE DEF Stop
<1>9. \A j \in 0 .. k : End(q) <= Stop(j)
  <2> DEFINE T == {j \in 0 .. k : ~(End(q) <= Stop(j))}
  <2> SUFFICES ASSUME T # {} PROVE FALSE
    OBVIOUS
  <2>1. PICK j \in T : \A l \in T : j <= l
    <3>1. T \subseteq Nat
      OBVIOUS
    <3> HIDE DEF T
    <3> QED
      BY <3>1, LeastNatural
  <2>2. CASE j = 0
    BY <1>2, <1>3, <2>2
  <2>3. CASE j # 0
    <3>1. j \in 1 .. k /\ j - 1 \in 0 .. k /\ ~(j <= j - 1)
      BY <1>1, <2>3
    <3>2. End(q) <= Stop(j - 1)
      BY <2>1, <3>1
    <3>3. Stop(j - 1) <= Stop(j) /\ Stop(j - 1) \in Nat /\ Stop(j) \in Nat
      BY <1>7, <1>8, <3>1
    <3>4. End(q) <= Stop(j)
      BY <1>2, <3>2, <3>3
    <3> QED
      BY <3>4
  <2> QED
    BY <2>2, <2>3
<1>10. \A j \in 0 .. k : Stop(j) <= Stop(k)
  <2> DEFINE T == {d \in 0 .. k : ~(Stop(k - d) <= Stop(k))}
  <2>1. T = {}
    <3> SUFFICES ASSUME T # {} PROVE FALSE
      OBVIOUS
    <3>1. PICK d \in T : \A l \in T : d <= l
      <4>1. T \subseteq Nat
        OBVIOUS
      <4> HIDE DEF T
      <4> QED
        BY <4>1, LeastNatural
    <3>2. CASE d = 0
      <4>1. k - d = k /\ Stop(k) \in Nat
        BY <1>1, <1>7, <3>2
      <4> QED
        BY <4>1
    <3>3. CASE d # 0
      <4>1. d - 1 \in 0 .. k /\ ~(d <= d - 1) /\ k - (d - 1) \in 1 .. k
            /\ k - (d - 1) - 1 = k - d /\ k - d \in 0 .. k
        BY <1>1, <3>3
      <4>2. Stop(k - (d - 1)) <= Stop(k)
        BY <3>1, <4>1
      <4>3. Stop(k - d) <= Stop(k - (d - 1))
        BY <1>8, <4>1
      <4>4. Stop(k - d) \in Nat /\ Stop(k - (d - 1)) \in Nat /\ Stop(k) \in Nat
        <5>1. k - (d - 1) \in 0 .. k /\ k \in 0 .. k
          BY <1>1, <4>1
        <5> QED
          BY <1>7, <4>1, <5>1
      <4>5. Stop(k - d) <= Stop(k)
        BY <4>2, <4>3, <4>4
      <4> QED
        BY <4>5
    <3> QED
      BY <3>2, <3>3
  <2>2. ASSUME NEW j \in 0 .. k
        PROVE  Stop(j) <= Stop(k)
    <3>1. k - j \in 0 .. k /\ k - (k - j) = j
      BY <1>1
    <3> QED
      BY <2>1, <3>1
  <2> QED
    BY <2>2
<1>11. ASSUME NEW j \in 1 .. k
       PROVE  q.start <= list[i + j].start /\ End(list[i + j]) <= Stop(k)
  <2>1. j \in 0 .. k /\ j - 1 \in 0 .. k
    BY <1>1
  <2>2. End(q) <= Stop(j - 1) /\ Stop(j - 1) \in Nat /\ Stop(j) <= Stop(k)
    BY <1>7, <1>9, <1>10, <2>1
  <2>3. q.start <= Stop(j - 1)
    BY <1>2, <2>2
  <2> QED
    BY <1>4, <1>6, <2>2, <2>3
<1>12. k \in 0 .. k
  BY <1>1
<1> QED
  BY <1>7, <1>9, <1>11, <1>12 DEF Stop

\* The list has what it had before, and the region that is released.
Gains(new, q) ==
    /\ new \in Seq(Whole)
    /\ \A a \in Nat : In(list, a) \/ Inside(a, q) => In(new, a)

LEMMA MergeKeeps ==
    ASSUME list \in Seq(Whole), NEW i \in 1 .. Len(list), NEW q \in Whole,
           End(list[i]) = q.start
    PROVE  Gains(Merge(i, q), q)
<1> DEFINE T == {k \in 0 .. (Len(list) - i) :
                    \A j \in 1 .. k :
                        Reach(i, q, j - 1) # 0 /\ Reach(i, q, j - 1) = list[i + j].start}
           new == Merge(i, q)
<1>1. PICK k : k = Followers(i, q)
  OBVIOUS
<1>2. k \in T
  <2>1. Len(list) - i \in Nat /\ T \subseteq 0 .. (Len(list) - i)
    OBVIOUS
  <2>2. 0 \in T
    OBVIOUS
  <2>3. k = Max(T)
    BY <1>1 DEF Followers
  <2> HIDE DEF T
  <2> QED
    BY <2>1, <2>2, <2>3, MaxIsGreatest
<1>3. PICK e : e = Reach(i, q, k)
  OBVIOUS
<1>4. /\ k \in 0 .. (Len(list) - i) /\ e \in Nat /\ e < AddrMod /\ End(q) <= e
      /\ \A j \in 1 .. k : q.start <= list[i + j].start /\ End(list[i + j]) <= e
  BY <1>2, <1>3, Chained
<1> HIDE DEF T
<1>5. PICK r \in Whole : r = list[i]
  OBVIOUS
<1>6. PICK x, u, v \in Nat : /\ x = r.start /\ u = r.size /\ v = q.size /\ u > 0 /\ v > 0
                             /\ End(r) = x + u /\ q.start = x + u /\ End(q) = (x + u) + v
  BY <1>5, WholeRegion
<1>7. e - x \in Nat /\ e - x > 0 /\ e - x < AddrMod /\ x + (e - x) = e /\ x + (e - x) < AddrMod
  <2>1. (x + u) + v <= e
    BY <1>4, <1>6
  <2>2. x \in Nat /\ u \in Nat /\ v \in Nat /\ u > 0 /\ e \in Nat /\ AddrMod \in Nat /\ e < AddrMod
    BY <1>4, <1>6, ModAssumption
  <2> QED
    BY <2>1, <2>2
<1>8. PICK g \in Whole : g = Grown(i, k, q) /\ g.start = x /\ g.size = e - x
  <2>1. Grown(i, k, q) = Region(x, e - x)
    BY <1>3, <1>5, <1>6, <1>7, SmallMod DEF Grown
  <2>2. /\ Region(x, e - x) \in Whole
        /\ Region(x, e - x).start = x /\ Region(x, e - x).size = e - x
    BY <1>7, NewRegion
  <2> QED
    BY <2>1, <2>2
<1>9. PICK m : m = i + k
  OBVIOUS
<1>10. m \in (i - 1) .. Len(list) /\ i \in 1 .. (Len(list) + 1)
  BY <1>4, <1>9
<1>11. new = SubSeq(list, 1, i - 1) \o <<g>> \o SubSeq(list, m + 1, Len(list))
  BY <1>1, <1>8, <1>9 DEF Merge
<1> HIDE DEF new
<1>12. /\ new \in Seq(Whole) /\ Has(new, g)
       /\ \A j \in 1 .. Len(list) : j < i \/ j > m => Has(new, list[j])
  BY <1>10, <1>11, Spliced
<1>13. \A a \in Nat : Inside(a, g) <=> x <= a /\ a < e
  BY <1>7, <1>8 DEF Inside
<1>14. \A a \in Nat : Inside(a, q) => Inside(a, g)
  <2> SUFFICES ASSUME NEW a \in Nat, Inside(a, q)
               PROVE  x <= a /\ a < e
    BY <1>13
  <2>1. x + u <= a /\ a < (x + u) + v
    BY <1>6 DEF Inside
  <2>2. (x + u) + v <= e
    BY <1>4, <1>6
  <2> QED
    BY <1>4, <2>1, <2>2
<1>15. ASSUME NEW a \in Nat, NEW j \in 1 .. Len(list), Inside(a, list[j])
       PROVE  In(new, a)
  <2>1. CASE j < i \/ j > m
    BY <1>12, <1>15, <2>1, HasIn
  <2>2. CASE j = i
    <3>1. x <= a /\ a < x + u
      BY <1>5, <1>6, <1>15, <2>2 DEF Inside
    <3>2. (x + u) + v <= e
      BY <1>4, <1>6
    <3>3. a < e
      BY <1>4, <3>1, <3>2
    <3> QED
      BY <1>12, <1>13, <3>1, <3>3, HasIn
  <2>3. CASE j > i /\ j <= m
    <3>1. j - i \in 1 .. k /\ i + (j - i) = j
      BY <1>4, <1>9, <2>3
    <3>2. q.start <= list[j].start /\ End(list[j]) <= e
      BY <1>4, <3>1
    <3>3. list[j] \in Whole
      OBVIOUS
    <3>4. /\ list[j].start \in Nat /\ End(list[j]) \in Nat
          /\ End(list[j]) = list[j].start + list[j].size
      BY <3>3, WholeRegion
    <3>5. list[j].start <= a /\ a < End(list[j])
      BY <1>15, <3>4 DEF Inside
    <3>6. x + u <= list[j].start /\ x \in Nat /\ u \in Nat /\ e \in Nat
      BY <1>4, <1>6, <3>2
    <3>7. x <= a /\ a < e
      BY <3>2, <3>4, <3>5, <3>6, Between
    <3> QED
      BY <1>12, <1>13, <3>7, HasIn
  <2> QED
    BY <1>4, <1>9, <2>1, <2>2, <2>3
<1>16. \A a \in Nat : In(list, a) \/ Inside(a, q) => In(new, a)
  <2>1. \A a \in Nat : In(list, a) => In(new, a)
    BY <1>15 DEF In
  <2>2. \A a \in Nat : Inside(a, q) => In(new, a)
    BY <1>12, <1>14, HasIn
  <2> QED
    BY <2>1, <2>2
<1> QED
  BY <1>12, <1>16 DEF Gains, new

\* A list that has the old regions, all but one, and covers that one and q.
LEMMA GainsFrom ==
    ASSUME NEW new \in Seq(Whole), NEW q, NEW i, NEW g,
           \A j \in DOMAIN list : j # i => Has(new, list[j]),
           Has(new, g),
           \A a \in Nat : Inside(a, q) \/ (i \in DOMAIN list /\ Inside(a, list[i])) => Inside(a, g)
    PROVE  Gains(new, q)
<1>1. ASSUME NEW a \in Nat, In(list, a)
      PROVE  In(new, a)
  <2>1. PICK j \in DOMAIN list : Inside(a, list[j])
    BY <1>1 DEF In
  <2>2. CASE j = i
    BY <2>1, <2>2, HasIn
  <2>3. CASE j # i
    BY <2>1, <2>3, HasIn
  <2> QED
    BY <2>2, <2>3
<1>2. ASSUME NEW a \in Nat, Inside(a, q)
      PROVE  In(new, a)
  BY <1>2, HasIn
<1> QED
  BY <1>1, <1>2 DEF Gains

LEMMA ReleasedKeeps ==
    ASSUME list \in Seq(Whole), NEW q \in Whole
    PROVE  Gains(Released(q), q)
<1> DEFINE Stops(r) == StopsAt(r, q)
           T == {j \in 1 .. Len(list) : Stops(list[j])}
<1>1. PICK i : i = SelectInSeq(list, Stops)
  OBVIOUS
<1>2. Released(q) =
          IF i = 0 THEN Append(list, q)
          ELSE IF IsAdjacentBehind(list[i], q.start) THEN Merge(i, q)
          ELSE IF IsAdjacentBehind(q, list[i].start)
               THEN [list EXCEPT ![i] = Region((@.start - q.size) % AddrMod, @.size + q.size)]
          ELSE InsertAt(list, i, q)
  BY <1>1 DEF Released
<1>3. i = 0 \/ i \in 1 .. Len(list)
  <2>1. i = IF T # {} THEN Min(T) ELSE 0
    BY <1>1 DEF SelectInSeq
  <2>2. T \subseteq 1 .. Len(list) /\ T \subseteq Nat
    OBVIOUS
  <2> HIDE DEF T
  <2> QED
    BY <2>1, <2>2, MinIsIn
<1>4. CASE i = 0
  <2>1. Released(q) = Append(list, q)
    BY <1>2, <1>4
  <2>2. PICK new : new = Append(list, q)
    OBVIOUS
  <2>3. new \in Seq(Whole) /\ Len(new) = Len(list) + 1
    BY <2>2
  <2>4. new[Len(list) + 1] = q /\ \A j \in 1 .. Len(list) : new[j] = list[j]
    BY <2>2
  <2>5. Has(new, q) /\ \A j \in 1 .. Len(list) : Has(new, list[j])
    BY <2>3, <2>4 DEF Has
  <2>6. Gains(new, q)
    <3>1. \A j \in DOMAIN list : j # 0 => Has(new, list[j])
      BY <2>5
    <3>2. \A a \in Nat : Inside(a, q) \/ (0 \in DOMAIN list /\ Inside(a, list[0])) => Inside(a, q)
      OBVIOUS
    <3> QED
      BY <2>3, <2>5, <3>1, <3>2, GainsFrom
  <2> QED
    BY <2>1, <2>2, <2>6
<1>5. CASE i \in 1 .. Len(list) /\ IsAdjacentBehind(list[i], q.start)
  <2>1. Released(q) = Merge(i, q)
    BY <1>2, <1>5
  <2>2. End(list[i]) = q.start
    BY <1>5 DEF IsAdjacentBehind
  <2> QED
    BY <1>5, <2>1, <2>2, MergeKeeps
<1>6. CASE /\ i \in 1 .. Len(list) /\ ~IsAdjacentBehind(list[i], q.start)
           /\ IsAdjacentBehind(q, list[i].start)
  <2>1. PICK r \in Whole : r = list[i]
    BY <1>6
  <2>2. End(q) = r.start
    BY <1>6, <2>1 DEF IsAdjacentBehind
  <2>3. PICK y, v, u \in Nat : /\ y = q.start /\ v = q.size /\ u = r.size /\ v > 0
                               /\ r.start = y + v /\ y < AddrMod /\ y + (u + v) < AddrMod
    <3>1. /\ q.start \in Nat /\ q.size \in Nat /\ q.size > 0 /\ End(q) = q.start + q.size
          /\ r.size \in Nat /\ r.size > 0 /\ End(r) = r.start + r.size /\ End(r) < AddrMod
      BY WholeRegion
    <3>2. AddrMod \in Nat
      BY ModAssumption
    <3>3. r.start = q.start + q.size /\ (q.start + q.size) + r.size < AddrMod
      BY <2>2, <3>1
    <3>4. q.start < AddrMod /\ q.start + (r.size + q.size) < AddrMod
      BY <3>1, <3>2, <3>3
    <3> QED
      BY <3>1, <3>3, <3>4
  <2>4. PICK g \in Whole : g = Region(y, u + v) /\ g.start = y /\ g.size = u + v
    <3>1. u + v \in Nat /\ u + v > 0
      BY <2>3, SumIsPositive
    <3>2. Region(y, u + v) \in Whole /\ Region(y, u + v).start = y /\ Region(y, u + v).size = u + v
      <4>1. PICK z \in Nat : z = u + v /\ z > 0 /\ y + z < AddrMod
        BY <2>3, <3>1
      <4>2. y \in Nat
        BY <2>3
      <4>3. Region(y, z) \in Whole /\ Region(y, z).start = y /\ Region(y, z).size = z
        BY <4>1, <4>2, NewRegion
      <4> QED
        BY <4>1, <4>3
    <3> QED
      BY <3>2
  <2>5. Released(q) = [list EXCEPT ![i] = g]
    <3>1. (r.start - q.size) % AddrMod = y
      <4>1. r.start - q.size = y
        BY <2>3
      <4> QED
        BY <2>3, <4>1, SmallMod
    <3>2. i # 0
      BY <1>6
    <3>3. Released(q) = [list EXCEPT ![i] = Region((@.start - q.size) % AddrMod, @.size + q.size)]
      BY <1>2, <1>6, <3>2
    <3> QED
      BY <1>6, <2>1, <2>3, <2>4, <3>1, <3>3
  <2>6. PICK new : new = [list EXCEPT ![i] = g]
    OBVIOUS
  <2>7. new \in Seq(Whole) /\ Has(new, g) /\ \A j \in 1 .. Len(list) : j # i => Has(new, list[j])
    BY <1>6, <2>6, Replaced
  <2>8. \A a \in Nat : Inside(a, q) \/ Inside(a, list[i]) => Inside(a, g)
    <3> SUFFICES ASSUME NEW a \in Nat, Inside(a, q) \/ Inside(a, list[i])
                 PROVE  Inside(a, g)
      OBVIOUS
    <3>1. (y <= a /\ a < y + v) \/ (y + v <= a /\ a < (y + v) + u)
      BY <2>1, <2>3 DEF Inside
    <3>2. y <= a /\ a < y + (u + v)
      BY <3>1, Joined
    <3> QED
      BY <2>4, <3>2 DEF Inside
  <2>9. Gains(new, q)
    <3>1. \A j \in DOMAIN list : j # i => Has(new, list[j])
      BY <2>7
    <3>2. \A a \in Nat : Inside(a, q) \/ (i \in DOMAIN list /\ Inside(a, list[i])) => Inside(a, g)
      BY <2>8
    <3> QED
      BY <2>7, <3>1, <3>2, GainsFrom
  <2> QED
    BY <2>5, <2>6, <2>9
<1>7. CASE /\ i \in 1 .. Len(list) /\ ~IsAdjacentBehind(list[i], q.start)
           /\ ~IsAdjacentBehind(q, list[i].start)
  <2>1. i # 0 /\ i \in 1 .. (Len(list) + 1)
    BY <1>7
  <2>2. PICK new : new = InsertAt(list, i, q)
    OBVIOUS
  <2>3. new \in Seq(Whole) /\ Has(new, q) /\ \A j \in 1 .. Len(list) : Has(new, list[j])
    BY <2>1, <2>2, Inserted
  <2>4. Gains(new, q)
    <3>1. \A a \in Nat : Inside(a, q) \/ (0 \in DOMAIN list /\ Inside(a, list[0])) => Inside(a, q)
      OBVIOUS
    <3>2. \A j \in DOMAIN list : j # 0 => Has(new, list[j])
      BY <2>3
    <3> QED
      BY <2>3, <3>1, <3>2, GainsFrom
  <2> QED
    BY <1>2, <1>7, <2>1, <2>2, <2>4
<1> QED
  BY <1>3, <1>4, <1>5, <1>6, <1>7

-----------------------------------------------------------------------------
(* The invariant.                                                          *)

Held(a) == \E o \in Owners : held[o] # Nothing /\ Inside(a, held[o])

ListInv ==
    /\ list \in Seq(Whole)
    /\ held \in [Owners -> Whole \union {Nothing}]
    /\ \A a \in Nat : In(Arena, a) => In(list, a) \/ Held(a)

LEMMA WholeArena == Arena \in Seq(Whole)
<1>1. PICK S : S = [start : Nat, size : Nat \ {0}]
  OBVIOUS
<1>2. Arena \in Seq(S) /\ \A i \in DOMAIN Arena : Arena[i].start + Arena[i].size < AddrMod
  BY <1>1, ArenaAssumption
<1>3. \A i \in 1 .. Len(Arena) : Arena[i] \in Whole
  <2> SUFFICES ASSUME NEW i \in 1 .. Len(Arena)
               PROVE  Arena[i] \in Whole
    OBVIOUS
  <2>1. Arena[i] \in S /\ Arena[i].start + Arena[i].size < AddrMod
    BY <1>2
  <2> QED
    BY <1>1, <2>1 DEF Whole
<1> HIDE DEF Whole
<1> QED
  BY <1>2, <1>3

LEMMA ListInit == Init => ListInv
  BY WholeArena DEF Init, ListInv, In

LEMMA NothingIsNoRegion == Nothing \notin Whole
  BY DEF Nothing, Region, Whole

\* A part of a region of the list goes to a caller that holds nothing.
LEMMA AllocStep ==
    ASSUME ListInv, NEW o \in Owners, held[o] = Nothing, Bounded,
           NEW i \in DOMAIN list, NEW q \in Whole,
           list[i].start <= q.start, End(q) <= End(list[i]),
           list' = AllocInRegion(i, q), held' = [held EXCEPT ![o] = q]
    PROVE  ListInv'
<1>1. list \in Seq(Whole) /\ i \in 1 .. Len(list) /\ held \in [Owners -> Whole \union {Nothing}]
  BY DEF ListInv
<1>2. PICK r \in Whole : r = list[i]
  BY <1>1
<1>3. End(r) + q.size < AddrMod
  <2>1. PICK x, u, y, v \in Nat : /\ x = r.start /\ u = r.size /\ y = q.start /\ v = q.size
                                  /\ End(r) = x + u /\ End(q) = y + v
    BY WholeRegion
  <2>2. x <= y /\ y + v <= x + u
    BY <1>2, <2>1
  <2>3. x + 2 * u <= MaxEnd
    BY <1>2, <2>1 DEF Bounded
  <2>4. (x + u) + v < AddrMod
    BY <2>1, <2>2, <2>3, ModAssumption
  <2> QED
    BY <2>1, <2>4
<1>4. /\ list' \in Seq(Whole)
      /\ \A a \in Nat : In(list, a) => In(list', a) \/ Inside(a, q)
  BY <1>1, <1>2, <1>3, AllocKeeps
<1>5. held' \in [Owners -> Whole \union {Nothing}] /\ held'[o] = q /\ q # Nothing
  BY <1>1, NothingIsNoRegion
<1>6. \A p \in Owners : held[p] # Nothing => held'[p] = held[p]
  BY <1>1
<1>7. \A a \in Nat : Held(a) \/ Inside(a, q) => Held(a)'
  BY <1>5, <1>6 DEF Held
<1>8. \A a \in Nat : In(Arena, a) => In(list', a) \/ Held(a)'
  BY <1>4, <1>7 DEF ListInv
<1> QED
  BY <1>4, <1>5, <1>8 DEF ListInv, In

LEMMA AllocListInv ==
    ASSUME ListInv, NEW o \in Owners, NEW p \in PageSizes, NEW n \in Counts, Alloc(o, p, n)
    PROVE  ListInv'
<1>1. PICK i \in DOMAIN list :
         LET q == Region(Plus(list[i].start, Chop(list[i], p)), p * n)
         IN  /\ CanHold(list[i], p, n)
             /\ list' = AllocInRegion(i, q)
             /\ held' = [held EXCEPT ![o] = q]
  BY DEF Alloc, First
<1>2. held[o] = Nothing /\ Bounded
  BY DEF Alloc
<1>3. PICK r \in Whole : r = list[i]
  BY DEF ListInv
<1>4. PICK x, u \in Nat : x = r.start /\ u = r.size /\ End(r) = x + u /\ x + u < AddrMod
  BY WholeRegion
<1>5. PICK s \in Nat : s = p * n /\ s > 0
  BY RequestAssumption
<1>6. PICK c \in Nat : c = Chop(r, p)
  <2>1. p \in Nat /\ p > 0
    BY RequestAssumption
  <2>2. x % p \in 0 .. (p - 1)
    BY <1>4, <2>1
  <2>3. (p - (x % p)) \in Int
    BY <2>1, <2>2
  <2>4. (p - (x % p)) % p \in 0 .. (p - 1)
    BY <2>1, <2>3
  <2> QED
    BY <1>4, <2>1, <2>4 DEF Chop
<1>7. c + s <= u
  BY <1>1, <1>3, <1>4, <1>5, <1>6 DEF CanHold
<1>8. /\ x + c \in Nat /\ x + c < AddrMod /\ x <= x + c
      /\ (x + c) + s <= x + u /\ (x + c) + s < AddrMod
  BY <1>4, <1>5, <1>6, <1>7, ModAssumption
<1>9. PICK q \in Whole : q = Region(x + c, s) /\ q.start = x + c /\ q.size = s
  <2>1. Region(x + c, s) \in Whole /\ Region(x + c, s).start = x + c /\ Region(x + c, s).size = s
    BY <1>5, <1>8, NewRegion
  <2> QED
    BY <2>1
<1>10. Plus(list[i].start, Chop(list[i], p)) = x + c
  BY <1>3, <1>4, <1>6, <1>8, SmallMod DEF Plus
<1>11. list' = AllocInRegion(i, q) /\ held' = [held EXCEPT ![o] = q]
  BY <1>1, <1>5, <1>9, <1>10
<1>12. list[i].start <= q.start /\ End(q) <= End(list[i])
  <2>1. End(q) = (x + c) + s
    BY <1>9, WholeRegion
  <2> QED
    BY <1>3, <1>4, <1>8, <1>9, <2>1
<1> QED
  BY <1>2, <1>11, <1>12, AllocStep

LEMMA AllocAtListInv ==
    ASSUME ListInv, NEW o \in Owners, NEW p \in PageSizes, NEW n \in Counts,
           NEW start \in 0 .. MaxEnd, AllocAt(o, start, p, n)
    PROVE  ListInv'
<1>1. PICK q : q = Region(start, p * n)
  OBVIOUS
<1>2. PICK i \in DOMAIN list :
          /\ RegionContains(list[i], q)
          /\ list' = AllocInRegion(i, q) /\ held' = [held EXCEPT ![o] = q]
  BY <1>1 DEF AllocAt, First
<1>3. held[o] = Nothing /\ Bounded
  BY DEF AllocAt
<1>4. q \in Whole
  <2>1. p * n \in Nat /\ p * n > 0 /\ MaxEnd + p * n < AddrMod
    BY RequestAssumption
  <2>2. start + p * n < AddrMod /\ start \in Nat
    BY <2>1, ModAssumption
  <2> QED
    BY <1>1, <2>1, <2>2, NewRegion
<1>5. list[i] \in Whole
  BY DEF ListInv
<1>6. list[i].start <= q.start /\ End(q) <= End(list[i])
  <2>1. End(list[i]) \in Nat /\ End(list[i]) > 0
    BY <1>5, WholeRegion
  <2> QED
    BY <1>2, <2>1 DEF RegionContains
<1> QED
  BY <1>2, <1>3, <1>4, <1>6, AllocStep

LEMMA FreeListInv ==
    ASSUME ListInv, NEW o \in Owners, Free(o)
    PROVE  ListInv'
<1>1. PICK q \in Whole : q = held[o]
  BY DEF Free, ListInv
<1>2. list \in Seq(Whole) /\ held \in [Owners -> Whole \union {Nothing}]
  BY DEF ListInv
<1>3. list' = Released(q) /\ held' = [held EXCEPT ![o] = Nothing]
  BY <1>1 DEF Free
<1>4. /\ list' \in Seq(Whole)
      /\ \A a \in Nat : In(list, a) \/ Inside(a, q) => In(list', a)
  BY <1>2, <1>3, ReleasedKeeps DEF Gains
<1>5. held' \in [Owners -> Whole \union {Nothing}] /\ \A p \in Owners : p # o => held'[p] = held[p]
  BY <1>2, <1>3
<1>6. \A a \in Nat : Held(a) => Held(a)' \/ Inside(a, q)
  BY <1>1, <1>5 DEF Held
<1>7. \A a \in Nat : In(Arena, a) => In(list', a) \/ Held(a)'
  BY <1>4, <1>6 DEF ListInv
<1> QED
  BY <1>4, <1>5, <1>7 DEF ListInv, In

LEMMA ListStep == ListInv /\ [Next]_flVars => ListInv'
<1> SUFFICES ASSUME ListInv, [Next]_flVars
             PROVE  ListInv'
  OBVIOUS
<1>1. CASE UNCHANGED flVars
  BY <1>1 DEF flVars, ListInv, Held, In
<1>2. CASE Next
  BY <1>2, AllocListInv, AllocAtListInv, FreeListInv DEF Next
<1> QED
  BY <1>1, <1>2

\* However regions are split, merged, allocated and released, and although the list may
\* come to overlap itself, an address of the arena is on it or with a caller.
THEOREM NothingLeaks == Spec => []NoLeak
<1>1. ListInv => NoLeak
  <2> SUFFICES ASSUME ListInv, NEW k \in DOMAIN Arena, NEW a \in PagesOf(Arena[k])
               PROVE  a \in ListPages \union HeldPages
    BY DEF NoLeak, ArenaPages
  <2>1. Arena[k] \in Whole
    BY WholeArena
  <2>2. a \in Nat /\ Inside(a, Arena[k])
    BY <2>1, WholeRegion
  <2>3. In(list, a) \/ Held(a)
    BY <2>2 DEF ListInv, In
  <2>4. CASE In(list, a)
    <3>1. PICK i \in DOMAIN list : Inside(a, list[i])
      BY <2>4 DEF In
    <3>2. list[i] \in Whole
      BY DEF ListInv
    <3>3. a \in PagesOf(list[i])
      BY <2>2, <3>1, <3>2, WholeRegion
    <3> QED
      BY <3>3 DEF ListPages
  <2>5. CASE Held(a)
    <3>1. PICK o \in Owners : held[o] # Nothing /\ Inside(a, held[o])
      BY <2>5 DEF Held
    <3>2. held[o] \in Whole
      BY <3>1 DEF ListInv
    <3>3. a \in PagesOf(held[o])
      BY <2>2, <3>1, <3>2, WholeRegion
    <3> QED
      BY <3>3 DEF HeldPages
  <2> QED
    BY <2>3, <2>4, <2>5
<1> QED
  BY <1>1, ListInit, ListStep, PTL DEF Spec
=============================================================================
