---------------------------- MODULE MallocProofs ----------------------------
(***************************************************************************)
(* For every alignment, page size, request and limit: the regions of the   *)
(* allocator tile the heap, the used ones are those of the blocks handed   *)
(* out, and the heap grows only when nothing in it would have done.        *)
(***************************************************************************)
EXTENDS Malloc, TLAPS

-----------------------------------------------------------------------------
(* The list operations of linked_list_item.c.                              *)

\* The fields of a list.
LEMMA ListFields ==
  ASSUME NEW l, IsList(l)
  PROVE  /\ Headers(l) \subseteq Nat \ {0}
         /\ l.next \in [Headers(l) -> Headers(l) \cup {0}]
         /\ l.is_free \in [Headers(l) -> BOOLEAN]
         /\ l.tail \in Headers(l)
  BY DEF IsList, Null

\* What lli_insert_after writes.
LEMMA InsertFields ==
  ASSUME NEW l, IsList(l), NEW self \in Headers(l), NEW addr \in Nat \ {0},
         addr \notin Headers(l), NEW m, m = lli_insert_after(l, self, addr)
  PROVE  /\ IsList(m)
         /\ Headers(m) = Headers(l) \cup {addr}
         /\ m.next[self] = addr /\ m.next[addr] = l.next[self]
         /\ \A a \in Headers(l) : a # self => m.next[a] = l.next[a]
         /\ m.is_free[addr]
         /\ \A a \in Headers(l) : m.is_free[a] = l.is_free[a]
         /\ m.tail = IF l.next[self] = 0 THEN addr ELSE l.tail
<1>1. /\ Headers(l) \subseteq Nat \ {0}
      /\ l.next \in [Headers(l) -> Headers(l) \cup {0}]
      /\ l.is_free \in [Headers(l) -> BOOLEAN]
      /\ l.tail \in Headers(l)
  BY ListFields
<1> DEFINE H == Headers(l) \cup {addr}
           nx == [a \in H |-> IF a = self THEN addr ELSE IF a = addr THEN l.next[self] ELSE l.next[a]]
           fr == [a \in H |-> IF a = addr THEN TRUE ELSE l.is_free[a]]
           tl == IF l.next[self] = 0 THEN addr ELSE l.tail
<1>2. m = [next |-> nx, is_free |-> fr, tail |-> tl]
  BY DEF lli_insert_after, Null
<1>3. m.next = nx /\ m.is_free = fr /\ m.tail = tl /\ Headers(m) = H
  BY <1>2 DEF Headers
<1>4. nx \in [H -> H \cup {0}] /\ fr \in [H -> BOOLEAN] /\ tl \in H
  BY <1>1
<1>5. IsList(m)
  <2>1. H \subseteq Nat \ {0} /\ DOMAIN fr = H
    BY <1>1
  <2> HIDE DEF nx, fr, tl, H
  <2> QED BY <1>2, <1>3, <1>4, <2>1 DEF IsList, Null
<1> QED BY <1>1, <1>3, <1>5

\* What lli_merge_after writes.
LEMMA MergeFields ==
  ASSUME NEW l, IsList(l), NEW self \in Headers(l), NEW gone \in Headers(l),
         gone = l.next[self], gone # self, l.next[gone] # gone,
         \A a \in Headers(l) : a # self => l.next[a] # gone,
         NEW m, m = lli_merge_after(l, self)
  PROVE  /\ IsList(m)
         /\ Headers(m) = Headers(l) \ {gone}
         /\ m.next[self] = l.next[gone]
         /\ \A a \in Headers(m) : a # self => m.next[a] = l.next[a]
         /\ \A a \in Headers(m) : m.is_free[a] = l.is_free[a]
         /\ m.tail = IF gone = l.tail THEN self ELSE l.tail
<1>1. /\ Headers(l) \subseteq Nat \ {0}
      /\ l.next \in [Headers(l) -> Headers(l) \cup {0}]
      /\ l.is_free \in [Headers(l) -> BOOLEAN]
      /\ l.tail \in Headers(l)
  BY ListFields
<1> DEFINE H == Headers(l) \ {gone}
           nx == [a \in H |-> IF a = self THEN l.next[gone] ELSE l.next[a]]
           fr == [a \in H |-> l.is_free[a]]
           tl == IF gone = l.tail THEN self ELSE l.tail
<1>2. m = [next |-> nx, is_free |-> fr, tail |-> tl]
  BY DEF lli_merge_after
<1>3. m.next = nx /\ m.is_free = fr /\ m.tail = tl /\ Headers(m) = H
  BY <1>2 DEF Headers
<1>4. nx \in [H -> H \cup {0}] /\ fr \in [H -> BOOLEAN] /\ tl \in H
  BY <1>1
<1>5. IsList(m)
  <2>1. H \subseteq Nat \ {0} /\ DOMAIN fr = H
    BY <1>1
  <2> HIDE DEF nx, fr, tl, H
  <2> QED BY <1>2, <1>3, <1>4, <2>1 DEF IsList, Null
<1> QED BY <1>3, <1>5

\* Marking one region free changes nothing else.
LEMMA SetFreeFields ==
  ASSUME NEW l, IsList(l), NEW at \in Headers(l), NEW m, m = SetFree(l, at)
  PROVE  /\ IsList(m)
         /\ Headers(m) = Headers(l) /\ m.next = l.next /\ m.tail = l.tail
         /\ m.is_free[at]
         /\ \A a \in Headers(l) : a # at => m.is_free[a] = l.is_free[a]
<1>1. m.next = l.next /\ m.tail = l.tail /\ m.is_free = [l.is_free EXCEPT ![at] = TRUE]
  BY DEF IsList, SetFree
<1>2. Headers(m) = Headers(l)
  BY <1>1 DEF Headers
<1>3. m \in [next : [Headers(l) -> Headers(l) \cup {Null}],
             is_free : [Headers(l) -> BOOLEAN], tail : Headers(l)]
  BY DEF IsList, SetFree
<1>4. IsList(m)
  BY <1>1, <1>2, <1>3 DEF IsList
<1> QED BY <1>1, <1>2, <1>4, ListFields

\* Marking one region used changes nothing else.
LEMMA SetUsedFields ==
  ASSUME NEW l, IsList(l), NEW at \in Headers(l), NEW m, m = SetUsed(l, at)
  PROVE  /\ IsList(m)
         /\ Headers(m) = Headers(l) /\ m.next = l.next /\ m.tail = l.tail
         /\ ~m.is_free[at]
         /\ \A a \in Headers(l) : a # at => m.is_free[a] = l.is_free[a]
<1>1. m.next = l.next /\ m.tail = l.tail /\ m.is_free = [l.is_free EXCEPT ![at] = FALSE]
  BY DEF IsList, SetUsed
<1>2. Headers(m) = Headers(l)
  BY <1>1 DEF Headers
<1>3. m \in [next : [Headers(l) -> Headers(l) \cup {Null}],
             is_free : [Headers(l) -> BOOLEAN], tail : Headers(l)]
  BY DEF IsList, SetUsed
<1>4. IsList(m)
  BY <1>1, <1>2, <1>3 DEF IsList
<1> QED BY <1>1, <1>2, <1>4, ListFields

-----------------------------------------------------------------------------
(* The regions keep tiling the heap.                                       *)

\* Only the tail has no successor, and every region ends where the next header
\* starts.
LEMMA TileFacts ==
  ASSUME NEW l, IsList(l), NEW end \in Nat, Tiles(l, end), NEW a \in Headers(l)
  PROVE  /\ a \in Nat \ {0} /\ Header \in Nat \ {0}
         /\ l.next[a] = 0 <=> a = l.tail
         /\ a # l.tail => l.next[a] \in Headers(l)
         /\ RegionEnd(l, a, end) \in Nat
         /\ a + Header <= RegionEnd(l, a, end)
         /\ RegionEnd(l, a, end) <= end
         /\ \A b \in Headers(l) : b <= a \/ RegionEnd(l, a, end) <= b
<1>1. /\ Headers(l) \subseteq Nat \ {0}
      /\ l.next \in [Headers(l) -> Headers(l) \cup {0}]
      /\ l.tail \in Headers(l)
  BY ListFields
<1>2. Header \in Nat \ {0}
  BY MallocAssumption DEF Header
<1>3. CASE a = l.tail
  BY <1>1, <1>2, <1>3 DEF Tiles, RegionEnd, Null
<1>4. CASE a # l.tail
  <2>1. l.next[a] \in Headers(l) /\ l.next[a] # 0 /\ a + Header <= l.next[a]
    BY <1>1, <1>4 DEF Tiles
  <2>2. RegionEnd(l, a, end) = l.next[a]
    BY <2>1 DEF RegionEnd, Null
  <2>3. l.next[a] <= end
    BY <1>1, <1>2, <2>1 DEF Tiles
  <2> QED BY <1>1, <1>2, <1>4, <2>1, <2>2, <2>3 DEF Tiles
<1> QED BY <1>3, <1>4

\* The end of the heap moves up: only the last region changes.
LEMMA GrowTiles ==
  ASSUME NEW l, IsList(l), NEW end \in Nat, NEW end2 \in Nat, end <= end2, Tiles(l, end)
  PROVE  /\ Tiles(l, end2)
         /\ \A a \in Headers(l) :
               RegionEnd(l, a, end2) = IF a = l.tail THEN end2 ELSE RegionEnd(l, a, end)
<1>1. Headers(l) \subseteq Nat \ {0} /\ l.tail \in Headers(l) /\ Header \in Nat
  BY ListFields, MallocAssumption DEF Header
<1>2. Tiles(l, end2)
  <2>1. l.tail + Header <= end2
    BY <1>1 DEF Tiles
  <2> QED BY <2>1 DEF Tiles
<1>3. \A a \in Headers(l) : l.next[a] = 0 <=> a = l.tail
  BY TileFacts
<1> QED BY <1>2, <1>3 DEF RegionEnd, Null

\* Splitting a region: lli_insert_after where both parts have room for a header.
LEMMA InsertTiles ==
  ASSUME NEW l, IsList(l), NEW end \in Nat, Tiles(l, end),
         NEW self \in Headers(l), NEW addr \in Nat,
         self + Header <= addr, addr + Header <= RegionEnd(l, self, end),
         NEW m, m = lli_insert_after(l, self, addr)
  PROVE  /\ addr \notin Headers(l)
         /\ Tiles(m, end)
         /\ RegionEnd(m, self, end) = addr
         /\ RegionEnd(m, addr, end) = RegionEnd(l, self, end)
         /\ \A a \in Headers(l) : a # self => RegionEnd(m, a, end) = RegionEnd(l, a, end)
<1> DEFINE re == RegionEnd(l, self, end)
<1>1. /\ self \in Nat \ {0} /\ Header \in Nat \ {0} /\ re \in Nat
      /\ l.next[self] = 0 <=> self = l.tail
      /\ \A b \in Headers(l) : b <= self \/ re <= b
      /\ Headers(l) \subseteq Nat \ {0} /\ l.tail \in Headers(l)
      /\ re <= end
  BY TileFacts, ListFields
<1>2. addr \notin Headers(l) /\ addr # 0 /\ self < addr /\ addr < re
  BY <1>1
<1>3. /\ IsList(m)
      /\ Headers(m) = Headers(l) \cup {addr}
      /\ m.next[self] = addr /\ m.next[addr] = l.next[self]
      /\ \A a \in Headers(l) : a # self => m.next[a] = l.next[a]
      /\ m.tail = IF l.next[self] = 0 THEN addr ELSE l.tail
  <2>1. addr \in Nat \ {0} /\ addr \notin Headers(l)
    BY <1>2
  <2> QED BY <2>1, InsertFields
<1>4. /\ RegionEnd(m, self, end) = addr
      /\ RegionEnd(m, addr, end) = re
      /\ \A a \in Headers(l) : a # self => RegionEnd(m, a, end) = RegionEnd(l, a, end)
  BY <1>2, <1>3 DEF RegionEnd, Null
<1>5. m.tail \in Headers(m) /\ m.next[m.tail] = 0 /\ m.tail + Header <= end
  <2>1. CASE self = l.tail
    <3>1. re = end
      BY <1>1, <2>1 DEF RegionEnd, Null
    <3> QED BY <1>1, <1>3, <2>1, <3>1
  <2>2. CASE self # l.tail
    BY <1>1, <1>3, <2>2 DEF Tiles, Null
  <2> QED BY <2>1, <2>2
<1>6. ASSUME NEW a \in Headers(m)
      PROVE  /\ HeapStart <= a /\ a <= m.tail
             /\ a # m.tail =>
                   /\ m.next[a] \in Headers(m)
                   /\ a + Header <= m.next[a]
                   /\ \A b \in Headers(m) : b <= a \/ m.next[a] <= b
  <2>1. HeapStart \in Nat /\ HeapStart <= self /\ self <= l.tail
    BY MallocAssumption DEF Tiles
  <2>2. CASE a = addr
    <3>1. CASE self = l.tail
      BY <1>1, <1>2, <1>3, <2>1, <2>2, <3>1
    <3>2. CASE self # l.tail
      <4>1. re = l.next[self] /\ l.next[self] \in Headers(l) /\ m.tail = l.tail
        BY <1>1, <1>3, <3>2, TileFacts DEF RegionEnd, Null
      <4>2. HeapStart <= a /\ a <= m.tail
        BY <1>1, <1>2, <2>1, <2>2, <4>1 DEF Tiles
      <4>3. m.next[a] = re /\ a + Header <= re
        BY <1>3, <2>2, <4>1
      <4>4. \A b \in Headers(m) : b <= a \/ re <= b
        BY <1>1, <1>2, <1>3, <2>2
      <4> QED BY <1>3, <4>1, <4>2, <4>3, <4>4
    <3> QED BY <3>1, <3>2
  <2>3. CASE a = self
    <3>1. a <= m.tail
      BY <1>1, <1>2, <1>3, <2>1, <2>3
    <3>2. \A b \in Headers(m) : b <= a \/ addr <= b
      BY <1>1, <1>2, <1>3, <2>3
    <3> QED BY <1>3, <2>1, <2>3, <3>1, <3>2
  <2>4. CASE a \in Headers(l) /\ a # self
    <3>1. HeapStart <= a /\ a <= l.tail /\ a \in Nat
      BY <1>1, <2>4 DEF Tiles
    <3>2. a <= m.tail
      BY <1>1, <1>2, <1>3, <3>1
    <3>3. ASSUME a # m.tail
          PROVE  /\ m.next[a] \in Headers(m)
                 /\ a + Header <= m.next[a]
                 /\ \A b \in Headers(m) : b <= a \/ m.next[a] <= b
      <4>1. a # l.tail
        BY <1>1, <1>3, <2>4, <3>3
      <4>2. /\ m.next[a] = l.next[a] /\ l.next[a] \in Headers(l) /\ a + Header <= l.next[a]
            /\ \A b \in Headers(l) : b <= a \/ l.next[a] <= b
        BY <1>3, <2>4, <4>1 DEF Tiles
      <4>3. addr <= a \/ l.next[a] <= addr
        BY <1>1, <1>2, <2>4, <4>2
      <4> QED BY <1>3, <4>2, <4>3
    <3> QED BY <3>1, <3>2, <3>3
  <2> QED BY <1>3, <2>2, <2>3, <2>4
<1>7. Tiles(m, end)
  BY <1>3, <1>5, <1>6 DEF Tiles, Null
<1> QED BY <1>2, <1>4, <1>7

\* Coalescing: the free region after self becomes part of self's.
LEMMA MergeTiles ==
  ASSUME NEW l, IsList(l), NEW end \in Nat, Tiles(l, end),
         NEW self \in Headers(l), CanMerge(l, self),
         NEW m, m = lli_merge_after(l, self)
  PROVE  /\ IsList(m) /\ Tiles(m, end)
         /\ l.next[self] \in Headers(l) /\ self < l.next[self]
         /\ l.is_free[self] /\ l.is_free[l.next[self]]
         /\ Headers(m) = Headers(l) \ {l.next[self]}
         /\ \A a \in Headers(m) : a # self => m.next[a] = l.next[a]
         /\ \A a \in Headers(m) : m.is_free[a] = l.is_free[a]
         /\ m.tail = IF l.next[self] = l.tail THEN self ELSE l.tail
         /\ RegionEnd(m, self, end) = RegionEnd(l, l.next[self], end)
         /\ \A a \in Headers(m) : a # self => RegionEnd(m, a, end) = RegionEnd(l, a, end)
<1> DEFINE gone == l.next[self]
<1>1. /\ self \in Nat \ {0} /\ Header \in Nat \ {0} /\ self # l.tail
      /\ gone \in Headers(l) /\ gone \in Nat \ {0} /\ gone # 0
      /\ Headers(l) \subseteq Nat \ {0} /\ l.tail \in Headers(l)
      /\ l.is_free[self] /\ l.is_free[gone]
  BY TileFacts, ListFields DEF CanMerge, Null
<1>2. self + Header <= gone /\ \A b \in Headers(l) : b <= self \/ gone <= b
  BY <1>1 DEF Tiles
<1>3. self < gone /\ gone # self
  BY <1>1, <1>2
<1>4. \A a \in Headers(l) : a # self => l.next[a] # gone
  <2> SUFFICES ASSUME NEW a \in Headers(l), a # self, l.next[a] = gone PROVE FALSE
    OBVIOUS
  <2>1. a # l.tail
    BY <1>1 DEF Tiles, Null
  <2>2. a + Header <= gone /\ (self <= a \/ gone <= self)
    BY <2>1 DEF Tiles
  <2>3. a <= self \/ gone <= a
    BY <1>2
  <2> QED BY <1>1, <1>3, <2>2, <2>3
<1>5. l.next[gone] # gone
  BY <1>1 DEF Tiles, Null
<1>6. /\ IsList(m)
      /\ Headers(m) = Headers(l) \ {gone}
      /\ m.next[self] = l.next[gone]
      /\ \A a \in Headers(m) : a # self => m.next[a] = l.next[a]
      /\ \A a \in Headers(m) : m.is_free[a] = l.is_free[a]
      /\ m.tail = IF gone = l.tail THEN self ELSE l.tail
  <2> HIDE DEF gone
  <2>1. gone = l.next[self]
    BY DEF gone
  <2> QED BY <1>1, <1>3, <1>4, <1>5, <2>1, MergeFields
<1>7. /\ RegionEnd(m, self, end) = RegionEnd(l, gone, end)
      /\ \A a \in Headers(m) : a # self => RegionEnd(m, a, end) = RegionEnd(l, a, end)
  BY <1>6 DEF RegionEnd
<1> HIDE DEF gone
<1>8. self \in Headers(m) /\ m.tail \in Headers(m)
  BY <1>1, <1>3, <1>6
<1>9. m.next[m.tail] = 0 /\ m.tail + Header <= end
  <2>1. CASE gone = l.tail
    <3>1. l.next[gone] = 0 /\ gone + Header <= end
      BY <2>1 DEF Tiles, Null
    <3> QED BY <1>1, <1>3, <1>6, <2>1, <3>1, TileFacts
  <2>2. CASE gone # l.tail
    BY <1>1, <1>6, <1>8, <2>2 DEF Tiles, Null
  <2> QED BY <2>1, <2>2
<1>10. ASSUME NEW a \in Headers(m)
       PROVE  /\ HeapStart <= a /\ a <= m.tail
              /\ a # m.tail =>
                    /\ m.next[a] \in Headers(m)
                    /\ a + Header <= m.next[a]
                    /\ \A b \in Headers(m) : b <= a \/ m.next[a] <= b
  <2>1. a \in Headers(l) /\ a # gone /\ a \in Nat \ {0} /\ HeapStart <= a /\ a <= l.tail
    BY <1>1, <1>6 DEF Tiles
  <2>2. a <= m.tail
    BY <1>1, <1>2, <1>3, <1>6, <2>1
  <2>3. ASSUME a # m.tail, a = self
        PROVE  /\ m.next[a] \in Headers(m)
               /\ a + Header <= m.next[a]
               /\ \A b \in Headers(m) : b <= a \/ m.next[a] <= b
    <3>1. gone # l.tail
      BY <1>6, <2>3
    <3>2. /\ l.next[gone] \in Headers(l) /\ gone + Header <= l.next[gone]
          /\ \A b \in Headers(l) : b <= gone \/ l.next[gone] <= b
      BY <1>1, <3>1 DEF Tiles
    <3>3. l.next[gone] \in Headers(m) /\ l.next[gone] \in Nat
      BY <1>1, <1>5, <1>6, <3>2
    <3>4. a + Header <= l.next[gone]
      BY <1>1, <1>3, <2>3, <3>2, <3>3
    <3>5. \A b \in Headers(m) : b <= a \/ l.next[gone] <= b
      <4> SUFFICES ASSUME NEW b \in Headers(m) PROVE b <= a \/ l.next[gone] <= b
        OBVIOUS
      <4>1. b \in Headers(l) /\ b # gone /\ b \in Nat
        BY <1>1, <1>6
      <4>2. b <= self \/ gone <= b
        BY <1>2, <4>1
      <4>3. b <= gone \/ l.next[gone] <= b
        BY <3>2, <4>1
      <4> QED BY <1>1, <2>3, <3>3, <4>1, <4>2, <4>3
    <3> QED BY <1>6, <2>3, <3>3, <3>4, <3>5
  <2>4. ASSUME a # m.tail, a # self
        PROVE  /\ m.next[a] \in Headers(m)
               /\ a + Header <= m.next[a]
               /\ \A b \in Headers(m) : b <= a \/ m.next[a] <= b
    <3>1. a # l.tail
      BY <1>6, <2>1, <2>4
    <3>2. /\ l.next[a] \in Headers(l) /\ a + Header <= l.next[a]
          /\ \A b \in Headers(l) : b <= a \/ l.next[a] <= b
      BY <2>1, <3>1 DEF Tiles
    <3>3. l.next[a] # gone
      BY <1>4, <2>1, <2>4
    <3> QED BY <1>6, <2>4, <3>2, <3>3
  <2> QED BY <2>1, <2>2, <2>3, <2>4
<1>11. Tiles(m, end)
  <2>1. HeapStart \in Headers(m)
    <3>1. HeapStart \in Headers(l) /\ HeapStart <= self /\ HeapStart \in Nat
      BY <1>1 DEF Tiles
    <3> QED BY <1>1, <1>3, <1>6, <3>1
  <2> QED BY <1>9, <1>10, <2>1 DEF Tiles, Null
<1> QED BY <1>1, <1>3, <1>6, <1>7, <1>11 DEF gone

\* Marking a region keeps the tiling.
LEMMA SetFreeTiles ==
  ASSUME NEW l, IsList(l), NEW end, Tiles(l, end), NEW at \in Headers(l),
         NEW m, m = SetFree(l, at)
  PROVE  /\ IsList(m) /\ Tiles(m, end)
         /\ Headers(m) = Headers(l) /\ m.next = l.next /\ m.tail = l.tail
         /\ m.is_free[at]
         /\ \A a \in Headers(l) : a # at => m.is_free[a] = l.is_free[a]
         /\ \A a \in Headers(l) : RegionEnd(m, a, end) = RegionEnd(l, a, end)
<1>1. /\ IsList(m) /\ Headers(m) = Headers(l) /\ m.next = l.next /\ m.tail = l.tail
      /\ m.is_free[at]
      /\ \A a \in Headers(l) : a # at => m.is_free[a] = l.is_free[a]
  BY SetFreeFields
<1>2. Tiles(m, end)
  BY <1>1 DEF Tiles
<1> QED BY <1>1, <1>2 DEF RegionEnd

\* The same for a region that becomes used.
LEMMA SetUsedTiles ==
  ASSUME NEW l, IsList(l), NEW end, Tiles(l, end), NEW at \in Headers(l),
         NEW m, m = SetUsed(l, at)
  PROVE  /\ IsList(m) /\ Tiles(m, end)
         /\ Headers(m) = Headers(l) /\ m.next = l.next /\ m.tail = l.tail
         /\ ~m.is_free[at]
         /\ \A a \in Headers(l) : a # at => m.is_free[a] = l.is_free[a]
         /\ \A a \in Headers(l) : RegionEnd(m, a, end) = RegionEnd(l, a, end)
<1>1. /\ IsList(m) /\ Headers(m) = Headers(l) /\ m.next = l.next /\ m.tail = l.tail
      /\ ~m.is_free[at]
      /\ \A a \in Headers(l) : a # at => m.is_free[a] = l.is_free[a]
  BY SetUsedFields
<1>2. Tiles(m, end)
  BY <1>1 DEF Tiles
<1> QED BY <1>1, <1>2 DEF RegionEnd

\* The end of malloc: the region is used, what is too much of it is a free region
\* behind it, and the checks of lli_insert_after pass.
LEMMA ReserveTiles ==
  ASSUME NEW l, IsList(l), NEW end \in Nat, Tiles(l, end), NEW at \in Headers(l),
         NEW size \in Nat, lli_region_size(l, at, end) >= size,
         NEW m, m = Reserve(l, at, size, end)
  PROVE  /\ IsList(m) /\ Tiles(m, end)
         /\ Headers(l) \subseteq Headers(m)
         /\ ~m.is_free[at]
         /\ \A a \in Headers(l) : a # at => /\ m.is_free[a] = l.is_free[a]
                                            /\ RegionEnd(m, a, end) = RegionEnd(l, a, end)
         /\ at + Header + size <= RegionEnd(m, at, end)
         /\ \A a \in Headers(m) : a \notin Headers(l) => m.is_free[a]
         /\ Splits(l, at, size, end) => ~BadInsert(l, at, at + Header + size)
<1> DEFINE used == SetUsed(l, at)
           addr == at + Header + size
<1>1. /\ at \in Nat \ {0} /\ Header \in Nat \ {0} /\ RegionEnd(l, at, end) \in Nat
      /\ l.next[at] # 0 => RegionEnd(l, at, end) = l.next[at]
      /\ addr \in Nat
  BY TileFacts DEF RegionEnd, Null
<1>2. at + Header + size <= RegionEnd(l, at, end)
  BY <1>1 DEF lli_region_size
<1>3. /\ IsList(used) /\ Tiles(used, end) /\ Headers(used) = Headers(l)
      /\ used.next = l.next
      /\ ~used.is_free[at]
      /\ \A a \in Headers(l) : a # at => used.is_free[a] = l.is_free[a]
      /\ \A a \in Headers(l) : RegionEnd(used, a, end) = RegionEnd(l, a, end)
  BY SetUsedTiles
<1>4. Splits(used, at, size, end) <=> Splits(l, at, size, end)
  BY <1>3 DEF Splits, lli_region_size
<1> HIDE DEF used
<1>5. CASE ~Splits(used, at, size, end)
  <2>1. m = used
    BY <1>5 DEF Reserve, used
  <2> QED BY <1>1, <1>2, <1>3, <1>4, <1>5, <2>1
<1>6. CASE Splits(used, at, size, end)
  <2>1. m = lli_insert_after(used, at, addr)
    BY <1>6 DEF Reserve, used
  <2>2. addr + Header <= RegionEnd(l, at, end) /\ at + Header <= addr
    BY <1>1, <1>4, <1>6 DEF Splits, lli_region_size
  <2>3. addr + Header <= RegionEnd(used, at, end)
    BY <1>3, <2>2
  <2> HIDE DEF addr
  <2>4. /\ addr \notin Headers(used) /\ Tiles(m, end)
        /\ RegionEnd(m, at, end) = addr
        /\ \A a \in Headers(used) : a # at => RegionEnd(m, a, end) = RegionEnd(used, a, end)
    BY <1>1, <1>3, <2>1, <2>2, <2>3, InsertTiles
  <2>5. addr \in Nat \ {0}
    BY <1>1, <2>2
  <2>6. /\ IsList(m) /\ Headers(m) = Headers(used) \cup {addr}
        /\ m.is_free[addr]
        /\ \A a \in Headers(used) : m.is_free[a] = used.is_free[a]
    BY <1>3, <2>1, <2>4, <2>5, InsertFields
  <2>7. ~BadInsert(l, at, addr)
    BY <1>1, <2>2 DEF BadInsert, Null
  <2>8. addr <= RegionEnd(m, at, end)
    BY <1>1, <2>4
  <2> QED BY <1>3, <2>4, <2>6, <2>7, <2>8 DEF addr
<1> QED BY <1>5, <1>6

-----------------------------------------------------------------------------
(* Blocks and regions.                                                     *)

\* A type of block tables.
IsBlocks(b) == DOMAIN b \subseteq Nat \ {0} /\ b \in [DOMAIN b -> Nat \ {0}]

\* Giving out a free region that is big enough.
LEMMA ReserveFills ==
  ASSUME NEW l, IsList(l), NEW end \in Nat, Tiles(l, end), NEW at \in Headers(l),
         l.is_free[at],
         NEW size \in Nat, lli_region_size(l, at, end) >= size,
         NEW asked \in Nat \ {0}, asked <= size,
         NEW b, IsBlocks(b), Fills(l, b, end),
         NEW m, m = Reserve(l, at, size, end),
         NEW b2, b2 = [p \in DOMAIN b \cup {at + Header} |->
                          IF p = at + Header THEN asked ELSE b[p]]
  PROVE  /\ IsBlocks(b2) /\ Fills(m, b2, end)
         /\ at + Header \notin DOMAIN b
<1>1. /\ IsList(m) /\ Tiles(m, end)
      /\ Headers(l) \subseteq Headers(m)
      /\ ~m.is_free[at]
      /\ \A a \in Headers(l) : a # at => /\ m.is_free[a] = l.is_free[a]
                                         /\ RegionEnd(m, a, end) = RegionEnd(l, a, end)
      /\ at + Header + size <= RegionEnd(m, at, end)
      /\ \A a \in Headers(m) : a \notin Headers(l) => m.is_free[a]
  BY ReserveTiles
<1>2. at \in Nat \ {0} /\ Header \in Nat \ {0}
  BY TileFacts
<1>3. at + Header \in Nat \ {0} /\ (at + Header) - Header = at
  BY <1>2
<1>4. at + Header \notin DOMAIN b
  BY <1>3 DEF Fills
<1>5. IsBlocks(b2)
  BY <1>3 DEF IsBlocks
<1>6. \A p \in DOMAIN b : p # at + Header /\ b2[p] = b[p]
  BY <1>4
<1>7. ASSUME NEW p \in DOMAIN b2
      PROVE  /\ p - Header \in Headers(m) /\ ~m.is_free[p - Header]
             /\ p + b2[p] <= RegionEnd(m, p - Header, end)
  <2>1. CASE p = at + Header
    <3>1. RegionEnd(m, at, end) \in Nat
      BY <1>1, TileFacts
    <3>2. b2[p] = asked /\ p - Header = at
      BY <1>3, <2>1
    <3> QED BY <1>1, <1>2, <2>1, <3>1, <3>2
  <2>2. CASE p \in DOMAIN b
    <3>1. /\ p - Header \in Headers(l) /\ ~l.is_free[p - Header]
          /\ p + b[p] <= RegionEnd(l, p - Header, end)
      BY <2>2 DEF Fills
    <3>2. p - Header # at
      BY <3>1
    <3> QED BY <1>1, <1>6, <2>2, <3>1, <3>2
  <2> QED BY <2>1, <2>2
<1>8. ASSUME NEW a \in Headers(m), ~m.is_free[a] PROVE a + Header \in DOMAIN b2
  <2>1. a \in Headers(l)
    BY <1>1, <1>8
  <2>2. CASE a = at
    BY <2>2
  <2>3. CASE a # at
    BY <1>1, <1>8, <2>1, <2>3 DEF Fills
  <2> QED BY <2>2, <2>3
<1> QED BY <1>4, <1>5, <1>7, <1>8 DEF Fills

\* Taking a block back: its region, and only that, becomes free.
LEMMA FreeFills ==
  ASSUME NEW l, IsList(l), NEW end \in Nat, Tiles(l, end),
         NEW b, IsBlocks(b), Fills(l, b, end), NEW p \in DOMAIN b,
         NEW m, m = SetFree(l, p - Header),
         NEW b2, b2 = [q \in DOMAIN b \ {p} |-> b[q]]
  PROVE  IsList(m) /\ Tiles(m, end) /\ IsBlocks(b2) /\ Fills(m, b2, end)
<1> DEFINE at == p - Header
<1>1. at \in Headers(l) /\ ~l.is_free[at]
  BY DEF Fills
<1>2. Header \in Nat /\ p \in Nat /\ \A q \in DOMAIN b : q \in Nat
  BY MallocAssumption DEF Header, IsBlocks
<1>3. /\ IsList(m) /\ Tiles(m, end) /\ Headers(m) = Headers(l)
      /\ m.is_free[at]
      /\ \A a \in Headers(l) : a # at => m.is_free[a] = l.is_free[a]
      /\ \A a \in Headers(l) : RegionEnd(m, a, end) = RegionEnd(l, a, end)
  BY <1>1, SetFreeTiles
<1>4. IsBlocks(b2) /\ DOMAIN b2 = DOMAIN b \ {p}
  BY DEF IsBlocks
<1>5. ASSUME NEW q \in DOMAIN b2
      PROVE  /\ q - Header \in Headers(m) /\ ~m.is_free[q - Header]
             /\ q + b2[q] <= RegionEnd(m, q - Header, end)
  <2>1. q \in DOMAIN b /\ q # p /\ b2[q] = b[q]
    OBVIOUS
  <2>2. q - Header # at
    BY <1>2, <2>1
  <2>3. /\ q - Header \in Headers(l) /\ ~l.is_free[q - Header]
        /\ q + b[q] <= RegionEnd(l, q - Header, end)
    BY <2>1 DEF Fills
  <2> QED BY <1>3, <2>1, <2>2, <2>3
<1>6. ASSUME NEW a \in Headers(m), ~m.is_free[a] PROVE a + Header \in DOMAIN b2
  <2>1. a \in Headers(l) /\ a # at /\ ~l.is_free[a] /\ a \in Nat
    BY <1>3, <1>6, ListFields
  <2>2. a + Header \in DOMAIN b
    BY <2>1 DEF Fills
  <2>3. a + Header # p
    BY <1>2, <2>1
  <2> QED BY <1>4, <2>2, <2>3
<1> QED BY <1>3, <1>4, <1>5, <1>6 DEF Fills

-----------------------------------------------------------------------------
(* The steps of the allocator.                                             *)

\* The invariant, as the lemmas above need it.
LEMMA InvFacts ==
  ASSUME MallocInv
  PROVE  /\ IsList(list) /\ heap_end \in Nat /\ Tiles(list, heap_end)
         /\ IsBlocks(blocks) /\ Fills(list, blocks, heap_end)
         /\ charged \in Nat /\ limit \in Nat /\ aborted = FALSE
         /\ heap_end = HeapStart + charged * PageSize
  BY DEF MallocInv, TypeOK, ListTilesHeap, BlocksFillUsedRegions, IsBlocks, Null, NeverAborts,
         ChargeMatchesHeap

\* The call under way.
LEMMA CallFacts ==
  ASSUME MallocInv, Scanning
  PROVE  /\ call \in [asked : Nat \ {0}, size : Nat, cursor : Headers(list),
                      old : DOMAIN blocks \cup {0}]
         /\ call.asked \in Nat \ {0} /\ call.size \in Nat /\ call.asked <= call.size
         /\ call.cursor \in Headers(list) /\ call.old \in DOMAIN blocks \cup {0}
<1>1. call \in [asked : Nat \ {0}, size : Nat, cursor : Headers(list),
                old : DOMAIN blocks \cup {0}]
  BY DEF MallocInv, TypeOK, Scanning, Null
<1>2. call.size >= call.asked
  BY DEF MallocInv, SizeCoversRequest, Scanning
<1> QED BY <1>1, <1>2

\* Between two calls nothing is claimed about the cursor.
LEMMA IdleInv ==
  ASSUME call' = Idle, aborted' = FALSE,
         IsList(list'), heap_end' \in Nat, Tiles(list', heap_end'),
         IsBlocks(blocks'), Fills(list', blocks', heap_end'),
         charged' \in Nat, limit' \in Nat, heap_end' = HeapStart + charged' * PageSize
  PROVE  MallocInv'
<1>1. TypeOK'
  BY DEF TypeOK, IsBlocks, Null
<1>2. SizeCoversRequest' /\ NothingLeftBehind'
  BY DEF SizeCoversRequest, NothingLeftBehind, Scanning
<1> QED BY <1>1, <1>2 DEF MallocInv, ListTilesHeap, BlocksFillUsedRegions, NeverAborts,
                          ChargeMatchesHeap

\* malloc and realloc answer with the block behind a free region big enough.
LEMMA AnswerFacts ==
  ASSUME MallocInv, Scanning,
         NEW l, IsList(l), NEW end \in Nat, Tiles(l, end), Fills(l, blocks, end),
         NEW at \in Headers(l), l.is_free[at],
         lli_region_size(l, at, end) >= call.size,
         Answer(l, at, end)
  PROVE  /\ call' = Idle /\ aborted' = FALSE
         /\ IsList(list') /\ Tiles(list', end)
         /\ IsBlocks(blocks') /\ Fills(list', blocks', end)
<1>1. /\ call.asked \in Nat \ {0} /\ call.size \in Nat /\ call.asked <= call.size
      /\ call.old \in DOMAIN blocks \cup {0} /\ IsBlocks(blocks)
  BY CallFacts, InvFacts
<1> DEFINE m == Reserve(l, at, call.size, end)
           new == at + Header
           b == [p \in DOMAIN blocks \cup {new} |-> IF p = new THEN call.asked ELSE blocks[p]]
<1>2. /\ IsList(m) /\ Tiles(m, end)
      /\ Splits(l, at, call.size, end) => ~BadInsert(l, at, at + Header + call.size)
  BY <1>1, ReserveTiles
<1>3. IsBlocks(b) /\ Fills(m, b, end) /\ new \notin DOMAIN blocks
  BY <1>1, ReserveFills
<1>4. call' = Idle /\ aborted' = FALSE
  BY <1>2 DEF Answer
<1>5. CASE call.old = 0
  <2>1. list' = m
    BY <1>5 DEF Answer, Null
  <2>2. (DOMAIN blocks \cup {new}) \ {0} = DOMAIN b
    BY <1>3 DEF IsBlocks
  <2>3. blocks' = b
    BY <1>5, <2>2 DEF Answer
  <2> QED BY <1>2, <1>3, <1>4, <2>1, <2>3
<1>6. CASE call.old # 0
  <2>1. call.old \in DOMAIN blocks /\ call.old \in DOMAIN b
    BY <1>1, <1>6
  <2>2. list' = SetFree(m, call.old - Header)
    BY <1>6 DEF Answer, Null
  <2>3. blocks' = [q \in DOMAIN b \ {call.old} |-> b[q]]
    <3>1. blocks' = [p \in (DOMAIN blocks \cup {new}) \ {call.old} |->
                        IF p = new THEN call.asked ELSE blocks[p]]
      BY DEF Answer
    <3> QED BY <3>1
  <2> HIDE DEF m, b, new
  <2> QED BY <1>2, <1>3, <1>4, <2>1, <2>2, <2>3, FreeFills
<1> QED BY <1>5, <1>6

\* A region that is free and big enough is given out.
LEMMA TakeFitInv == ASSUME MallocInv, TakeFit PROVE MallocInv'
<1>1. /\ Scanning /\ Fits(call.cursor) /\ Answer(list, call.cursor, heap_end)
      /\ UNCHANGED <<heap_end, charged, limit>>
  BY DEF TakeFit
<1>2. /\ call.cursor \in Headers(list) /\ list.is_free[call.cursor]
      /\ lli_region_size(list, call.cursor, heap_end) >= call.size
  BY <1>1, CallFacts DEF Fits
<1>3. /\ call' = Idle /\ aborted' = FALSE
      /\ IsList(list') /\ Tiles(list', heap_end)
      /\ IsBlocks(blocks') /\ Fills(list', blocks', heap_end)
  BY <1>1, <1>2, InvFacts, AnswerFacts
<1> QED BY <1>1, <1>3, InvFacts, IdleInv

\* A block is freed.
LEMMA FreeInv == ASSUME MallocInv, NEW p \in DOMAIN blocks, free(p) PROVE MallocInv'
<1>1. /\ list' = SetFree(list, p - Header)
      /\ blocks' = [q \in DOMAIN blocks \ {p} |-> blocks[q]]
      /\ call' = Idle /\ aborted' = FALSE
      /\ UNCHANGED <<heap_end, charged, limit>>
  BY InvFacts DEF free
<1>2. IsList(list') /\ Tiles(list', heap_end) /\ IsBlocks(blocks') /\ Fills(list', blocks', heap_end)
  BY <1>1, InvFacts, FreeFills
<1> QED BY <1>1, <1>2, InvFacts, IdleInv

\* The limit changes between two calls.
LEMMA LimitInv == ASSUME MallocInv, NEW n \in Limits, try_update(n) PROVE MallocInv'
<1>1. /\ limit' = n /\ n \in Nat /\ call' = Idle
      /\ UNCHANGED <<list, heap_end, blocks, charged, aborted>>
  BY MallocAssumption DEF try_update
<1>2. /\ IsList(list') /\ Tiles(list', heap_end') /\ IsBlocks(blocks')
      /\ Fills(list', blocks', heap_end')
  BY <1>1, InvFacts
<1> QED BY <1>1, <1>2, InvFacts, IdleInv

\* Division that rounds up: to the alignment, and to whole pages.
LEMMA RoundUp ==
  ASSUME NEW n \in Nat, NEW f \in Nat \ {0}
  PROVE  /\ (n + f - 1) \div f \in Nat
         /\ ((n + f - 1) \div f) * f >= n
<1> DEFINE q == (n + f - 1) \div f
           r == (n + f - 1) % f
<1>1. q \in Int /\ r \in 0..(f - 1) /\ n + f - 1 = f * q + r
  OBVIOUS
<1>2. q * f = f * q
  BY <1>1
<1> HIDE DEF q, r
<1>3. q * f >= n
  BY <1>1, <1>2
<1>4. q >= 0
  <2> SUFFICES ASSUME q <= -1 PROVE FALSE
    BY <1>1
  <2>1. q * f <= (-1) * f
    BY <1>1
  <2> QED BY <1>1, <1>3, <2>1
<1> QED BY <1>1, <1>3, <1>4 DEF q

\* Rounding to the alignment never loses a byte.
LEMMA RoundedCovers ==
  ASSUME NEW n \in Nat
  PROVE  Rounded(n) \in Nat /\ Rounded(n) >= n
<1> DEFINE q == (n + Align - 1) \div Align
<1>1. Align \in Nat \ {0}
  BY MallocAssumption
<1>2. q \in Nat /\ q * Align >= n
  BY <1>1, RoundUp
<1> HIDE DEF q
<1>3. Rounded(n) = q * Align
  BY DEF Rounded, q
<1> QED BY <1>1, <1>2, <1>3

\* A call starts at the head of the list, with nothing behind it.
LEMMA MallocCallInv ==
  ASSUME MallocInv, NEW size \in Sizes, NEW old \in DOMAIN blocks \cup {0}, malloc(size, old)
  PROVE  MallocInv'
<1>1. /\ call' = [asked |-> size, size |-> Rounded(size), cursor |-> HeapStart, old |-> old]
      /\ UNCHANGED <<list, heap_end, blocks, charged, limit, aborted>>
  BY DEF malloc
<1>2. size \in Nat \ {0} /\ Rounded(size) \in Nat /\ Rounded(size) >= size
  BY MallocAssumption, RoundedCovers
<1>3. HeapStart \in Headers(list) /\ \A a \in Headers(list) : HeapStart <= a /\ a \in Nat
  BY InvFacts, ListFields DEF Tiles
<1>4. TypeOK'
  BY <1>1, <1>2, <1>3, InvFacts DEF TypeOK, MallocInv, Null
<1>5. SizeCoversRequest'
  BY <1>1, <1>2 DEF SizeCoversRequest
<1>6. NothingLeftBehind'
  <2>1. call'.cursor = HeapStart /\ HeapStart \in Nat
    BY <1>1, MallocAssumption
  <2>2. \A a \in Headers(list') : ~(a < call'.cursor)
    BY <1>1, <1>3, <2>1
  <2> QED BY <2>2 DEF NothingLeftBehind
<1>7. ListTilesHeap' /\ BlocksFillUsedRegions' /\ NeverAborts' /\ ChargeMatchesHeap'
  BY <1>1 DEF MallocInv, ListTilesHeap, BlocksFillUsedRegions, NeverAborts, ChargeMatchesHeap
<1> QED BY <1>4, <1>5, <1>6, <1>7 DEF MallocInv

\* The walk coalesces at its cursor.
LEMMA CoalesceInv == ASSUME MallocInv, Coalesce PROVE MallocInv'
<1> DEFINE c == call.cursor
           gone == list.next[c]
<1>1. /\ Scanning /\ CanMerge(list, c)
      /\ list' = lli_merge_after(list, c)
      /\ UNCHANGED <<heap_end, call, blocks, charged, limit, aborted>>
  BY DEF Coalesce
<1>2. /\ c \in Headers(list)
      /\ call \in [asked : Nat \ {0}, size : Nat, cursor : Headers(list),
                   old : DOMAIN blocks \cup {0}]
  BY <1>1, CallFacts
<1>3. /\ IsList(list) /\ heap_end \in Nat /\ Tiles(list, heap_end)
      /\ IsBlocks(blocks) /\ Fills(list, blocks, heap_end)
  BY InvFacts
<1>4. /\ IsList(list') /\ Tiles(list', heap_end)
      /\ gone \in Headers(list) /\ c < gone
      /\ list.is_free[c] /\ list.is_free[gone]
      /\ Headers(list') = Headers(list) \ {gone}
      /\ \A a \in Headers(list') : a # c => list'.next[a] = list.next[a]
      /\ \A a \in Headers(list') : list'.is_free[a] = list.is_free[a]
      /\ \A a \in Headers(list') : a # c => RegionEnd(list', a, heap_end) = RegionEnd(list, a, heap_end)
  BY <1>1, <1>2, <1>3, MergeTiles
<1> HIDE DEF c, gone
<1>5. c \in Headers(list') /\ c \in Nat /\ Headers(list) \subseteq Nat \ {0}
  BY <1>2, <1>3, <1>4, ListFields
<1>6. Fills(list', blocks, heap_end)
  <2>1. ASSUME NEW p \in DOMAIN blocks
        PROVE  /\ p - Header \in Headers(list') /\ ~list'.is_free[p - Header]
               /\ p + blocks[p] <= RegionEnd(list', p - Header, heap_end)
    <3>1. /\ p - Header \in Headers(list) /\ ~list.is_free[p - Header]
          /\ p + blocks[p] <= RegionEnd(list, p - Header, heap_end)
      BY <1>3 DEF Fills
    <3>2. p - Header # c /\ p - Header # gone
      BY <1>4, <3>1
    <3> QED BY <1>4, <3>1, <3>2
  <2>2. ASSUME NEW a \in Headers(list'), ~list'.is_free[a] PROVE a + Header \in DOMAIN blocks
    BY <1>3, <1>4, <2>2 DEF Fills
  <2> QED BY <2>1, <2>2 DEF Fills
<1>7. TypeOK'
  <2>1. call' \in [asked : Nat \ {0}, size : Nat, cursor : Headers(list'),
                   old : DOMAIN blocks' \cup {0}]
    BY <1>1, <1>2, <1>5 DEF c
  <2> QED BY <1>1, <1>4, <2>1 DEF MallocInv, TypeOK, Null
<1>8. NothingLeftBehind'
  <2> SUFFICES ASSUME NEW a \in Headers(list'), a < c
               PROVE  ~CanMerge(list', a) /\ ~Fits(a)'
    BY <1>1 DEF NothingLeftBehind, c
  <2>1. a \in Headers(list) /\ a # c /\ a # gone /\ ~CanMerge(list, a) /\ ~Fits(a)
    BY <1>1, <1>4, <1>5 DEF MallocInv, NothingLeftBehind, c
  <2>2. list.next[a] # gone
    <3>1. a # list.tail => \A b \in Headers(list) : b <= a \/ list.next[a] <= b
      BY <1>3, <2>1 DEF Tiles
    <3>2. list.next[a] = 0 <=> a = list.tail
      BY <1>3, <2>1, TileFacts
    <3> QED BY <1>2, <1>4, <1>5, <2>1, <3>1, <3>2 DEF c
  <2>3. ~CanMerge(list', a)
    <3>1. CASE list.next[a] = 0
      BY <1>4, <2>1, <3>1 DEF CanMerge, Null
    <3>2. CASE list.next[a] # 0
      <4>1. list.next[a] \in Headers(list')
        BY <1>3, <1>4, <2>1, <2>2, <3>2, ListFields
      <4> QED BY <1>4, <2>1, <4>1 DEF CanMerge, Null
    <3> QED BY <3>1, <3>2
  <2>4. ~Fits(a)'
    BY <1>1, <1>4, <2>1 DEF Fits, lli_region_size
  <2> QED BY <2>3, <2>4
<1>9. SizeCoversRequest' /\ NeverAborts' /\ ChargeMatchesHeap'
  BY <1>1 DEF MallocInv, SizeCoversRequest, NeverAborts, ChargeMatchesHeap
<1>10. ListTilesHeap' /\ BlocksFillUsedRegions'
  BY <1>1, <1>4, <1>6 DEF ListTilesHeap, BlocksFillUsedRegions
<1> QED BY <1>7, <1>8, <1>9, <1>10 DEF MallocInv

\* The walk moves on.
LEMMA AdvanceInv == ASSUME MallocInv, Advance PROVE MallocInv'
<1> DEFINE c == call.cursor
<1>1. /\ Scanning /\ ~CanMerge(list, c) /\ ~Fits(c) /\ list.next[c] # 0
      /\ call' = [call EXCEPT !.cursor = list.next[c]]
      /\ UNCHANGED <<list, heap_end, blocks, charged, limit, aborted>>
  BY DEF Advance, Null
<1>2. /\ c \in Headers(list)
      /\ call \in [asked : Nat \ {0}, size : Nat, cursor : Headers(list),
                   old : DOMAIN blocks \cup {0}]
      /\ call.size >= call.asked
  BY <1>1, CallFacts
<1>3. /\ list.next[c] \in Headers(list) /\ c # list.tail
      /\ \A b \in Headers(list) : b <= c \/ list.next[c] <= b
      /\ Headers(list) \subseteq Nat \ {0}
  <2>1. IsList(list) /\ heap_end \in Nat /\ Tiles(list, heap_end)
    BY InvFacts
  <2>2. c # list.tail /\ list.next[c] \in Headers(list) /\ Headers(list) \subseteq Nat \ {0}
    BY <1>1, <1>2, <2>1, TileFacts, ListFields
  <2> QED BY <1>2, <2>1, <2>2 DEF Tiles
<1>4. /\ call' \in [asked : Nat \ {0}, size : Nat, cursor : Headers(list),
                    old : DOMAIN blocks \cup {0}]
      /\ call'.cursor = list.next[c] /\ call'.size = call.size /\ call'.asked = call.asked
  BY <1>1, <1>2, <1>3
<1>5. TypeOK'
  BY <1>1, <1>4 DEF MallocInv, TypeOK, Null
<1>6. NothingLeftBehind'
  <2> SUFFICES ASSUME NEW a \in Headers(list), a < list.next[c]
               PROVE  ~CanMerge(list, a) /\ ~Fits(a)'
    BY <1>1, <1>4 DEF NothingLeftBehind
  <2>1. Fits(a)' = Fits(a)
    BY <1>1, <1>4 DEF Fits
  <2>2. a = c \/ a < c
    BY <1>2, <1>3
  <2> QED BY <1>1, <2>1, <2>2 DEF MallocInv, NothingLeftBehind
<1>7. SizeCoversRequest'
  BY <1>2, <1>4 DEF SizeCoversRequest
<1>8. ListTilesHeap' /\ BlocksFillUsedRegions' /\ NeverAborts' /\ ChargeMatchesHeap'
  BY <1>1 DEF MallocInv, ListTilesHeap, BlocksFillUsedRegions, NeverAborts, ChargeMatchesHeap
<1> QED BY <1>5, <1>6, <1>7, <1>8 DEF MallocInv

\* What an expansion asks for and gets: more than the missing bytes and a header
\* if it is granted in full, and never a negative number of pages.
LEMMA ExpandFacts ==
  ASSUME MallocInv, Scanning, ~Fits(call.cursor), list.next[call.cursor] = 0
  PROVE  /\ call.cursor = list.tail
         /\ LastSize \in Nat
         /\ LastSize = IF list.is_free[list.tail] THEN heap_end - (list.tail + Header) ELSE 0
         /\ Needed \in Nat /\ Needed = call.size - LastSize + Header /\ Needed > Header
         /\ Granted \in Nat /\ Granted * PageSize \in Nat
         /\ (charged + Granted) * PageSize = charged * PageSize + Granted * PageSize
<1>1. /\ IsList(list) /\ heap_end \in Nat /\ Tiles(list, heap_end)
      /\ charged \in Nat /\ limit \in Nat
  BY InvFacts
<1>2. /\ call.cursor \in Headers(list) /\ call.size \in Nat /\ call.size > 0
      /\ PageSize \in Nat \ {0} /\ Header \in Nat \ {0}
  BY CallFacts, MallocAssumption DEF Header
<1>3. call.cursor = list.tail
  BY <1>1, <1>2, TileFacts
<1>4. /\ RegionEnd(list, list.tail, heap_end) = heap_end
      /\ list.tail \in Nat /\ list.tail + Header <= heap_end
  BY <1>1, <1>2, <1>3, TileFacts DEF RegionEnd, Null, Tiles
<1>5. LastSize = IF list.is_free[list.tail] THEN heap_end - (list.tail + Header) ELSE 0
  BY <1>4 DEF LastSize, lli_region_size
<1>6. LastSize \in Nat /\ LastSize < call.size
  <2>1. CASE list.is_free[list.tail]
    <3>1. heap_end - (list.tail + Header) < call.size
      BY <1>1, <1>2, <1>3, <1>4, <2>1 DEF Fits, lli_region_size
    <3> QED BY <1>1, <1>2, <1>4, <1>5, <2>1, <3>1
  <2>2. CASE ~list.is_free[list.tail]
    BY <1>2, <1>5, <2>2
  <2> QED BY <2>1, <2>2
<1>7. Needed \in Nat /\ Needed = call.size - LastSize + Header /\ Needed > Header
  BY <1>2, <1>6 DEF Needed
<1>8. NeededPages \in Nat
  BY <1>2, <1>7, RoundUp DEF NeededPages
<1>9. Granted \in Nat
  BY <1>1, <1>8 DEF Granted
<1> HIDE DEF Granted
<1>10. /\ Granted * PageSize \in Nat
       /\ (charged + Granted) * PageSize = charged * PageSize + Granted * PageSize
  BY <1>1, <1>2, <1>9
<1> QED BY <1>3, <1>5, <1>6, <1>7, <1>9, <1>10

\* The new header at the old end of the heap, merged into a free last region.
LEMMA GrownFacts ==
  ASSUME NEW l, IsList(l), NEW end \in Nat, Tiles(l, end), NEW end2 \in Nat,
         end + Header <= end2, NEW b, IsBlocks(b), Fills(l, b, end),
         NEW g, g = lli_insert_after(l, l.tail, end),
         NEW m, m = IF CanMerge(g, l.tail) THEN lli_merge_after(g, l.tail) ELSE g
  PROVE  /\ ~BadInsert(l, l.tail, end)
         /\ IsList(m) /\ Tiles(m, end2) /\ Fills(m, b, end2)
         /\ m.tail \in Headers(m) /\ m.is_free[m.tail]
         /\ lli_region_size(m, m.tail, end2) =
               IF l.is_free[l.tail] THEN end2 - (l.tail + Header) ELSE end2 - (end + Header)
<1> DEFINE t == l.tail
<1>1. /\ t \in Headers(l) /\ t \in Nat \ {0} /\ Header \in Nat \ {0} /\ end <= end2
      /\ t + Header <= end /\ l.next[t] = 0 /\ Headers(l) \subseteq Nat \ {0}
      /\ end \in Nat \ {0}
  BY ListFields, TileFacts DEF Tiles, Null
<1>2. ~BadInsert(l, t, end)
  BY <1>1 DEF BadInsert, Null
<1>3. /\ Tiles(l, end2)
      /\ \A a \in Headers(l) :
            RegionEnd(l, a, end2) = IF a = t THEN end2 ELSE RegionEnd(l, a, end)
  BY <1>1, GrowTiles
<1>4. /\ end \notin Headers(l) /\ Tiles(g, end2)
      /\ RegionEnd(g, t, end2) = end /\ RegionEnd(g, end, end2) = end2
      /\ \A a \in Headers(l) : a # t => RegionEnd(g, a, end2) = RegionEnd(l, a, end2)
  <2>1. end + Header <= RegionEnd(l, t, end2) /\ RegionEnd(l, t, end2) = end2
    BY <1>1, <1>3
  <2> QED BY <1>1, <1>3, <2>1, InsertTiles
<1>5. /\ IsList(g) /\ Headers(g) = Headers(l) \cup {end}
      /\ g.next[t] = end /\ g.next[end] = 0
      /\ g.is_free[end]
      /\ \A a \in Headers(l) : g.is_free[a] = l.is_free[a]
      /\ g.tail = end
  BY <1>1, <1>4, InsertFields
<1>6. \A a \in Headers(l) : RegionEnd(g, a, end2) = RegionEnd(l, a, end)
  <2>1. RegionEnd(l, t, end) = end
    BY <1>1 DEF RegionEnd, Null
  <2> QED BY <1>3, <1>4, <2>1
<1>7. Fills(g, b, end2)
  BY <1>5, <1>6 DEF Fills
<1>8. CASE ~l.is_free[t]
  <2>1. m = g
    BY <1>1, <1>5, <1>8 DEF CanMerge
  <2> QED BY <1>2, <1>4, <1>5, <1>7, <1>8, <2>1 DEF lli_region_size
<1>9. CASE l.is_free[t]
  <2>1. CanMerge(g, t) /\ t \in Headers(g)
    BY <1>1, <1>5, <1>9 DEF CanMerge, Null
  <2>2. m = lli_merge_after(g, t)
    BY <2>1
  <2>3. /\ IsList(m) /\ Tiles(m, end2)
        /\ Headers(m) = Headers(g) \ {end}
        /\ \A a \in Headers(m) : m.is_free[a] = g.is_free[a]
        /\ m.tail = t
        /\ RegionEnd(m, t, end2) = end2
        /\ \A a \in Headers(m) : a # t => RegionEnd(m, a, end2) = RegionEnd(g, a, end2)
    BY <1>4, <1>5, <2>1, <2>2, MergeTiles
  <2>4. t \in Headers(m) /\ m.is_free[t]
    BY <1>1, <1>4, <1>5, <1>9, <2>3
  <2>5. Fills(m, b, end2)
    <3>1. ASSUME NEW p \in DOMAIN b
          PROVE  /\ p - Header \in Headers(m) /\ ~m.is_free[p - Header]
                 /\ p + b[p] <= RegionEnd(m, p - Header, end2)
      <4>1. /\ p - Header \in Headers(g) /\ ~g.is_free[p - Header]
            /\ p + b[p] <= RegionEnd(g, p - Header, end2)
        BY <1>7 DEF Fills
      <4>2. p - Header # t /\ p - Header # end
        BY <1>1, <1>5, <1>9, <4>1
      <4> QED BY <2>3, <4>1, <4>2
    <3>2. ASSUME NEW a \in Headers(m), ~m.is_free[a] PROVE a + Header \in DOMAIN b
      BY <1>7, <2>3, <3>2 DEF Fills
    <3> QED BY <3>1, <3>2 DEF Fills
  <2> QED BY <1>2, <1>9, <2>3, <2>4, <2>5 DEF lli_region_size
<1> QED BY <1>8, <1>9

\* Growing the heap, in full or in part.
LEMMA ExpandInv == ASSUME MallocInv, Expand PROVE MallocInv'
<1> DEFINE t == list.tail
           bytes == Granted * PageSize
           grown == lli_insert_after(list, t, heap_end)
           l == IF CanMerge(grown, t) THEN lli_merge_after(grown, t) ELSE grown
<1>1. /\ Scanning /\ ~Fits(call.cursor) /\ list.next[call.cursor] = 0
      /\ heap_end' = heap_end + bytes /\ charged' = charged + Granted /\ limit' = limit
  BY DEF Expand, Null, Charged
<1>2. /\ IsList(list) /\ heap_end \in Nat /\ Tiles(list, heap_end)
      /\ IsBlocks(blocks) /\ Fills(list, blocks, heap_end)
      /\ charged \in Nat /\ limit \in Nat /\ aborted = FALSE
      /\ heap_end = HeapStart + charged * PageSize
  BY InvFacts
<1>3. /\ call.cursor = t
      /\ LastSize = IF list.is_free[t] THEN heap_end - (t + Header) ELSE 0
      /\ LastSize \in Nat
      /\ Needed \in Nat /\ Needed = call.size - LastSize + Header /\ Needed > Header
      /\ Granted \in Nat /\ bytes \in Nat
      /\ (charged + Granted) * PageSize = charged * PageSize + bytes
  BY <1>1, ExpandFacts
<1>4. /\ t \in Nat /\ Header \in Nat /\ call.size \in Nat /\ HeapStart \in Nat
      /\ charged * PageSize \in Nat
  BY <1>1, <1>2, CallFacts, ListFields, MallocAssumption DEF Header
<1>5. /\ heap_end' \in Nat /\ charged' \in Nat /\ limit' \in Nat
      /\ heap_end' = HeapStart + charged' * PageSize
  BY <1>1, <1>2, <1>3, <1>4
<1>6. CASE bytes < Needed
  <2>1. call' = Idle /\ UNCHANGED <<list, blocks, aborted>>
    BY <1>3, <1>4, <1>6 DEF Expand
  <2>2. /\ Tiles(list, heap_end')
        /\ \A a \in Headers(list) :
              RegionEnd(list, a, heap_end') = IF a = t THEN heap_end' ELSE RegionEnd(list, a, heap_end)
    BY <1>1, <1>2, <1>3, <1>5, GrowTiles
  <2>3. Fills(list, blocks, heap_end')
    <3>1. ASSUME NEW p \in DOMAIN blocks
          PROVE  p + blocks[p] <= RegionEnd(list, p - Header, heap_end')
      <4>1. /\ p - Header \in Headers(list)
            /\ p + blocks[p] <= RegionEnd(list, p - Header, heap_end)
        BY <1>2 DEF Fills
      <4>2. /\ RegionEnd(list, p - Header, heap_end) <= heap_end
            /\ RegionEnd(list, p - Header, heap_end) \in Nat
        BY <1>2, <4>1, TileFacts
      <4>3. p + blocks[p] \in Nat
        BY <1>2 DEF IsBlocks
      <4>4. p + blocks[p] <= heap_end'
        BY <1>1, <1>2, <1>3, <4>1, <4>2, <4>3
      <4> QED BY <2>2, <4>1, <4>4
    <3> QED BY <1>2, <3>1 DEF Fills
  <2> QED BY <1>2, <1>5, <2>1, <2>2, <2>3, IdleInv
<1>7. CASE bytes >= Needed
  <2>1. heap_end + Header <= heap_end'
    BY <1>1, <1>2, <1>3, <1>4, <1>7
  <2>2. /\ ~BadInsert(list, t, heap_end)
        /\ IsList(l) /\ Tiles(l, heap_end') /\ Fills(l, blocks, heap_end')
        /\ l.tail \in Headers(l) /\ l.is_free[l.tail]
        /\ lli_region_size(l, l.tail, heap_end') =
              IF list.is_free[t] THEN heap_end' - (t + Header) ELSE heap_end' - (heap_end + Header)
    BY <1>2, <1>5, <2>1, GrownFacts
  <2> HIDE DEF l, t, bytes, grown
  <2>3. lli_region_size(l, l.tail, heap_end') >= call.size
    BY <1>1, <1>2, <1>3, <1>4, <1>7, <2>2
  <2>4. Answer(l, l.tail, heap_end')
    BY <1>3, <1>4, <1>7, <2>2, <2>3 DEF Expand, l, t, bytes, grown
  <2>5. /\ call' = Idle /\ aborted' = FALSE
        /\ IsList(list') /\ Tiles(list', heap_end')
        /\ IsBlocks(blocks') /\ Fills(list', blocks', heap_end')
    BY <1>1, <1>5, <2>2, <2>3, <2>4, AnswerFacts
  <2> QED BY <1>5, <2>5, IdleInv
<1> QED BY <1>3, <1>6, <1>7

\* init_memory_allocator establishes the invariant.
LEMMA InitMallocInv == ASSUME Init PROVE MallocInv
<1>1. /\ Headers(list) = {HeapStart} /\ list.tail = HeapStart /\ list.next[HeapStart] = 0
      /\ list.is_free[HeapStart] /\ IsList(list)
  BY MallocAssumption DEF Init, Headers, IsList, Null
<1>2. /\ HeapStart \in Nat \ {0} /\ PageSize \in Nat /\ Header \in Nat /\ Header <= PageSize
      /\ heap_end = HeapStart + PageSize /\ limit \in Nat /\ charged = 1
      /\ call = Idle /\ aborted = FALSE /\ blocks = [p \in {} |-> 0]
  BY MallocAssumption DEF Init, Header
<1>3. TypeOK
  <2>1. heap_end \in Nat /\ charged \in Nat /\ limit \in Nat
    BY <1>2
  <2>2. aborted \in BOOLEAN
    BY <1>2, Zenon
  <2>3. DOMAIN blocks = {}
    BY <1>2
  <2>4. DOMAIN blocks \subseteq Nat \ {Null} /\ blocks \in [DOMAIN blocks -> Nat \ {0}]
    BY <1>2, <2>3
  <2> QED BY <1>1, <1>2, <2>1, <2>2, <2>4, Zenon DEF TypeOK
<1>4. Tiles(list, heap_end)
  BY <1>1, <1>2 DEF Tiles, Null
<1>5. Fills(list, blocks, heap_end)
  BY <1>1, <1>2 DEF Fills
<1>6. ChargeMatchesHeap
  BY <1>2 DEF ChargeMatchesHeap
<1> QED
  BY <1>2, <1>3, <1>4, <1>5, <1>6 DEF MallocInv, ListTilesHeap, BlocksFillUsedRegions, NeverAborts,
      SizeCoversRequest, NothingLeftBehind, Scanning

-----------------------------------------------------------------------------
(* The theorems.                                                           *)

\* Every reachable state of the allocator satisfies its invariant.
THEOREM MallocInvariance == Spec => []MallocInv
<1>1. MallocInv /\ [Next]_vars => MallocInv'
  <2> SUFFICES ASSUME MallocInv, [Next]_vars PROVE MallocInv'
    OBVIOUS
  <2>1. CASE UNCHANGED vars
    BY <2>1 DEF vars, MallocInv, TypeOK, ListTilesHeap, BlocksFillUsedRegions, NeverAborts,
        ChargeMatchesHeap, SizeCoversRequest, NothingLeftBehind, Scanning, Fits
  <2>2. CASE \E size \in Sizes : malloc(size, Null)
    BY <2>2, MallocCallInv DEF Null
  <2>3. CASE \E size \in Sizes : \E old \in DOMAIN blocks : malloc(size, old)
    BY <2>3, MallocCallInv
  <2>4. CASE Coalesce \/ TakeFit \/ Advance \/ Expand
    BY <2>4, CoalesceInv, TakeFitInv, AdvanceInv, ExpandInv
  <2>5. CASE (\E p \in DOMAIN blocks : free(p)) \/ (\E n \in Limits : try_update(n))
    BY <2>5, FreeInv, LimitInv
  <2> QED BY <2>1, <2>2, <2>3, <2>4, <2>5 DEF Next
<1> QED BY <1>1, InitMallocInv, PTL DEF Spec

\* custom_malloc: list, blocks and charged pages describe the same heap, through
\* every split, merge, growth, resize, free and refusal, for every alignment, page
\* size and limit: no header or other block lies inside a block, the checks that
\* would abort never fail, and the pages charged are the pages the heap has.
THEOREM HeapCorrect == Spec => []HeapConsistent
<1>1. MallocInv => BlocksDisjoint
  <2> SUFFICES ASSUME MallocInv, NEW p \in DOMAIN blocks, NEW q \in DOMAIN blocks, p < q
               PROVE  p + blocks[p] + Header <= q
    BY DEF BlocksDisjoint
  <2>1. /\ IsList(list) /\ heap_end \in Nat /\ Tiles(list, heap_end)
        /\ IsBlocks(blocks) /\ Fills(list, blocks, heap_end)
    BY InvFacts
  <2>2. p \in Nat /\ q \in Nat /\ blocks[p] \in Nat /\ Header \in Nat
    BY <2>1, MallocAssumption DEF IsBlocks, Header
  <2>3. /\ p - Header \in Headers(list) /\ q - Header \in Headers(list)
        /\ p + blocks[p] <= RegionEnd(list, p - Header, heap_end)
    BY <2>1 DEF Fills
  <2>4. /\ q - Header <= p - Header \/ RegionEnd(list, p - Header, heap_end) <= q - Header
        /\ RegionEnd(list, p - Header, heap_end) \in Nat
    BY <2>1, <2>3, TileFacts
  <2> QED BY <2>2, <2>3, <2>4
<1>2. MallocInv => HeapConsistent
  BY <1>1 DEF MallocInv, HeapConsistent
<1> QED BY <1>2, MallocInvariance, PTL

\* library.c: when malloc asks for pages, no free region and no run of adjacent
\* free regions anywhere in the heap could have held the request.
THEOREM GrowthCorrect == Spec => []GrowsOnlyIfNeeded
<1>1. MallocInv => GrowsOnlyIfNeeded
  <2> SUFFICES ASSUME MallocInv, Scanning, ~CanMerge(list, call.cursor), ~Fits(call.cursor),
                      list.next[call.cursor] = 0,
                      NEW a \in Headers(list), NEW b \in Headers(list), FreeRun(a, b)
               PROVE  RegionEnd(list, b, heap_end) - (a + Header) < call.size
    BY DEF GrowsOnlyIfNeeded, Null
  <2>1. /\ IsList(list) /\ heap_end \in Nat /\ Tiles(list, heap_end)
        /\ call.cursor \in Headers(list) /\ call.size \in Nat
        /\ Headers(list) \subseteq Nat \ {0} /\ Header \in Nat
    BY InvFacts, CallFacts, ListFields, MallocAssumption DEF Header
  <2>2. call.cursor = list.tail /\ \A c \in Headers(list) : c <= list.tail
    BY <2>1, TileFacts DEF Tiles
  <2>3. \A c \in Headers(list) : ~CanMerge(list, c) /\ ~Fits(c)
    <3> SUFFICES ASSUME NEW c \in Headers(list) PROVE ~CanMerge(list, c) /\ ~Fits(c)
      OBVIOUS
    <3>1. c = call.cursor \/ c < call.cursor
      BY <2>1, <2>2
    <3> QED BY <3>1 DEF MallocInv, NothingLeftBehind
  <2>4. a = b
    <3> SUFFICES ASSUME a # b PROVE FALSE
      OBVIOUS
    <3>1. a < b /\ a # list.tail
      BY <2>1, <2>2 DEF FreeRun
    <3>2. list.next[a] \in Headers(list) /\ a + Header <= list.next[a] /\ list.next[a] <= b
      BY <2>1, <3>1 DEF Tiles
    <3>3. list.is_free[a] /\ list.is_free[list.next[a]] /\ list.next[a] # 0
      BY <2>1, <3>1, <3>2 DEF FreeRun
    <3> QED BY <2>3, <3>3 DEF CanMerge, Null
  <2>5. list.is_free[a] /\ ~Fits(a)
    BY <2>1, <2>3 DEF FreeRun
  <2>6. RegionEnd(list, a, heap_end) \in Nat
    BY <2>1, TileFacts
  <2> QED BY <2>1, <2>4, <2>5, <2>6 DEF Fits, lli_region_size
<1> QED BY <1>1, MallocInvariance, PTL
=============================================================================
