----------------------------- MODULE BusProofs -----------------------------
(***************************************************************************)
(* What the bus keeps for every address space, every set of controllers    *)
(* and every set of regions the owner asks for, whatever the order in      *)
(* which the HashMap is iterated over and however it changes.              *)
(***************************************************************************)
EXTENDS Bus, FiniteSetTheorems, WellFoundedInduction, TLAPS

(* A set of indices that is not empty has a least one.                     *)
LEMMA LeastIndex ==
  ASSUME NEW T, T \subseteq Nat, T # {}
  PROVE  \E i \in T : \A j \in T : i <= j
<1>1. PICK i \in T : \A j \in T : ~(<<j, i>> \in OpToRel(<, Nat))
  BY WFMin, NatLessThanWellFounded, Zenon
<1>2. \A j \in T : ~(j < i)
  BY <1>1 DEF OpToRel
<1>3. QED
  BY <1>2

(* A lookup returns a key of the iteration that passed the test, and None  *)
(* only if no key passed it.                                               *)
LEMMA FirstHit ==
  ASSUME TypeOK, NEW hits \in SUBSET DOMAIN order
  PROVE  /\ hits = {} => First(hits) = None
         /\ hits # {} => /\ \E i \in hits : First(hits) = order[i]
                         /\ First(hits) # None
<1>1. CASE hits = {}
  BY <1>1 DEF First
<1>2. CASE hits # {}
  <2>1. DOMAIN order \subseteq Nat
    BY DEF TypeOK
  <2>2. \E i \in hits : \A j \in hits : i <= j
    BY <1>2, <2>1, LeastIndex
  <2>3. PICK i \in hits : First(hits) = order[i]
    BY <1>2, <2>2 DEF First
  <2>4. order[i] \in Regions
    BY DEF TypeOK
  <2>5. QED
    BY <1>2, <2>3, <2>4, NoneAssumption
<1>3. QED
  BY <1>1, <1>2

(* get_region_key returns None exactly when no mapped region contains the  *)
(* one asked for.                                                          *)
LEMMA RegionKey ==
  ASSUME TypeOK, Visited, NEW region \in Regions
  PROVE  GetRegionKey(region) = None <=> \A k \in Keys : ~Contains(k, region)
  BY FirstHit DEF GetRegionKey, Visited

(* get_region_place returns a mapped region that covers the address, and   *)
(* None exactly when there is none.                                        *)
LEMMA RegionPlace ==
  ASSUME TypeOK, Visited, NEW addr \in Addr
  PROVE  /\ GetRegionPlace(addr) # None =>
              GetRegionPlace(addr) \in Keys /\ Covers(GetRegionPlace(addr), addr)
         /\ GetRegionPlace(addr) = None <=> ~Covered(addr)
  BY FirstHit DEF GetRegionPlace, Visited, Covered

----------------------------------------------------------------------------
(* The invariant.                                                          *)

(* The empty bus satisfies the invariant.                                  *)
LEMMA InitInv == Init => BusInv
<1> SUFFICES ASSUME Init PROVE BusInv
  OBVIOUS
<1>1. Keys = {}
  BY DEF Init, Keys
<1>2. /\ order \in Seq(Keys) /\ order = << >>
      /\ mapped \in Seq(Keys) /\ mapped = << >>
  BY DEF Init
<1>3. TypeOK
  BY <1>1, <1>2, DataAssumption DEF Init, TypeOK
<1>4. Visited
  BY <1>1, <1>2, FS_EmptySet DEF Visited
<1>5. Untouched /\ Held /\ InnerMappedFirst
  BY <1>1, <1>2 DEF Init, Untouched, Held, InnerMappedFirst
<1>6. QED
  BY <1>3, <1>4, <1>5 DEF BusInv

(* A successful map_region adds its key and changes no other, and the key  *)
(* is new and inside no other.                                             *)
LEMMA MapAdds ==
  ASSUME BusInv, NEW r \in Regions, NEW c \in Controllers, MapRegion(r, c)
  PROVE  /\ Keys' = Keys \cup {r}
         /\ \A k \in Keys : ~Contains(k, r)
         /\ r \notin Keys
         /\ memory_map' \in [Keys' -> Controllers]
         /\ memory_map'[r] = c
         /\ \A k \in Keys : memory_map'[k] = memory_map[k]
<1>1. \A k \in Keys : ~Contains(k, r)
  BY RegionKey DEF BusInv, MapRegion
<1>2. r[1] \in Int /\ r[2] \in Int
  BY RegionAssumption DEF Addr
<1>3. Contains(r, r)
  BY <1>2 DEF Contains
<1>4. r \notin Keys
  BY <1>1, <1>3
<1>5. /\ Keys' = Keys \cup {r}
      /\ memory_map' = [k \in Keys \cup {r} |-> IF k = r THEN c ELSE memory_map[k]]
  BY DEF MapRegion, Keys
<1>6. memory_map \in [Keys -> Controllers]
  BY DEF BusInv, TypeOK
<1>7. QED
  BY <1>1, <1>4, <1>5, <1>6

(* The new order visits the old keys and the new one.                      *)
LEMMA MapVisits ==
  ASSUME BusInv, NEW r \in Regions, NEW c \in Controllers, MapRegion(r, c)
  PROVE  /\ Visited'
         /\ order' \in Seq(Keys') /\ mapped' \in Seq(Keys')
         /\ Len(mapped') = Len(mapped) + 1
         /\ mapped'[Len(mapped) + 1] = r
         /\ \A i \in DOMAIN mapped : mapped'[i] = mapped[i]
<1>1. Keys' = Keys \cup {r}
  BY MapAdds
<1>2. IsFiniteSet(Keys') /\ Cardinality(Keys') \in Nat
  BY <1>1, FS_AddElement, FS_CardinalityType DEF BusInv, Visited
<1>3. order' \in [1 .. Cardinality(Keys') -> Keys']
      /\ {order'[i] : i \in DOMAIN order'} = Keys'
  BY <1>1 DEF MapRegion, Orders, Enumerates
<1>4. order' \in Seq(Keys')
  BY <1>2, <1>3
<1>5. mapped \in Seq(Keys') /\ r \in Keys'
  BY <1>1 DEF BusInv, TypeOK
<1>6. mapped' = Append(mapped, r)
  BY DEF MapRegion
<1>7. /\ mapped' \in Seq(Keys')
      /\ Len(mapped') = Len(mapped) + 1
      /\ DOMAIN mapped' = 1 .. Len(mapped) + 1
      /\ mapped'[Len(mapped) + 1] = r
      /\ \A i \in 1 .. Len(mapped) : mapped'[i] = mapped[i]
  BY <1>5, <1>6
<1>8. DOMAIN mapped = 1 .. Len(mapped) /\ Len(mapped) \in Nat
  BY <1>5
<1>9. {mapped'[i] : i \in DOMAIN mapped'} = Keys'
  <2>1. {mapped[i] : i \in 1 .. Len(mapped)} = Keys
    BY <1>8 DEF BusInv, Visited
  <2>2. DOMAIN mapped' = (1 .. Len(mapped)) \cup {Len(mapped) + 1}
    BY <1>7, <1>8
  <2>3. ASSUME NEW k \in Keys' PROVE \E i \in DOMAIN mapped' : mapped'[i] = k
    <3>1. CASE k = r
      BY <1>7, <2>2, <3>1
    <3>2. CASE k \in Keys
      <4>1. PICK i \in 1 .. Len(mapped) : mapped[i] = k
        BY <2>1, <3>2
      <4>2. QED
        BY <1>7, <2>2, <4>1
    <3>3. QED
      BY <1>1, <3>1, <3>2
  <2>4. \A i \in DOMAIN mapped' : mapped'[i] \in Keys'
    BY <1>7
  <2>5. QED
    BY <2>3, <2>4
<1>10. QED
  BY <1>2, <1>3, <1>4, <1>7, <1>8, <1>9 DEF Visited

(* map_region preserves the invariant.                                     *)
LEMMA MapInv ==
  ASSUME BusInv, NEW r \in Regions, NEW c \in Controllers, MapRegion(r, c)
  PROVE  BusInv'
<1>1. /\ cells' = cells /\ written' = written
      /\ cells \in [Controllers -> [Addr -> Data]]
      /\ written \in [Addr -> Data]
  BY DEF MapRegion, BusInv, TypeOK
<1>2. TypeOK'
  BY <1>1, MapAdds, MapVisits DEF BusInv, TypeOK
<1>3. Visited'
  BY MapVisits
<1>4. Untouched'
  BY <1>1, MapAdds DEF BusInv, Untouched, Covered
<1>5. Held'
  <2> SUFFICES ASSUME NoOverlap', NEW k \in Keys', NEW a \in Addr, Covers(k, a)
               PROVE  cells[memory_map'[k]][a] = written[a]
    BY <1>1 DEF Held, Covers
  <2>1. CASE k \in Keys
    <3>1. NoOverlap
      BY MapAdds DEF NoOverlap, Covers
    <3>2. QED
      BY <2>1, <3>1, MapAdds DEF BusInv, Held
  <2>2. CASE k = r
    <3>1. ~Covered(a)
      BY <2>2, MapAdds DEF NoOverlap, Covered, Covers
    <3>2. QED
      BY <2>2, <3>1, MapAdds DEF BusInv, Untouched
  <2>3. QED
    BY <2>1, <2>2, MapAdds
<1>6. InnerMappedFirst'
  <2> SUFFICES ASSUME NEW i \in DOMAIN mapped', NEW j \in DOMAIN mapped', i < j
               PROVE  ~Within(mapped'[j], mapped'[i])
    BY DEF InnerMappedFirst, Within
  <2>1. /\ DOMAIN mapped = 1 .. Len(mapped) /\ Len(mapped) \in Nat
        /\ DOMAIN mapped' = 1 .. Len(mapped) + 1
    BY MapVisits DEF BusInv, TypeOK
  <2>2. i \in DOMAIN mapped /\ mapped'[i] = mapped[i] /\ mapped[i] \in Keys
    BY <2>1, MapVisits DEF BusInv, TypeOK
  <2>3. CASE j \in DOMAIN mapped
    BY <2>2, <2>3, MapVisits DEF BusInv, InnerMappedFirst
  <2>4. CASE j = Len(mapped) + 1
    BY <2>2, <2>4, MapVisits, MapAdds DEF Within, Contains
  <2>5. QED
    BY <2>1, <2>3, <2>4
<1>7. QED
  BY <1>2, <1>3, <1>4, <1>5, <1>6 DEF BusInv

(* So does mem_write: it reaches one cell, that of a covered address in    *)
(* the controller of its region.                                           *)
LEMMA WriteInv ==
  ASSUME BusInv, NEW a \in Addr, NEW d \in Data, MemWrite(a, d)
  PROVE  BusInv'
<1> DEFINE key == GetRegionPlace(a)
<1>1. key \in Keys /\ Covers(key, a)
  BY RegionPlace DEF BusInv, MemWrite
<1>2. /\ memory_map' = memory_map /\ order' = order /\ mapped' = mapped
      /\ Keys' = Keys
      /\ cells' = [cells EXCEPT ![memory_map[key]][a] = d]
      /\ written' = [written EXCEPT ![a] = d]
  BY DEF MemWrite, Keys
<1>3. /\ memory_map \in [Keys -> Controllers]
      /\ cells \in [Controllers -> [Addr -> Data]]
      /\ written \in [Addr -> Data]
  BY DEF BusInv, TypeOK
<1>4. /\ cells' \in [Controllers -> [Addr -> Data]]
      /\ written' \in [Addr -> Data]
      /\ written'[a] = d
      /\ cells'[memory_map[key]][a] = d
      /\ \A b \in Addr : b # a => written'[b] = written[b]
      /\ \A c \in Controllers, b \in Addr : b # a => cells'[c][b] = cells[c][b]
  BY <1>1, <1>2, <1>3
<1>5. TypeOK' /\ Visited' /\ InnerMappedFirst'
  BY <1>2, <1>4 DEF BusInv, TypeOK, Visited, InnerMappedFirst, Within
<1>6. Untouched'
  BY <1>1, <1>2, <1>4 DEF BusInv, Untouched, Covered
<1>7. Held'
  <2> SUFFICES ASSUME NoOverlap, NEW k \in Keys, NEW b \in Addr, Covers(k, b)
               PROVE  cells'[memory_map[k]][b] = written'[b]
    BY <1>2 DEF Held, NoOverlap, Covers
  <2>1. CASE b = a
    BY <1>1, <1>4, <2>1 DEF NoOverlap
  <2>2. CASE b # a
    BY <1>3, <1>4, <2>2 DEF BusInv, Held
  <2>3. QED
    BY <2>1, <2>2
<1>8. QED
  BY <1>5, <1>6, <1>7 DEF BusInv

(* Every call on the bus preserves the invariant.                          *)
LEMMA NextInv == BusInv /\ [Next]_vars => BusInv'
<1> SUFFICES ASSUME BusInv, [Next]_vars PROVE BusInv'
  OBVIOUS
<1>1. ASSUME NEW r \in Regions, NEW c \in Controllers, MapRegion(r, c) PROVE BusInv'
  BY <1>1, MapInv
<1>2. ASSUME NEW a \in Addr, NEW d \in Data, MemWrite(a, d) PROVE BusInv'
  BY <1>2, WriteInv
<1>3. CASE UNCHANGED vars
  BY <1>3 DEF vars, history, BusInv, TypeOK, Visited, Untouched, Held, InnerMappedFirst,
              Keys, Covered, Covers, Within, NoOverlap
<1>4. QED
  BY <1>1, <1>2, <1>3 DEF Next, MapConflict, MemWriteUnmapped

----------------------------------------------------------------------------
(* The theorems.                                                           *)

(* The bus keeps BusInv.                                                   *)
THEOREM BusInvariant == Spec => []BusInv
<1>1. QED
  BY InitInv, NextInv, PTL DEF Spec

(* The map has regions for keys and controllers for values, the iteration  *)
(* visits regions, and cells hold data.                                    *)
THEOREM BusTypeCorrect == Spec => []TypeOK
<1>1. BusInv => TypeOK
  BY DEF BusInv
<1>2. QED
  BY <1>1, BusInvariant, PTL

(* A region is never accepted inside one that is mapped already.           *)
THEOREM InnerComesFirst == Spec => []InnerMappedFirst
<1>1. BusInv => InnerMappedFirst
  BY DEF BusInv
<1>2. QED
  BY <1>1, BusInvariant, PTL

(* Without overlapping regions the bus is a memory: a covered address      *)
(* reads as what was last written to it.                                   *)
THEOREM WritesAreReadBack == Spec => []ReadsBack
<1>1. BusInv => ReadsBack
  <2> SUFFICES ASSUME BusInv, NoOverlap, NEW a \in Addr, Covered(a)
               PROVE  MemRead(a) = written[a]
    BY DEF ReadsBack
  <2>1. /\ GetRegionPlace(a) # None
        /\ GetRegionPlace(a) \in Keys
        /\ Covers(GetRegionPlace(a), a)
    BY RegionPlace DEF BusInv
  <2>2. QED
    BY <2>1 DEF BusInv, Held, MemRead
<1>2. QED
  BY <1>1, BusInvariant, PTL

(* A mapping, once made, is never removed or replaced.                     *)
THEOREM MappingsStay == Spec => MappingsPersist
<1> DEFINE Stays == \A k \in Keys : k \in DOMAIN memory_map' /\ memory_map'[k] = memory_map[k]
<1>1. BusInv /\ [Next]_vars => [Stays]_vars
  <2> SUFFICES ASSUME BusInv, Next PROVE [Stays]_vars
    BY DEF Stays
  <2>1. ASSUME NEW r \in Regions, NEW c \in Controllers, MapRegion(r, c) PROVE Stays
    BY <2>1, MapAdds DEF Keys
  <2>2. ASSUME NEW a \in Addr, NEW d \in Data, MemWrite(a, d) PROVE Stays
    BY <2>2 DEF MemWrite, Keys
  <2>3. QED
    BY <2>1, <2>2 DEF Next, MapConflict, MemWriteUnmapped
<1>2. QED
  BY <1>1, BusInvariant, PTL DEF Spec, MappingsPersist
=============================================================================
