-------------------------------- MODULE Bus --------------------------------
(***************************************************************************)
(* The memory bus (src/src/bus.rs): a map from address regions to the      *)
(* controllers behind them.  A region is mapped once and never unmapped.   *)
(* The map is a HashMap, so a lookup walks its keys in an order nobody     *)
(* chose: `order` is that order, and an insertion, which can grow the      *)
(* table and rehash it, may change it to any other.                        *)
(*                                                                         *)
(* A controller is a RAM with a cell per address (external: the library    *)
(* only knows the Memory trait; src/bin/nes.rs and the test module bring   *)
(* RAM and ROM chips).  One action is one call on the Bus, which its       *)
(* RwLock makes atomic.                                                    *)
(***************************************************************************)
EXTENDS Integers, Sequences, FiniteSets

CONSTANTS
  MaxAddr,      (* Last address: 65535.                                    *)
  Controllers,  (* What can be mapped.                                     *)
  Regions,      (* The regions <<start, end>> the owner asks for.          *)
  Data,         (* What can be written, 0 included.                        *)
  None          (* No region: Option::None.                                *)

Addr == 0 .. MaxAddr

ASSUME MaxAddrAssumption == MaxAddr \in Nat
ASSUME RegionAssumption  == Regions \subseteq Addr \X Addr
ASSUME DataAssumption    == 0 \in Data
ASSUME NoneAssumption    == None \notin Regions

VARIABLES
  memory_map,  (* region -> controller                                     *)
  order,       (* the keys of memory_map in the order of iteration         *)
  cells,       (* contents of the controllers                              *)
  mapped,      (* history: the keys in the order they were mapped          *)
  written      (* history: what was last written to each address           *)

history == <<mapped, written>>
vars == <<memory_map, order, cells, history>>

Keys == DOMAIN memory_map

TypeOK ==
  /\ Keys \subseteq Regions
  /\ memory_map \in [Keys -> Controllers]
  /\ order \in Seq(Keys)
  /\ cells \in [Controllers -> [Addr -> Data]]
  /\ mapped \in Seq(Keys)
  /\ written \in [Addr -> Data]

(* The iteration visits every key once.                                    *)
Enumerates(seq, S) ==
  /\ {seq[i] : i \in DOMAIN seq} = S
  /\ Len(seq) = Cardinality(S)

Orders(S) == {seq \in [1 .. Cardinality(S) -> S] : Enumerates(seq, S)}

----------------------------------------------------------------------------
Covers(key, addr) == addr >= key[1] /\ addr <= key[2]
(* Fault: a region that shares an end with the key is not found inside it. *)
ContainsStrictly(key, region) == region[1] > key[1] /\ region[2] < key[2]
Contains(key, region) == region[1] >= key[1] /\ region[2] <= key[2]

(* Both lookups take the first key of the iteration that passes their test. *)
First(hits) ==
  IF hits = {} THEN None
               ELSE order[CHOOSE i \in hits : \A j \in hits : i <= j]

GetRegionPlace(addr) == First({i \in DOMAIN order : Covers(order[i], addr)})
GetRegionKey(region) == First({i \in DOMAIN order : Contains(order[i], region)})

(* An address no region covers reads as 0.                                 *)
MemRead(addr) ==
  LET key == GetRegionPlace(addr)
  IN IF key = None THEN 0 ELSE cells[memory_map[key]][addr]

----------------------------------------------------------------------------
(* Fault: no test for a conflict.                                          *)
MapUnchecked(region, controller) ==
  /\ memory_map' = [k \in Keys \cup {region} |->
                      IF k = region THEN controller ELSE memory_map[k]]
  /\ order' \in Orders(Keys \cup {region})
  /\ mapped' = Append(mapped, region)
  /\ UNCHANGED <<cells, written>>

MapRegion(region, controller) ==
  /\ GetRegionKey(region) = None
  /\ memory_map' = [k \in Keys \cup {region} |->
                      IF k = region THEN controller ELSE memory_map[k]]
  /\ order' \in Orders(Keys \cup {region})
  /\ mapped' = Append(mapped, region)
  /\ UNCHANGED <<cells, written>>

(* Error::MemoryMapConflict with the key that was found.                   *)
MapConflict(region) ==
  /\ GetRegionKey(region) # None
  /\ UNCHANGED vars

(* Fault: the controller is given the distance from the start of its       *)
(* region, and reads at the address.                                       *)
MemWriteRelative(addr, data) ==
  LET key == GetRegionPlace(addr) IN
  /\ key # None
  /\ cells' = [cells EXCEPT ![memory_map[key]][addr - key[1]] = data]
  /\ written' = [written EXCEPT ![addr] = data]
  /\ UNCHANGED <<memory_map, order, mapped>>

MemWrite(addr, data) ==
  LET key == GetRegionPlace(addr) IN
  /\ key # None
  /\ cells' = [cells EXCEPT ![memory_map[key]][addr] = data]
  /\ written' = [written EXCEPT ![addr] = data]
  /\ UNCHANGED <<memory_map, order, mapped>>

(* A write to an address no region covers is dropped.                      *)
MemWriteUnmapped(addr, data) ==
  /\ GetRegionPlace(addr) = None
  /\ UNCHANGED vars

Next ==
  \/ \E r \in Regions, c \in Controllers : MapRegion(r, c)
  \/ \E r \in Regions : MapConflict(r)
  \/ \E a \in Addr, d \in Data : MemWrite(a, d)
  \/ \E a \in Addr, d \in Data : MemWriteUnmapped(a, d)

Init ==
  /\ memory_map = << >>
  /\ order = << >>
  /\ cells = [c \in Controllers |-> [a \in Addr |-> 0]]
  /\ mapped = << >>
  /\ written = [a \in Addr |-> 0]

Spec == Init /\ [][Next]_vars

----------------------------------------------------------------------------
Covered(a) == \E k \in Keys : Covers(k, a)

(* A mapping is for good: no later call removes a region or puts another   *)
(* controller behind it.                                                   *)
MappingsPersist ==
  [][\A k \in Keys : k \in DOMAIN memory_map' /\ memory_map'[k] = memory_map[k]]_vars

Within(inner, outer) == outer[1] <= inner[1] /\ inner[2] <= outer[2]

(* A region is never accepted inside one that is already there: all that   *)
(* get_region_key rules out, for any order of iteration.                   *)
InnerMappedFirst ==
  \A i, j \in DOMAIN mapped : i < j => ~Within(mapped[j], mapped[i])

(* Two mapped regions never share an address, as the conflict error says.  *)
NoOverlap ==
  \A k1, k2 \in Keys : \A a \in Addr : Covers(k1, a) /\ Covers(k2, a) => k1 = k2

(* Through the bus an address holds what was last written to it, whatever  *)
(* was mapped in between, as long as the owner asks for no regions that    *)
(* overlap: then the order of iteration would decide which controller      *)
(* answers, and an insertion could change it.                              *)
ReadsBack ==
  NoOverlap => \A a \in Addr : Covered(a) => MemRead(a) = written[a]

(* What these rest on: the iteration and the history visit the keys, an    *)
(* address no region covers was never written, in any controller, and the  *)
(* controller of a region holds what was written there.                    *)
Visited ==
  /\ IsFiniteSet(Keys)
  /\ {order[i] : i \in DOMAIN order} = Keys
  /\ {mapped[i] : i \in DOMAIN mapped} = Keys

Untouched ==
  \A a \in Addr : ~Covered(a) =>
    written[a] = 0 /\ \A c \in Controllers : cells[c][a] = 0

Held ==
  NoOverlap => \A k \in Keys, a \in Addr :
                 Covers(k, a) => cells[memory_map[k]][a] = written[a]

BusInv == TypeOK /\ Visited /\ Untouched /\ Held /\ InnerMappedFirst
=============================================================================
