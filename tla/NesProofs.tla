----------------------------- MODULE NesProofs -----------------------------
(***************************************************************************)
(* What the NES runner keeps, for every layout of its memory that fits,    *)
(* every cartridge, every program and every clock: its account of time,    *)
(* the mirrors of its RAM and the banks of its cartridge.                  *)
(***************************************************************************)
EXTENDS NesMain, TLAPS

----------------------------------------------------------------------------
(* The clock by itself: what it grants, for any number of calls, any       *)
(* deltas and any precision of the floats.                                 *)

(* Division with a remainder.                                              *)
LEMMA Division ==
  ASSUME NEW n \in Nat \ {0}, NEW a \in Nat
  PROVE  /\ a \div n \in Nat /\ a % n \in Nat
         /\ a = n * (a \div n) + (a % n) /\ a % n < n
  OBVIOUS

(* The error of a delta is a natural number.                               *)
LEMMA ErrorType ==
  ASSUME NEW d \in Nat PROVE Error(d) \in Nat
<1>1. Precision \in Nat \ {0} /\ d + Precision - 1 \in Nat
  BY ClockAssumption
<1>2. QED
  BY <1>1, Division DEF Error

(* The cycles for a delta are no more than it has, and leave less than one *)
(* cycle of it, unless they are all there are.                             *)
LEMMA Granted ==
  ASSUME NEW d \in Nat, NEW b \in CyclesOf(d)
  PROVE  /\ b \in 0 .. MaxBudget
         /\ b * CycleTicks <= d + Error(d)
         /\ b = MaxBudget \/ d - Error(d) - (CycleTicks - 1) <= b * CycleTicks
<1>1. Error(d) \in Nat /\ CycleTicks \in Nat \ {0} /\ MaxBudget \in Nat
  BY ErrorType, ClockAssumption
<1>2. PICK f \in Floats(d) : b = AsU32(f \div CycleTicks)
  BY DEF CyclesOf
<1>3. f \in Nat /\ f <= d + Error(d) /\ d - Error(d) <= f
  BY <1>1, <1>2 DEF Floats
<1> DEFINE q == f \div CycleTicks
<1>4. /\ q \in Nat /\ f % CycleTicks \in Nat
      /\ f = CycleTicks * q + (f % CycleTicks) /\ f % CycleTicks < CycleTicks
  BY <1>1, <1>3, Division
<1> HIDE DEF q
<1>5. CASE q > MaxBudget
  <2>1. b = MaxBudget
    BY <1>2, <1>5 DEF AsU32, q
  <2>2. MaxBudget * CycleTicks <= CycleTicks * q
    BY <1>1, <1>4, <1>5
  <2>3. MaxBudget * CycleTicks \in Nat /\ CycleTicks * q \in Nat
    BY <1>1, <1>4
  <2>4. QED
    BY <1>1, <1>3, <1>4, <2>1, <2>2, <2>3
<1>6. CASE ~(q > MaxBudget)
  <2>1. b = q
    BY <1>2, <1>6 DEF AsU32, q
  <2>2. q * CycleTicks = CycleTicks * q /\ CycleTicks * q \in Nat
    BY <1>1, <1>4
  <2>3. QED
    BY <1>1, <1>3, <1>4, <1>6, <2>1, <2>2
<1>7. QED
  BY <1>5, <1>6

----------------------------------------------------------------------------
TickInv == TypeOK /\ TimeKept

(* A call keeps the account: its products are those of the sums.           *)
LEMMA RecordInv ==
  ASSUME TickInv, NEW b \in 0 .. MaxBudget, Poll(b)
  PROVE  TickInv'
<1>1. /\ lag \in Nat /\ polls \in Nat /\ elapsed \in Nat /\ rounded \in Nat
      /\ granted \in Nat /\ capped \in BOOLEAN
      /\ CycleTicks \in Nat \ {0} /\ MaxBudget \in Nat /\ b \in Nat
  BY ClockAssumption DEF TickInv, TypeOK, Poll
<1>2. /\ Error(lag) \in Nat
      /\ b * CycleTicks <= lag + Error(lag)
      /\ b = MaxBudget \/ lag - Error(lag) - (CycleTicks - 1) <= b * CycleTicks
  BY <1>1, ErrorType, Granted DEF Poll
<1>3. CASE UNCHANGED account
  BY <1>1, <1>3 DEF TickInv, TypeOK, TimeKept, NeverAhead, LossBound, account, Poll
<1>4. CASE /\ polls' = polls + 1
           /\ elapsed' = elapsed + lag
           /\ rounded' = rounded + Error(lag)
           /\ granted' = granted + b
           /\ capped' = (capped \/ b = MaxBudget)
  <2>1. TypeOK'
    BY <1>1, <1>2, <1>4 DEF TypeOK, Poll
  <2>2. (granted + b) * CycleTicks = granted * CycleTicks + b * CycleTicks
    BY <1>1
  <2>3. (polls + 1) * (CycleTicks - 1) = polls * (CycleTicks - 1) + (CycleTicks - 1)
    BY <1>1
  <2>4. /\ granted * CycleTicks \in Int /\ b * CycleTicks \in Int
        /\ polls * (CycleTicks - 1) \in Int
    BY <1>1
  <2>5. granted * CycleTicks + b * CycleTicks <= elapsed + lag + rounded + Error(lag)
    BY <1>1, <1>2, <2>4 DEF TickInv, TimeKept, NeverAhead
  <2>6. NeverAhead'
    BY <1>1, <1>2, <1>4, <2>2, <2>4, <2>5 DEF NeverAhead
  <2>7. ASSUME ~capped, b # MaxBudget
        PROVE  elapsed + lag - (granted * CycleTicks + b * CycleTicks)
                 <= polls * (CycleTicks - 1) + (CycleTicks - 1) + (rounded + Error(lag))
    <3>1. elapsed - granted * CycleTicks <= polls * (CycleTicks - 1) + rounded
      BY <2>7 DEF TickInv, TimeKept, LossBound
    <3>2. lag - Error(lag) - (CycleTicks - 1) <= b * CycleTicks
      BY <2>7, <1>2
    <3>3. QED
      BY <1>1, <1>2, <2>4, <3>1, <3>2
  <2>8. LossBound'
    <3>1. CASE capped \/ b = MaxBudget
      BY <1>4, <3>1 DEF LossBound
    <3>2. CASE ~capped /\ b # MaxBudget
      <4>1. elapsed + lag - (granted * CycleTicks + b * CycleTicks)
              <= polls * (CycleTicks - 1) + (CycleTicks - 1) + (rounded + Error(lag))
        BY <2>7, <3>2, Zenon
      <4>2. /\ polls' = polls + 1 /\ elapsed' = elapsed + lag
            /\ rounded' = rounded + Error(lag) /\ granted' = granted + b
        BY <1>4, Zenon
      <4>3. elapsed' - granted' * CycleTicks <= polls' * (CycleTicks - 1) + rounded'
        BY <1>1, <1>2, <4>1, <4>2, <2>2, <2>3, <2>4
      <4>4. QED
        BY <4>3, Zenon DEF LossBound
    <3>3. QED
      BY <3>1, <3>2
  <2>9. QED
    BY <2>1, <2>6, <2>8 DEF TickInv, TimeKept
<1>5. QED
  BY <1>3, <1>4 DEF Poll, Record

(* What else can happen leaves the account alone.                          *)
LEMMA StepInv ==
  ASSUME TickInv, [Next]_tvars PROVE TickInv'
<1>1. CASE \E b \in 0 .. MaxBudget : Poll(b)
  BY <1>1, RecordInv
<1>2. ASSUME UNCHANGED account, lag' \in Int PROVE TickInv'
  BY <1>2 DEF TickInv, TypeOK, TimeKept, NeverAhead, LossBound, account
<1>3. CASE PollPanic
  BY <1>2, <1>3 DEF PollPanic
<1>4. CASE \E t \in Int : Tick(t)
  BY <1>2, <1>4 DEF Tick, TickInv, TypeOK
<1>5. CASE UNCHANGED tvars
  BY <1>2, <1>5 DEF tvars, TickInv, TypeOK
<1>6. QED
  BY <1>1, <1>3, <1>4, <1>5 DEF Next

(* No time has passed, and none was granted.                               *)
LEMMA InitInv == Init => TickInv
<1> SUFFICES ASSUME Init PROVE TickInv
  OBVIOUS
<1>1. TypeOK
  <2>1. lag \in Int /\ polls \in Nat /\ elapsed \in Nat /\ rounded \in Nat /\ granted \in Nat
    BY DEF Init
  <2>2. capped \in BOOLEAN
    BY Zenon DEF Init
  <2>3. QED
    BY <2>1, <2>2, Zenon DEF TypeOK
<1>2. CycleTicks \in Nat \ {0}
  BY ClockAssumption
<1>3. 0 * CycleTicks = 0 /\ 0 * (CycleTicks - 1) = 0
  BY <1>2
<1>4. NeverAhead /\ LossBound
  BY <1>3 DEF Init, NeverAhead, LossBound
<1>5. QED
  BY <1>1, <1>4 DEF TickInv, TimeKept

(* The CPU is never granted more time than has passed, and each call loses *)
(* less than one cycle, but for the rounding of the floats.                *)
THEOREM ClockKeepsTime == Spec => []TimeKept
<1>1. Spec => []TickInv
  BY InitInv, StepInv, PTL DEF Spec
<1>2. TickInv => TimeKept
  BY DEF TickInv
<1>3. QED
  BY <1>1, <1>2, PTL

----------------------------------------------------------------------------
(* The clock, with main as its host.                                       *)

(* Every step of the runner is one of the clock, or none of its business.  *)
LEMMA ClockStep == [NesNext]_nvars => [Next]_tvars
<1> SUFFICES ASSUME [NesNext]_nvars PROVE [Next]_tvars
  OBVIOUS
<1>1. CASE LoadRom \/ MapChip \/ Reset \/ Stop \/ ReportError \/ Panics
  BY <1>1 DEF LoadRom, MapChip, Reset, Stop, ReportError, Panics
<1>2. CASE CallExecute
  BY <1>2 DEF CallExecute, Next
<1>3. CASE CallPanics
  BY <1>3 DEF CallPanics, Next
<1>4. CASE \/ Quiet \/ Store \/ CallSubroutine \/ EnterInterrupt
           \/ PullStatus \/ ReturnFromInterrupt
  BY <1>4 DEF Quiet, Store, CallSubroutine, EnterInterrupt, PullStatus,
              ReturnFromInterrupt, Runs
<1>5. CASE Time
  BY <1>5, NesAssumption DEF Time, Next
<1>6. CASE UNCHANGED nvars
  BY <1>6 DEF nvars
<1>7. QED
  BY <1>1, <1>2, <1>3, <1>4, <1>5, <1>6 DEF NesNext, Main

(* The runner grants its CPU the time that passes, as the clock by itself  *)
(* does, however long its calls take and whatever the program does.        *)
THEOREM RunnerKeepsTime == NesSpec => []TimeKept
<1>1. NesInit => Init
  BY DEF NesInit
<1>2. NesSpec => Spec
  BY <1>1, ClockStep, PTL DEF NesSpec, Spec
<1>3. QED
  BY <1>2, ClockKeepsTime, PTL

----------------------------------------------------------------------------
(* The map of the bus.                                                     *)

(* main has mapped the first n regions of its layout.                      *)
Mapped(n) ==
  /\ order \in Seq(Regions) /\ Len(order) = n
  /\ \A i \in 1 .. n : /\ order[i] = Layout[i].region
                       /\ order[i] \in DOMAIN memory_map
                       /\ memory_map[order[i]] = Layout[i].chip

(* The sizes of the chips and the ends of the regions.                     *)
LEMMA Sizes ==
  /\ MaxAddr \in Nat /\ BankSize \in Nat /\ TrainerSize \in Nat /\ ChipSize \in Nat
  /\ RamEnd \in Nat /\ PpuEnd \in Nat /\ RomStart \in Nat /\ PrgStart \in Nat
  /\ 0 < ChipSize /\ 1 < BankSize
  /\ RamEnd < PpuEnd /\ PpuEnd < RomStart /\ RomStart <= PrgStart
  /\ PrgStart = MaxAddr + 1 - 2 * BankSize
BY LayoutAssumption DEF PrgStart

(* The three regions and their chips; no region is None.                   *)
LEMMA LayoutIs ==
  /\ Len(Layout) = 3 /\ DOMAIN Layout = 1 .. 3
  /\ Layout[1].region = <<0, RamEnd>> /\ Layout[1].chip = "ram"
  /\ Layout[2].region = <<RamEnd + 1, PpuEnd>> /\ Layout[2].chip = "ram"
  /\ Layout[3].region = <<RomStart, MaxAddr>> /\ Layout[3].chip = "rom"
  /\ \A i \in 1 .. 3 : Layout[i].region \in Regions /\ Layout[i].region # << >>
<1>1. /\ Layout[1] = [region |-> <<0, RamEnd>>, chip |-> "ram"]
      /\ Layout[2] = [region |-> <<RamEnd + 1, PpuEnd>>, chip |-> "ram"]
      /\ Layout[3] = [region |-> <<RomStart, MaxAddr>>, chip |-> "rom"]
      /\ Len(Layout) = 3 /\ DOMAIN Layout = 1 .. 3
  BY DEF Layout
<1>2. \A x, y : <<x, y>> # << >>
  OBVIOUS
<1>3. \A i \in 1 .. 3 : Layout[i].region \in Regions
  BY <1>1, Zenon DEF Regions
<1>4. \A i \in 1 .. 3 : i = 1 \/ i = 2 \/ i = 3
  OBVIOUS
<1>5. \A i \in 1 .. 3 : Layout[i].region # << >>
  BY <1>1, <1>2, <1>4
<1>6. QED
  BY <1>1, <1>3, <1>5

(* No two regions are the same.                                            *)
LEMMA RegionsDiffer ==
  \A i, j \in 1 .. 3 : i # j => Layout[i].region # Layout[j].region
<1>1. 0 # RamEnd + 1 /\ 0 # RomStart /\ RamEnd + 1 # RomStart
  BY Sizes
<1>2. QED
  BY <1>1, LayoutIs

(* A mapping that does not conflict adds the next region.                  *)
LEMMA MapNext ==
  ASSUME NEW n \in 0 .. 2, Mapped(n), MapChip, stage' # "panicked"
  PROVE  Mapped(n + 1)' /\ stage' = IF n = 2 THEN "reset" ELSE "map"
<1> DEFINE next == Layout[n + 1]
<1>1. /\ memory_map' = [r \in DOMAIN memory_map \cup {next.region} |->
                          IF r = next.region THEN next.chip ELSE memory_map[r]]
      /\ order' = Append(order, next.region)
      /\ stage' = IF n + 1 = 3 THEN "reset" ELSE "map"
  BY LayoutIs DEF MapChip, Unwind, Mapped
<1>2. n + 1 \in 1 .. 3 /\ next.region \in Regions
  BY LayoutIs
<1>3. order' \in Seq(Regions) /\ Len(order') = n + 1
  BY <1>1, <1>2 DEF Mapped
<1>4. ASSUME NEW i \in 1 .. n + 1
      PROVE  /\ order'[i] = Layout[i].region
             /\ order'[i] \in DOMAIN memory_map'
             /\ memory_map'[order'[i]] = Layout[i].chip
  <2>1. CASE i = n + 1
    <3>1. order'[i] = next.region
      BY <1>1, <1>2, <2>1 DEF Mapped
    <3>2. QED
      BY <1>1, <2>1, <3>1
  <2>2. CASE i # n + 1
    <3>1. i \in 1 .. n /\ i \in 1 .. 3
      BY <2>2
    <3>2. order'[i] = order[i]
      BY <1>1, <1>2, <3>1 DEF Mapped
    <3>3. /\ order[i] = Layout[i].region /\ order[i] \in DOMAIN memory_map
          /\ memory_map[order[i]] = Layout[i].chip
      BY <3>1 DEF Mapped
    <3>4. order[i] # next.region
      BY <1>2, <2>2, <3>1, <3>3, RegionsDiffer
    <3>5. QED
      BY <1>1, <3>2, <3>3, <3>4
  <2>3. QED
    BY <2>1, <2>2
<1>5. Mapped(n + 1)'
  BY <1>3, <1>4 DEF Mapped, Layout
<1>6. QED
  BY <1>1, <1>5

(* The lookup of an address, once all regions are mapped.                  *)
LEMMA Lookup ==
  ASSUME Mapped(3), NEW a \in Addr
  PROVE  /\ a <= PpuEnd => /\ B!GetRegionPlace(a) # << >>
                           /\ memory_map[B!GetRegionPlace(a)] = "ram"
         /\ a > PpuEnd /\ a < RomStart => B!GetRegionPlace(a) = << >>
         /\ a >= RomStart => /\ B!GetRegionPlace(a) # << >>
                             /\ memory_map[B!GetRegionPlace(a)] = "rom"
<1> DEFINE hits == {i \in DOMAIN order : B!Covers(order[i], a)}
           Hit(i) == order[i][1] <= a /\ a <= order[i][2]
<1>1. DOMAIN order = 1 .. 3
  BY DEF Mapped
<1>2. /\ order[1] = <<0, RamEnd>> /\ order[2] = <<RamEnd + 1, PpuEnd>>
      /\ order[3] = <<RomStart, MaxAddr>>
      /\ \A i \in 1 .. 3 : order[i] # << >>
      /\ memory_map[order[1]] = "ram" /\ memory_map[order[2]] = "ram"
      /\ memory_map[order[3]] = "rom"
  BY LayoutIs DEF Mapped
<1>3. hits = {i \in 1 .. 3 : Hit(i)}
  BY <1>1 DEF B!Covers
<1>4. /\ Hit(1) <=> a <= RamEnd
      /\ Hit(2) <=> RamEnd < a /\ a <= PpuEnd
      /\ Hit(3) <=> RomStart <= a
  BY <1>2, Sizes DEF Addr
<1>5. ASSUME NEW i \in 1 .. 3, hits = {i}
      PROVE  B!GetRegionPlace(a) = order[i]
  <2>1. (CHOOSE k \in hits : \A j \in hits : k <= j) = i
    BY <1>5
  <2>2. QED
    BY <1>5, <2>1 DEF B!GetRegionPlace, B!First
<1> HIDE DEF Hit
<1>6. CASE a <= RamEnd
  <2>1. hits = {1}
    BY <1>3, <1>4, <1>6, Sizes DEF Addr
  <2>2. QED
    BY <1>2, <1>5, <1>6, <2>1, Sizes DEF Addr
<1>7. CASE RamEnd < a /\ a <= PpuEnd
  <2>1. hits = {2}
    BY <1>3, <1>4, <1>7, Sizes DEF Addr
  <2>2. QED
    BY <1>2, <1>5, <1>7, <2>1, Sizes DEF Addr
<1>8. CASE RomStart <= a
  <2>1. hits = {3}
    BY <1>3, <1>4, <1>8, Sizes DEF Addr
  <2>2. QED
    BY <1>2, <1>5, <1>8, <2>1, Sizes DEF Addr
<1>9. CASE PpuEnd < a /\ a < RomStart
  <2>1. hits = {}
    BY <1>3, <1>4, <1>9, Sizes DEF Addr
  <2>2. B!GetRegionPlace(a) = << >>
    BY <2>1 DEF B!GetRegionPlace, B!First
  <2>3. QED
    BY <1>9, <2>2, Sizes DEF Addr
<1>10. QED
  BY <1>6, <1>7, <1>8, <1>9, Sizes DEF Addr

----------------------------------------------------------------------------
(* The cartridge.                                                          *)

(* A remainder, and a number that is its own.                              *)
LEMMA Remainder ==
  ASSUME NEW n \in Nat, 0 < n, NEW k \in Nat
  PROVE  k % n \in 0 .. n - 1 /\ (k < n => k % n = k)
OBVIOUS

(* The size of the PRG section against that of a bank.                     *)
LEMMA PrgSize ==
  ASSUME NEW f \in Files
  PROVE  /\ PrgRomSize(f) \in Nat
         /\ f.prg = 0 => PrgRomSize(f) = 0
         /\ f.prg = 1 => PrgRomSize(f) = BankSize
         /\ f.prg > 1 => PrgRomSize(f) >= 2 * BankSize
<1>1. f.prg \in Nat
  BY DEF Files
<1>2. ASSUME f.prg > 1 PROVE f.prg * BankSize >= 2 * BankSize
  <2>1. PICK k \in Nat : f.prg = 2 + k
    <3>1. f.prg - 2 \in Nat /\ f.prg = 2 + (f.prg - 2)
      BY <1>1, <1>2
    <3>2. QED
      BY <3>1
  <2>2. f.prg * BankSize = 2 * BankSize + k * BankSize /\ k * BankSize >= 0
    BY <2>1, Sizes
  <2>3. QED
    BY <2>1, <2>2, Sizes
<1>3. QED
  BY <1>1, <1>2, Sizes DEF PrgRomSize

(* A cartridge with no bank panics when the reset vector is read.          *)
LEMMA EmptyPanics ==
  ASSUME NEW f \in Files, f.prg = 0
  PROVE  RomPanics(Rom(f), ResetVector)
<1>1. Rom(f).len = 0
  BY PrgSize DEF Rom
<1>2. ResetVector >= PrgStart /\ ResetVector - PrgStart >= 0
  BY Sizes DEF ResetVector
<1>3. RomIndex(Rom(f), ResetVector) >= 0
  BY <1>1, <1>2, Sizes DEF RomIndex
<1>4. QED
  BY <1>1, <1>2, <1>3 DEF RomPanics

(* With a bank it never panics, and answers with its section.              *)
LEMMA BankAnswers ==
  ASSUME NEW f \in Files, f.prg > 0, NEW a \in PrgStart .. MaxAddr
  PROVE  LET banks == IF f.prg = 1 THEN 1 ELSE 2
         IN /\ ~RomPanics(Rom(f), a)
            /\ RomRead(Rom(f), a) = PrgRomStart(f) + ((a - PrgStart) % (banks * BankSize))
<1> DEFINE k == a - PrgStart
<1>1. k \in Nat /\ k < 2 * BankSize /\ a >= PrgStart
  BY Sizes
<1>2. f.prg \in Nat /\ Rom(f).len = PrgRomSize(f) /\ Rom(f).start = PrgRomStart(f)
  BY DEF Files, Rom
<1>3. CASE f.prg = 1
  <2>1. Rom(f).len = BankSize
    BY <1>2, <1>3, PrgSize
  <2>2. RomIndex(Rom(f), a) = k % BankSize
    BY <2>1 DEF RomIndex
  <2>3. k % BankSize \in 0 .. BankSize - 1
    BY <1>1, Sizes, Remainder
  <2>4. 1 * BankSize = BankSize
    BY Sizes
  <2>5. ~RomPanics(Rom(f), a)
    BY <2>1, <2>2, <2>3, Sizes DEF RomPanics
  <2>6. RomRead(Rom(f), a) = PrgRomStart(f) + (k % BankSize)
    BY <1>1, <1>2, <2>2 DEF RomRead
  <2>7. QED
    BY <1>3, <2>4, <2>5, <2>6
<1>4. CASE f.prg > 1
  <2>1. Rom(f).len >= 2 * BankSize /\ Rom(f).len \in Nat
    BY <1>2, <1>4, PrgSize
  <2>2. RomIndex(Rom(f), a) = k
    BY <2>1, Sizes DEF RomIndex
  <2>3. k % (2 * BankSize) = k
    BY <1>1, Sizes, Remainder
  <2>4. ~RomPanics(Rom(f), a)
    BY <1>1, <2>1, <2>2, Sizes DEF RomPanics
  <2>5. RomRead(Rom(f), a) = PrgRomStart(f) + k
    BY <1>1, <1>2, <2>2 DEF RomRead
  <2>6. QED
    BY <1>4, <2>3, <2>4, <2>5
<1>5. QED
  BY <1>2, <1>3, <1>4

----------------------------------------------------------------------------
(* The invariant: how far the runner has come with its setup, and what its *)
(* memory holds.                                                           *)

SetupInv ==
  /\ file \in Files
  /\ stage = "load" => Mapped(0)
  /\ stage = "map" => \E n \in 0 .. 2 : Mapped(n)
  /\ stage \in {"reset", "loop", "done"} => Mapped(3)
  /\ stage \in {"map", "reset", "loop", "done"} => rom = Rom(file)
  /\ stage = "loop" => file.prg > 0

MemoryInv ==
  /\ ram \in [0 .. ChipSize - 1 -> Data]
  /\ written \in [0 .. PpuEnd -> Data]
  /\ \A a \in 0 .. PpuEnd : ram[Mirror(a)] = written[a]
  /\ stage = "done" => results = <<written[ResultA], written[ResultB]>>

NesInv == SetupInv /\ MemoryInv

(* What the bus answers once all is mapped.                                *)
LEMMA BusAnswers ==
  ASSUME Mapped(3), NEW a \in Addr
  PROVE  /\ a <= PpuEnd => BusRead(a) = ram[Mirror(a)] /\ ~BusPanics(a)
         /\ a > PpuEnd /\ a < RomStart => ~BusPanics(a)
         /\ a >= RomStart => /\ BusRead(a) = RomRead(rom, a)
                             /\ BusPanics(a) => RomPanics(rom, a)
BY Lookup, "ram" # "rom" DEF BusRead, BusPanics

(* The RAM of the NES reads as it was last written to, through any mirror. *)
LEMMA RamAnswers ==
  ASSUME Mapped(3), MemoryInv, NEW a \in 0 .. PpuEnd
  PROVE  BusRead(a) = written[a]
<1>1. a \in Addr /\ a <= PpuEnd
  BY Sizes DEF Addr
<1>2. QED
  BY <1>1, BusAnswers DEF MemoryInv

(* The invariant has the properties.                                       *)
LEMMA InvImpliesPrgAnswers == NesInv => PrgAnswers
<1> SUFFICES ASSUME NesInv, InLoop PROVE PrgAnswers
  BY DEF PrgAnswers
<1>1. file \in Files /\ file.prg > 0 /\ Mapped(3) /\ rom = Rom(file)
  BY DEF NesInv, SetupInv, InLoop
<1>2. ASSUME NEW a \in Addr PROVE ~BusPanics(a)
  <2>1. CASE a >= PrgStart
    <3>1. a \in PrgStart .. MaxAddr /\ a >= RomStart
      BY <2>1, Sizes DEF Addr
    <3>2. ~RomPanics(Rom(file), a)
      BY <1>1, <3>1, BankAnswers
    <3>3. QED
      BY <1>1, <3>1, <3>2, BusAnswers
  <2>2. CASE a < PrgStart
    <3>1. ~RomPanics(rom, a)
      BY <2>2, Sizes DEF RomPanics, Addr
    <3>2. QED
      BY <1>1, <3>1, BusAnswers, Sizes DEF Addr
  <2>3. QED
    BY <2>1, <2>2, Sizes DEF Addr
<1>3. ASSUME NEW a \in PrgStart .. MaxAddr
      PROVE  LET section == 16 + (IF file.trainer THEN TrainerSize ELSE 0)
                 banks   == IF file.prg = 1 THEN 1 ELSE 2
             IN BusRead(a) = section + ((a - PrgStart) % (banks * BankSize))
  <2>1. a \in Addr /\ a >= RomStart
    BY Sizes DEF Addr
  <2>2. BusRead(a) = RomRead(Rom(file), a)
    BY <1>1, <2>1, BusAnswers
  <2>3. QED
    BY <1>1, <2>2, BankAnswers DEF PrgRomStart, HeaderSize
<1>4. QED
  BY <1>1, <1>2, <1>3 DEF PrgAnswers

(* What the bus answers and what main prints is what was written.          *)
LEMMA InvImpliesMirrorsAgree == NesInv => MirrorsAgree
<1> SUFFICES ASSUME NesInv PROVE MirrorsAgree
  OBVIOUS
<1>1. InLoop => Mapped(3)
  BY DEF NesInv, SetupInv, InLoop
<1>2. QED
  BY <1>1, RamAnswers DEF NesInv, MemoryInv, MirrorsAgree

----------------------------------------------------------------------------
(* The steps.                                                              *)

(* Nothing is mapped at first, and all cells are 0.                        *)
LEMMA NesInitInv == NesInit => NesInv
<1> SUFFICES ASSUME NesInit PROVE NesInv
  OBVIOUS
<1>1. /\ stage = "load" /\ file \in Files /\ order = << >>
      /\ ram = [i \in 0 .. ChipSize - 1 |-> 0] /\ written = [a \in 0 .. PpuEnd |-> 0]
  BY NesAssumption DEF NesInit
<1>2. Mapped(0)
  BY <1>1 DEF Mapped
<1>3. SetupInv
  BY <1>1, <1>2 DEF SetupInv
<1>4. \A a \in 0 .. PpuEnd : Mirror(a) \in 0 .. ChipSize - 1
  BY Sizes, Remainder DEF Mirror
<1>5. MemoryInv
  BY <1>1, <1>4, NesAssumption DEF MemoryInv
<1>6. QED
  BY <1>3, <1>5 DEF NesInv

(* A write reaches all mirrors of its cell, and nothing else.              *)
LEMMA WriteInv ==
  ASSUME MemoryInv, NEW a \in Addr, NEW d \in Data, BusWrite(a, d), stage' = "loop"
  PROVE  MemoryInv'
<1>1. CASE UNCHANGED memory
  BY <1>1 DEF memory, MemoryInv, Mirror
<1>2. CASE ~UNCHANGED memory
  <2>1. /\ ram' = [ram EXCEPT ![Mirror(a)] = d]
        /\ written' = [b \in 0 .. PpuEnd |-> IF Mirror(a) = Mirror(b) THEN d ELSE written[b]]
    BY <1>2 DEF BusWrite, RamWrite, InCell, Last, MemoryInv, SameCell, Mirror
  <2>2. \A b \in 0 .. PpuEnd : Mirror(b) \in 0 .. ChipSize - 1
    BY Sizes, Remainder DEF Mirror
  <2>3. ram' \in [0 .. ChipSize - 1 -> Data] /\ written' \in [0 .. PpuEnd -> Data]
    BY <2>1 DEF MemoryInv
  <2>4. ASSUME NEW b \in 0 .. PpuEnd PROVE ram'[Mirror(b)] = written'[b]
    <3>1. ram[Mirror(b)] = written[b] /\ Mirror(b) \in DOMAIN ram
      BY <2>2 DEF MemoryInv
    <3>2. QED
      BY <2>1, <3>1
  <2>5. QED
    BY <2>3, <2>4 DEF MemoryInv, Mirror
<1>3. QED
  BY <1>1, <1>2

(* The RAM and what was last written to it agree.                          *)
Agree(cells, log) ==
  /\ cells \in [0 .. ChipSize - 1 -> Data]
  /\ log \in [0 .. PpuEnd -> Data]
  /\ \A b \in 0 .. PpuEnd : cells[Mirror(b)] = log[b]

(* A byte that is pushed reaches its mirrors as a write does.              *)
LEMMA PushAgrees ==
  ASSUME NEW cells, NEW log, Agree(cells, log), NEW a \in Nat, NEW d \in Data
  PROVE  Agree(InCell(cells, a, d), Last(log, a, d))
<1>1. \A b \in 0 .. PpuEnd : Mirror(b) \in 0 .. ChipSize - 1
  BY Sizes, Remainder DEF Mirror
<1>2. ASSUME NEW b \in 0 .. PpuEnd PROVE InCell(cells, a, d)[Mirror(b)] = Last(log, a, d)[b]
  BY <1>1, <1>2 DEF Agree, InCell, Last, SameCell, Mirror
<1>3. QED
  BY <1>2 DEF Agree, InCell, Last

(* The stack lies in the RAM.                                              *)
LEMMA StackPlace == ASSUME NEW n \in Nat PROVE StackAt(n) \in Nat
BY NesAssumption DEF StackAt

(* JSR and the start of an interrupt keep the mirrors.                     *)
LEMMA PushesInv ==
  ASSUME MemoryInv, PushTwo \/ PushThree, stage' = "loop" PROVE MemoryInv'
<1>1. Agree(ram, written)
  BY DEF MemoryInv, Agree
<1>2. \A n \in 0 .. StackSize - 1 : /\ StackAt(n) \in Nat /\ StackAt(n + 1) \in Nat
                                  /\ StackAt(n + 2) \in Nat
  BY NesAssumption, StackPlace
<1>3. Agree(ram', written')
  <2>1. CASE PushTwo
    <3>1. PICK n \in 0 .. StackSize - 1, d \in [1 .. 2 -> Data] :
            /\ ram' = InCell(InCell(ram, StackAt(n), d[1]), StackAt(n + 1), d[2])
            /\ written' = Last(Last(written, StackAt(n), d[1]), StackAt(n + 1), d[2])
      BY <2>1 DEF PushTwo
    <3>2. d[1] \in Data /\ d[2] \in Data
      OBVIOUS
    <3>3. Agree(InCell(ram, StackAt(n), d[1]), Last(written, StackAt(n), d[1]))
      BY <1>1, <1>2, <3>2, PushAgrees
    <3>4. QED
      BY <1>2, <3>1, <3>2, <3>3, PushAgrees
  <2>2. CASE PushThree
    <3>1. PICK n \in 0 .. StackSize - 1, d \in [1 .. 3 -> Data] :
            /\ ram' = InCell(InCell(InCell(ram, StackAt(n), d[1]), StackAt(n + 1), d[2]),
                             StackAt(n + 2), d[3])
            /\ written' = Last(Last(Last(written, StackAt(n), d[1]), StackAt(n + 1), d[2]),
                               StackAt(n + 2), d[3])
      BY <2>2 DEF PushThree
    <3>2. d[1] \in Data /\ d[2] \in Data /\ d[3] \in Data
      OBVIOUS
    <3>3. Agree(InCell(ram, StackAt(n), d[1]), Last(written, StackAt(n), d[1]))
      BY <1>1, <1>2, <3>2, PushAgrees
    <3>4. Agree(InCell(InCell(ram, StackAt(n), d[1]), StackAt(n + 1), d[2]),
                Last(Last(written, StackAt(n), d[1]), StackAt(n + 1), d[2]))
      BY <1>2, <3>2, <3>3, PushAgrees
    <3>5. QED
      BY <1>2, <3>1, <3>2, <3>4, PushAgrees
  <2>3. QED
    BY <2>1, <2>2
<1>4. QED
  BY <1>3 DEF Agree, MemoryInv, Mirror

(* What leaves the setup alone and does not start another stage.           *)
LEMMA SetupStays ==
  ASSUME SetupInv, UNCHANGED setup, stage' \in {stage, "panicked"} PROVE SetupInv'
<1>1. \A n \in 0 .. 3 : Mapped(n) => Mapped(n)'
  BY DEF Mapped, setup, Layout
<1>2. QED
  BY <1>1 DEF SetupInv, setup, Rom, PrgRomStart, PrgRomSize

(* A step that writes no cell and prints nothing keeps the mirrors.        *)
LEMMA MemoryStays ==
  ASSUME MemoryInv, UNCHANGED memory, UNCHANGED results, stage' = "done" => stage = "done"
  PROVE  MemoryInv'
BY DEF MemoryInv, memory, Mirror

(* Every action of main, and time, keeps the invariant.                    *)
LEMMA NesStepInv == NesInv /\ [NesNext]_nvars => NesInv'
<1> SUFFICES ASSUME NesInv, [NesNext]_nvars PROVE NesInv'
  OBVIOUS
<1>0. SetupInv /\ MemoryInv
  BY DEF NesInv
<1>1. CASE LoadRom
  <2>1. SetupInv'
    <3>1. CASE stage' = "panicked"
      BY <1>0, <1>1, <3>1 DEF LoadRom, SetupInv
    <3>2. CASE stage' # "panicked"
      <4>1. rom' = Rom(file) /\ stage' = "map" /\ UNCHANGED <<file, memory_map, order>>
        BY <1>1, <3>2 DEF LoadRom, Unwind
      <4>2. Mapped(0)'
        BY <1>0, <1>1, <4>1 DEF LoadRom, SetupInv, Mapped, Layout
      <4>3. QED
        BY <1>0, <4>1, <4>2 DEF SetupInv, Rom, PrgRomStart, PrgRomSize
    <3>3. QED
      BY <3>1, <3>2
  <2>2. MemoryInv'
    BY <1>0, <1>1, MemoryStays DEF LoadRom, Unwind, memory
  <2>3. QED
    BY <2>1, <2>2 DEF NesInv
<1>2. CASE MapChip
  <2>1. SetupInv'
    <3>1. CASE stage' = "panicked"
      BY <1>0, <1>2, <3>1 DEF MapChip, SetupInv
    <3>2. CASE stage' # "panicked"
      <4>1. PICK n \in 0 .. 2 : Mapped(n)
        BY <1>0, <1>2 DEF MapChip, SetupInv
      <4>2. Mapped(n + 1)' /\ stage' = IF n = 2 THEN "reset" ELSE "map"
        BY <1>2, <3>2, <4>1, MapNext
      <4>3. UNCHANGED <<file, rom>> /\ rom = Rom(file)
        BY <1>0, <1>2 DEF MapChip, SetupInv
      <4>4. QED
        BY <1>0, <4>2, <4>3 DEF SetupInv, Rom, PrgRomStart, PrgRomSize
    <3>3. QED
      BY <3>1, <3>2
  <2>2. MemoryInv'
    BY <1>0, <1>2, MemoryStays DEF MapChip, Unwind, memory
  <2>3. QED
    BY <2>1, <2>2 DEF NesInv
<1>3. CASE Reset
  <2>1. SetupInv'
    <3>1. CASE stage' = "panicked"
      BY <1>0, <1>3, <3>1, SetupStays DEF Reset
    <3>2. CASE stage' # "panicked"
      <4>1. stage' = "loop" /\ ~RomPanics(rom, ResetVector) /\ UNCHANGED setup
        BY <1>3, <3>2 DEF Reset, Unwind
      <4>2. file \in Files /\ rom = Rom(file) /\ Mapped(3)
        BY <1>0, <1>3 DEF Reset, SetupInv
      <4>3. file.prg > 0
        BY <4>1, <4>2, EmptyPanics DEF Files
      <4>4. Mapped(3)'
        BY <4>1, <4>2 DEF Mapped, setup, Layout
      <4>5. QED
        BY <4>1, <4>2, <4>3, <4>4 DEF SetupInv, setup, Rom, PrgRomStart, PrgRomSize
    <3>3. QED
      BY <3>1, <3>2
  <2>2. MemoryInv'
    BY <1>0, <1>3, MemoryStays DEF Reset, Unwind
  <2>3. QED
    BY <2>1, <2>2 DEF NesInv
<1>4. CASE Stop
  <2>1. UNCHANGED <<setup, memory>> /\ stage = "loop" /\ stage' = "done"
        /\ results' = <<BusRead(ResultA), BusRead(ResultB)>>
    BY <1>4 DEF Stop, InLoop
  <2>2. Mapped(3) /\ rom = Rom(file) /\ file \in Files
    BY <1>0, <2>1 DEF SetupInv
  <2>3. SetupInv'
    <3>1. Mapped(3)'
      BY <2>1, <2>2 DEF Mapped, setup, Layout
    <3>2. QED
      BY <2>1, <2>2, <3>1 DEF SetupInv, setup, Rom, PrgRomStart, PrgRomSize
  <2>4. ResultA \in 0 .. PpuEnd /\ ResultB \in 0 .. PpuEnd
    BY NesAssumption, Sizes
  <2>5. results' = <<written[ResultA], written[ResultB]>>
    BY <1>0, <2>1, <2>2, <2>4, RamAnswers
  <2>6. MemoryInv'
    BY <1>0, <2>1, <2>5 DEF MemoryInv, memory, Mirror
  <2>7. QED
    BY <2>3, <2>6 DEF NesInv
<1>5. CASE CallExecute \/ CallPanics \/ ReportError \/ Panics \/ Time
  <2>1. /\ UNCHANGED <<setup, memory, results>> /\ stage = "loop"
        /\ stage' \in {stage, "panicked"}
    BY <1>5 DEF CallExecute, CallPanics, ReportError, Panics, Time, Unwind, InLoop
  <2>2. QED
    BY <1>0, <2>1, SetupStays, MemoryStays DEF NesInv
<1>6. CASE Quiet \/ PullStatus \/ ReturnFromInterrupt
  <2>1. UNCHANGED <<setup, memory, results, stage>>
    BY <1>6 DEF Quiet, PullStatus, ReturnFromInterrupt, Runs
  <2>2. QED
    BY <1>0, <2>1, SetupStays, MemoryStays DEF NesInv
<1>7. CASE Store \/ CallSubroutine \/ EnterInterrupt
  <2>1. UNCHANGED <<setup, results, stage>> /\ stage = "loop"
    BY <1>7 DEF Store, CallSubroutine, EnterInterrupt, Runs, InLoop
  <2>2. CASE Store
    <3>1. PICK a \in Addr, d \in Data : BusWrite(a, d)
      BY <2>2 DEF Store
    <3>2. QED
      BY <1>0, <2>1, <3>1, WriteInv, SetupStays DEF NesInv
  <2>3. CASE CallSubroutine \/ EnterInterrupt
    <3>1. PushTwo \/ PushThree
      BY <2>3 DEF CallSubroutine, EnterInterrupt
    <3>2. QED
      BY <1>0, <2>1, <3>1, PushesInv, SetupStays DEF NesInv
  <2>4. QED
    BY <1>7, <2>2, <2>3
<1>8. CASE UNCHANGED nvars
  BY <1>0, <1>8, SetupStays, MemoryStays DEF NesInv, nvars
<1>9. QED
  BY <1>1, <1>2, <1>3, <1>4, <1>5, <1>6, <1>7, <1>8 DEF NesNext, Main

(* The inductive invariant of the runner.                                  *)
LEMMA NesInvariant == NesSpec => []NesInv
BY NesInitInv, NesStepInv, PTL DEF NesSpec

(* Once the program runs, the banks answer with the PRG section of the     *)
(* cartridge and no read panics, for every file that gets this far.        *)
THEOREM BanksHoldTheProgram == NesSpec => []PrgAnswers
BY NesInvariant, InvImpliesPrgAnswers, PTL

(* The RAM of the NES and its mirrors hold what was last written, through  *)
(* whichever address, and main prints that.                                *)
THEOREM RamIsMirrored == NesSpec => []MirrorsAgree
BY NesInvariant, InvImpliesMirrorsAgree, PTL

----------------------------------------------------------------------------
(* The loop of execute, with main for its owner.                           *)

(* The addresses and the cycles of the loop.                               *)
LEMMA LoopSizes ==
  /\ MaxAddr + 1 \in Nat \ {0} /\ Loop!Addr = Addr
  /\ CycleSpace \in Nat \ {0} /\ 0 .. MaxBudget = 0 .. CycleSpace - 1
  /\ Vectors \subseteq Addr /\ StartPc \in Addr
<1>1. MaxAddr \in Nat /\ Loop!Addr = Addr
  BY Sizes DEF Loop!Addr, Addr
<1>2. CycleSpace \in Nat \ {0}
  BY LoopAssumption DEF Loop!MaxCost, Loop!MaxCycles, Loop!MaxExtra
<1>3. StartPc \in Addr
  BY Sizes DEF StartPc, Addr
<1>4. QED
  BY <1>1, <1>2, <1>3, NesAssumption, LoopAssumption DEF Addr

(* A Straight or a Transfer of the runner is one of the loop.              *)
LEMMA RetireSteps ==
  ASSUME NEW extra, extra \subseteq Extra, Straight(extra) \/ Transfer(extra)
  PROVE  Loop!Next
<1>1. Loop!Addr = Addr
  BY LoopSizes
<1>2. QED
  BY <1>1 DEF Straight, Transfer, Extra, Loop!Next, Loop!Iteration

(* Every step of the runner is one of the loop, or none of its business:   *)
(* it is an owner of the CPU as ExecuteLoop allows for.                    *)
LEMMA NesLoopStep ==
  ASSUME SetupInv, stage = "reset" => phase = "idle", [NesNext]_nvars
  PROVE  [Loop!Next]_(Loop!vars)
<1>0. Loop!Addr = Addr /\ Vectors \subseteq Addr /\ StartPc \in Addr
      /\ {0} \subseteq Extra
  BY LoopSizes DEF Extra, Loop!MaxExtra
<1>1. CASE LoadRom \/ MapChip \/ Stop \/ ReportError \/ Time \/ UNCHANGED nvars
  BY <1>1 DEF LoadRom, MapChip, Stop, ReportError, Time, nvars, loop, Loop!vars
<1>2. CASE Reset
  <2>1. CASE UNCHANGED pc
    BY <1>2, <2>1 DEF Reset, Loop!vars
  <2>2. CASE pc' = StartPc
    <3>1. Loop!Place(StartPc)
      BY <1>2, <2>2 DEF Reset, Loop!Place, Loop!Resting
    <3>2. QED
      BY <1>0, <3>1 DEF Loop!Next, Loop!Between
  <2>3. QED
    BY <1>2, <2>1, <2>2 DEF Reset
<1>3. CASE CallExecute \/ CallPanics
  BY <1>3 DEF CallExecute, CallPanics, Loop!Next, Loop!Between
<1>4. CASE Quiet
  <2>1. CASE Straight(Extra) \/ Transfer(Extra)
    BY <2>1, RetireSteps
  <2>2. CASE Loop!Stall \/ Loop!Return \/ Loop!Break \/ Loop!Fail
    BY <2>2 DEF Loop!Next, Loop!Iteration
  <2>3. QED
    BY <1>4, <2>1, <2>2 DEF Quiet
<1>5. CASE Store \/ CallSubroutine \/ PullStatus \/ ReturnFromInterrupt
  BY <1>0, <1>5, RetireSteps DEF Store, CallSubroutine, PullStatus, ReturnFromInterrupt
<1>6. CASE EnterInterrupt
  BY <1>0, <1>6 DEF EnterInterrupt, Loop!Next, Loop!Iteration
<1>7. CASE Panics
  BY <1>7 DEF Panics, Loop!Next, Loop!Iteration
<1>8. QED
  BY <1>1, <1>2, <1>3, <1>4, <1>5, <1>6, <1>7 DEF NesNext, Main

(* The end of an iteration keeps the counter and the budget in range.      *)
LEMMA RetireTypes ==
  ASSUME Loop!TypeOK, NEW op \in Ops, NEW extra \in 0 .. Loop!MaxExtra, NEW t \in Addr,
         Loop!Retire(op, op.cycles + extra, t)
  PROVE  pc' \in Addr /\ cpu_cycles' \in 0 .. CycleSpace - 1
<1>1. op.len \in Int /\ op.cycles + extra \in Int
  BY LoopAssumption DEF Loop!MaxLen, Loop!MaxCycles, Loop!MaxExtra
<1>2. pc \in Int /\ cpu_cycles \in Int
  BY LoopSizes DEF Loop!TypeOK, Addr
<1>3. ASSUME NEW n \in Nat \ {0}, NEW a \in Int PROVE a % n \in 0 .. n - 1
  OBVIOUS
<1>4. (pc + op.len) % (MaxAddr + 1) \in Addr
  <2>1. pc + op.len \in Int
    BY <1>1, <1>2
  <2>2. (pc + op.len) % (MaxAddr + 1) \in 0 .. (MaxAddr + 1) - 1
    BY <1>3, <2>1, LoopSizes
  <2>3. (MaxAddr + 1) - 1 = MaxAddr
    BY Sizes
  <2>4. QED
    BY <2>2, <2>3 DEF Addr
<1>5. (cpu_cycles - (op.cycles + extra)) % CycleSpace \in 0 .. CycleSpace - 1
      /\ 0 \in 0 .. CycleSpace - 1
  <2>1. cpu_cycles - (op.cycles + extra) \in Int
    BY <1>1, <1>2
  <2>2. CycleSpace \in Nat \ {0}
    BY LoopSizes
  <2>3. (cpu_cycles - (op.cycles + extra)) % CycleSpace \in 0 .. CycleSpace - 1
    BY <1>3, <2>1, <2>2
  <2>4. QED
    BY <2>2, <2>3
<1>6. QED
  BY <1>4, <1>5 DEF Loop!Retire, Loop!Following

(* Every step of the loop keeps its types.                                 *)
LEMMA LoopTypes ==
  ASSUME Loop!TypeOK, [Loop!Next]_(Loop!vars) PROVE Loop!TypeOK'
<1>0. Loop!Addr = Addr /\ 0 \in 0 .. CycleSpace - 1 /\ Loop!AfterFetch \in Addr
  <2>1. pc \in Int
    BY LoopSizes DEF Loop!TypeOK, Addr
  <2>2. (pc + 1) % (MaxAddr + 1) \in 0 .. MaxAddr
    BY <2>1, Sizes
  <2>3. QED
    BY <2>2, LoopSizes DEF Loop!AfterFetch, Addr
<1>1. CASE \E op \in Ops, e \in 0 .. Loop!MaxExtra :
             Loop!Straight(op, e) \/ \E t \in Loop!Addr : Loop!Transfer(op, e, t)
  <2>1. PICK op \in Ops, e \in 0 .. Loop!MaxExtra, t \in Addr :
          Loop!Retire(op, op.cycles + e, t) /\ UNCHANGED <<interrupt, phase, stall_cycles>>
    BY <1>0, <1>1 DEF Loop!Straight, Loop!Transfer
  <2>2. QED
    BY <1>0, <2>1, RetireTypes DEF Loop!TypeOK
<1>2. CASE \/ Loop!Return \/ Loop!Break \/ Loop!Fail \/ Loop!Panic \/ Loop!ClockPanic
           \/ \E v \in Loop!Addr : Loop!HandleInterrupt(v) \/ Loop!Place(v)
           \/ \E i \in Loop!External : Loop!Raise(i)
  BY <1>0, <1>2
     DEF Loop!TypeOK, Loop!Return, Loop!Break, Loop!Fail, Loop!Panic, Loop!ClockPanic,
         Loop!HandleInterrupt, Loop!Place, Loop!Raise, Loop!Pending, Loop!Phase,
         Loop!InterruptCycles, Loop!MaxStall
<1>3. CASE Loop!Stall
  BY <1>3 DEF Loop!TypeOK, Loop!Stall, Loop!MaxStall
<1>4. ASSUME NEW b \in 0 .. MaxBudget, Loop!Call(b) PROVE Loop!TypeOK'
  <2>1. b \in 0 .. CycleSpace - 1
    BY <1>4, LoopSizes, Zenon
  <2>2. cpu_cycles' \in 0 .. CycleSpace - 1 /\ stall_cycles' \in 0 .. Loop!MaxStall
    BY <1>4, <2>1 DEF Loop!Call, Loop!MaxStall
  <2>3. QED
    BY <1>4, <2>2 DEF Loop!TypeOK, Loop!Call, Loop!Phase
<1>5. CASE UNCHANGED Loop!vars
  BY <1>5 DEF Loop!vars, Loop!TypeOK
<1>6. QED
  BY <1>1, <1>2, <1>3, <1>4, <1>5 DEF Loop!Next, Loop!Iteration, Loop!Between

(* What main itself keeps of the types.                                    *)
MainTypes ==
  /\ stage \in Stage
  /\ stage \in {"load", "map", "reset"} => phase = "idle"
  /\ file \in Cartridges
  /\ rom \in [start: Nat, len: Nat]
  /\ \A r \in DOMAIN memory_map : r \in Regions /\ memory_map[r] \in Chips
  /\ break_flag \in BOOLEAN

RunnerInv == NesInv /\ TickInv /\ Loop!TypeOK /\ MainTypes

(* The Rom made of a file has natural numbers for its place and its size.  *)
LEMMA RomType == ASSUME file \in Files PROVE Rom(file) \in [start: Nat, len: Nat]
<1>1. PrgRomStart(file) \in Nat
  BY Sizes DEF PrgRomStart, HeaderSize, Files
<1>2. PrgRomSize(file) \in Nat
  BY Sizes DEF PrgRomSize, Files
<1>3. QED
  BY <1>1, <1>2 DEF Rom

(* A mapping adds a region of the layout with its chip.                    *)
LEMMA MapTypes ==
  ASSUME MainTypes, SetupInv, MapChip
  PROVE  \A r \in DOMAIN memory_map' : r \in Regions /\ memory_map'[r] \in Chips
<1> DEFINE next == Layout[Len(order) + 1]
<1>1. PICK n \in 0 .. 2 : Mapped(n)
  BY DEF MapChip, SetupInv
<1>2. next.region \in Regions /\ next.chip \in Chips
  <2>1. Len(order) + 1 \in 1 .. 3
    BY <1>1 DEF Mapped
  <2>2. QED
    BY <2>1, LayoutIs DEF Chips
<1> HIDE DEF next
<1>3. \/ memory_map' = memory_map
      \/ memory_map' = [r \in DOMAIN memory_map \cup {next.region} |->
                          IF r = next.region THEN next.chip ELSE memory_map[r]]
  BY DEF MapChip, next
<1>4. QED
  BY <1>2, <1>3 DEF MainTypes

(* Every action of main, and time, keeps them.                             *)
LEMMA MainTypesStep ==
  ASSUME RunnerInv, [NesNext]_nvars PROVE MainTypes'
<1>0. MainTypes /\ SetupInv /\ file \in Files
  BY DEF RunnerInv, NesInv, SetupInv
<1>1. CASE LoadRom
  BY <1>0, <1>1, RomType DEF LoadRom, MainTypes, Unwind, Stage, loop
<1>2. CASE MapChip
  <2>1. /\ stage' \in {"panicked", "reset", "map"}
        /\ UNCHANGED <<loop, file, rom, break_flag>> /\ stage = "map"
    BY <1>2 DEF MapChip, Unwind
  <2>2. QED
    BY <1>0, <1>2, <2>1, MapTypes DEF MainTypes, Stage, loop
<1>3. CASE Reset
  BY <1>0, <1>3 DEF Reset, MainTypes, Unwind, Stage, setup
<1>4. CASE Stop \/ CallExecute \/ CallPanics \/ ReportError \/ Panics \/ Time
  <2>1. /\ UNCHANGED <<setup, break_flag>>
        /\ stage' \in {"loop", "done", "panicked"}
    BY <1>4 DEF Stop, CallExecute, CallPanics, ReportError, Panics, Time, Unwind, InLoop
  <2>2. QED
    BY <1>0, <2>1 DEF MainTypes, Stage, setup
<1>5. CASE \/ Quiet \/ Store \/ CallSubroutine \/ EnterInterrupt
           \/ PullStatus \/ ReturnFromInterrupt
  <2>1. UNCHANGED setup /\ stage' = "loop"
    BY <1>5 DEF Quiet, Store, CallSubroutine, EnterInterrupt, PullStatus,
                ReturnFromInterrupt, Runs, InLoop
  <2>2. break_flag' \in BOOLEAN
    BY <1>0, <1>5 DEF Quiet, Store, CallSubroutine, EnterInterrupt, PullStatus,
                      ReturnFromInterrupt, MainTypes
  <2>3. QED
    BY <1>0, <2>1, <2>2 DEF MainTypes, Stage, setup
<1>6. CASE UNCHANGED nvars
  BY <1>0, <1>6 DEF nvars, MainTypes, setup, loop
<1>7. QED
  BY <1>1, <1>2, <1>3, <1>4, <1>5, <1>6 DEF NesNext, Main

(* And so does the start.                                                  *)
LEMMA RunnerInit == NesInit => RunnerInv /\ Loop!Init
<1> SUFFICES ASSUME NesInit PROVE RunnerInv /\ Loop!Init
  OBVIOUS
<1>1. NesInv /\ TickInv
  BY NesInitInv, InitInv DEF NesInit
<1>2. 0 \in Addr /\ Loop!Addr = Addr /\ 0 \in 0 .. CycleSpace - 1
  BY LoopSizes, Sizes DEF Addr
<1>3. Loop!Init /\ Loop!TypeOK
  BY <1>2 DEF NesInit, Loop!Init, Loop!TypeOK, Loop!Pending, Loop!Phase, Loop!MaxStall
<1>4. /\ stage \in Stage /\ phase = "idle" /\ file \in Cartridges /\ break_flag \in BOOLEAN
      /\ rom \in [start: Nat, len: Nat]
  BY DEF NesInit, Stage, NoRom
<1>5. \A r \in DOMAIN memory_map : r \in Regions /\ memory_map[r] \in Chips
  BY DEF NesInit
<1>6. QED
  BY <1>1, <1>3, <1>4, <1>5 DEF RunnerInv, MainTypes

(* The types of the runner, with the invariants they rest on, and its      *)
(* steps as those of the loop.                                             *)
LEMMA RunnerStep ==
  RunnerInv /\ [NesNext]_nvars => RunnerInv' /\ [Loop!Next]_(Loop!vars)
<1> SUFFICES ASSUME RunnerInv, [NesNext]_nvars
             PROVE  RunnerInv' /\ [Loop!Next]_(Loop!vars)
  OBVIOUS
<1>1. [Loop!Next]_(Loop!vars)
  BY NesLoopStep DEF RunnerInv, NesInv, MainTypes
<1>2. Loop!TypeOK'
  BY <1>1, LoopTypes DEF RunnerInv
<1>3. NesInv' /\ TickInv'
  BY NesStepInv, ClockStep, StepInv DEF RunnerInv
<1>4. QED
  BY <1>1, <1>2, <1>3, MainTypesStep DEF RunnerInv

(* All variables of main, its chips, its clock and its CPU keep their      *)
(* types, whatever the cartridge, the program and the clock do.            *)
THEOREM RunnerTypeCorrect == NesSpec => []NesTypeOK
<1>1. NesSpec => []RunnerInv
  BY RunnerInit, RunnerStep, PTL DEF NesSpec
<1>2. RunnerInv => NesTypeOK
  BY LoopSizes DEF RunnerInv, NesTypeOK, MainTypes, NesInv, MemoryInv, TickInv, Loop!TypeOK
<1>3. QED
  BY <1>1, <1>2, PTL

(* main is an owner of the CPU as ExecuteLoop allows for: what is proved   *)
(* and checked of the loop holds of it in the runner.                      *)
THEOREM RunnerRunsTheLoop == NesSpec => Loop!Spec
<1>1. NesSpec => []RunnerInv
  BY RunnerInit, RunnerStep, PTL DEF NesSpec
<1>2. QED
  BY <1>1, RunnerInit, RunnerStep, PTL DEF NesSpec, Loop!Spec
=============================================================================
