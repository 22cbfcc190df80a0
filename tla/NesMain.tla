------------------------------ MODULE NesMain ------------------------------
(***************************************************************************)
(* The NES runner (src/src/bin/nes.rs): main loads a cartridge, maps the   *)
(* chips, resets the CPU and calls execute until it sees the Break flag.   *)
(* It composes the clock (TickBudget), the chips (Cartridge), the lookup   *)
(* of the bus (Bus) and the loop of execute (ExecuteLoop).  Of the         *)
(* program only its effects are there: any instruction may write a byte,   *)
(* pull the status or panic.  Nobody but the program touches the CPU: the  *)
(* only interrupt is BRK.                                                  *)
(***************************************************************************)
EXTENDS TickBudget, Cartridge

CONSTANTS
  CycleSpace,  (* Number of values of cpu_cycles, 2^32.                    *)
  Ops,         (* Rows of the opcode table, see ExecuteLoop.               *)
  Vectors,     (* Where the BRK vectors of the cartridges point.           *)
  Cartridges,  (* The files there may be.                                  *)
  Data,        (* What a program writes, 0 included.                       *)
  StackStart,  (* The page of the stack: page 1.                           *)
  StackSize,   (* Its size, 256.                                           *)
  ResultA,     (* Where nestest leaves its results: 2 and 3.               *)
  ResultB,
  Ticks,       (* How the clock may move at a time.                        *)
  MaxLag       (* Bound: the time between two calls.                       *)

ASSUME NesAssumption ==
  /\ MaxBudget = CycleSpace - 1
  /\ Cartridges \subseteq Files
  /\ StackStart \in Nat /\ StackSize \in Nat \ {0}
  /\ StackStart + StackSize <= RamEnd + 1
  /\ {ResultA, ResultB} \subseteq 0 .. RamEnd
  /\ 0 \in Data /\ Ticks \subseteq Int /\ MaxLag \in Nat

VARIABLES
  stage,         (* what main does next, see Stage                         *)
  file,          (* the bytes of nestest.nes                               *)
  rom,           (* the Rom made of them                                   *)
  memory_map,    (* region -> chip                                         *)
  order,         (* the regions                                            *)
  ram,           (* the cells of the RAM chip                              *)
  break_flag,    (* status.contains(CpuFlags::Break)                       *)
  results,       (* what main prints                                       *)
  pc, interrupt, phase, cpu_cycles, stall_cycles,  (* see ExecuteLoop      *)
  written        (* history: the last byte written to each RAM address, by *)
                 (* the wires of a NES that has no PPU                     *)

loop == <<pc, interrupt, phase, cpu_cycles, stall_cycles>>
setup == <<file, rom, memory_map, order>>
memory == <<ram, written>>
nvars == <<tvars, loop, setup, memory, stage, break_flag, results>>

Loop == INSTANCE ExecuteLoop WITH AddrSpace <- MaxAddr + 1, Budgets <- 0 .. MaxBudget

(* What ExecuteLoop assumes of them, and that vectors are addresses.       *)
ASSUME LoopAssumption ==
  /\ CycleSpace \in Nat /\ CycleSpace % 2 = 0 /\ CycleSpace > 2 * Loop!MaxCost
  /\ Ops \subseteq [len: 1 .. Loop!MaxLen, cycles: 1 .. Loop!MaxCycles, jumps: BOOLEAN]
  /\ Vectors \subseteq 0 .. MaxAddr

Addr == 0 .. MaxAddr
Chips == {"ram", "rom"}
Regions == {Layout[i].region : i \in DOMAIN Layout}

(* The lookups of the bus.  No two regions overlap, so any order will do.  *)
B == INSTANCE Bus WITH
       Controllers <- Chips, Regions <- Regions, None <- <<>>, mapped <- order,
       cells <- [c \in Chips |-> [a \in Addr |-> ram[Mirror(a)]]]

NoRom == [start |-> 0, len |-> 0]

Stage == {"load", "map", "reset", "loop", "done", "panicked"}

Unwind == stage' = "panicked"

----------------------------------------------------------------------------
(* Main, up to its loop.                                                   *)

LoadRom ==
  /\ stage = "load"
  /\ IF RomNew(file) = "ok" THEN rom' = Rom(file) /\ stage' = "map"
                            ELSE Unwind /\ UNCHANGED rom
  /\ UNCHANGED <<tvars, loop, memory, file, memory_map, order, break_flag, results>>

MapChip ==
  LET next == Layout[Len(order) + 1] IN
  /\ stage = "map"
  /\ IF B!GetRegionKey(next.region) # <<>>
       THEN Unwind /\ UNCHANGED <<memory_map, order>>
       ELSE /\ memory_map' = [r \in DOMAIN memory_map \cup {next.region} |->
                                IF r = next.region THEN next.chip ELSE memory_map[r]]
            /\ order' = Append(order, next.region)
            /\ stage' = IF Len(order) + 1 = Len(Layout) THEN "reset" ELSE "map"
  /\ UNCHANGED <<tvars, loop, memory, file, rom, break_flag, results>>

(* The CPU is made, locked and reset, which reads its vector at the end of *)
(* memory, and is then placed at the start of the second bank.             *)
ResetVector == MaxAddr - 3
StartPc     == PrgStart + BankSize

Reset ==
  /\ stage = "reset"
  /\ IF RomPanics(rom, ResetVector) \/ RomPanics(rom, ResetVector + 1)
       THEN Unwind /\ UNCHANGED pc
       ELSE stage' = "loop" /\ pc' = StartPc
  /\ break_flag' = FALSE
  /\ UNCHANGED <<tvars, interrupt, phase, cpu_cycles, stall_cycles, setup, memory, results>>

----------------------------------------------------------------------------
(* The memory, through the bus.                                            *)

BusRead(a) ==
  LET region == B!GetRegionPlace(a)
  IN IF region = <<>> THEN 0
     ELSE IF memory_map[region] = "ram" THEN ram[Mirror(a)] ELSE RomRead(rom, a)

BusPanics(a) ==
  LET region == B!GetRegionPlace(a)
  IN region # <<>> /\ memory_map[region] = "rom" /\ RomPanics(rom, a)

(* Fault: a write goes by the region and not by the low bits.              *)
RamWriteUnmirrored(a, d) ==
  IF B!GetRegionPlace(a) = <<0, RamEnd>> THEN ram' = [ram EXCEPT ![Mirror(a)] = d]
                                         ELSE UNCHANGED ram

InCell(cells, a, d) == [cells EXCEPT ![Mirror(a)] = d]

RamWrite(a, d) == ram' = InCell(ram, a, d)

(* The history of a write.                                                 *)
SameCell(a, b)  == a % ChipSize = b % ChipSize
Last(log, a, d) == [b \in DOMAIN log |-> IF SameCell(a, b) THEN d ELSE log[b]]

(* A write that no chip refuses.                                           *)
BusWrite(a, d) ==
  LET region == B!GetRegionPlace(a) IN
  IF region = <<>> THEN UNCHANGED memory
  ELSE /\ memory_map[region] = "ram"
       /\ RamWrite(a, d)
       /\ written' = Last(written, a, d)

----------------------------------------------------------------------------
(* The loop of main.                                                       *)

InLoop == stage = "loop"

(* Fault: the flag is looked at only after a call that was granted cycles. *)
SeesBreakInTime == break_flag /\ lag > 0

SeesBreak == break_flag

Stop ==
  /\ InLoop
  /\ phase = "idle"
  /\ SeesBreak
  /\ results' = <<BusRead(ResultA), BusRead(ResultB)>>
  /\ stage' = "done"
  /\ UNCHANGED <<tvars, loop, setup, memory, break_flag>>

CallExecute ==
  /\ InLoop
  /\ phase = "idle"
  /\ ~SeesBreak
  /\ \E b \in 0 .. MaxBudget : Poll(b) /\ Loop!Call(b)
  /\ UNCHANGED <<setup, memory, stage, break_flag, results>>

CallPanics ==
  /\ InLoop
  /\ phase = "idle"
  /\ ~SeesBreak
  /\ PollPanic /\ Loop!ClockPanic /\ Unwind
  /\ UNCHANGED <<setup, memory, break_flag, results>>

(* execute returned Err: main panics with its message.                     *)
ReportError ==
  /\ InLoop
  /\ phase = "failed"
  /\ Unwind
  /\ UNCHANGED <<tvars, loop, setup, memory, break_flag, results>>

(* What one iteration of execute does beside its memory and its status.    *)
(* Extra cycles are for loads and branches only.                           *)
Straight(extra) == \E op \in Ops, e \in extra : Loop!Straight(op, e)
Transfer(extra) == \E op \in Ops, e \in extra, t \in Addr : Loop!Transfer(op, e, t)

Extra == 0 .. Loop!MaxExtra

Runs == InLoop /\ UNCHANGED <<tvars, setup, stage, results>>

Quiet ==
  /\ Runs
  /\ \/ Loop!Stall \/ Loop!Return \/ Loop!Break \/ Loop!Fail
     \/ Straight(Extra) \/ Transfer(Extra)
  /\ UNCHANGED <<memory, break_flag>>

Store ==
  /\ Runs
  /\ Straight({0})
  /\ \E a \in Addr, d \in Data : BusWrite(a, d)
  /\ UNCHANGED break_flag

(* JSR pushes two bytes on the stack, the start of an interrupt three.     *)
StackAt(n) == StackStart + (n % StackSize)

PushTwo ==
  \E n \in 0 .. StackSize - 1, d \in [1 .. 2 -> Data] :
    LET first  == StackAt(n)
        second == StackAt(n + 1)
    IN  /\ ram' = InCell(InCell(ram, first, d[1]), second, d[2])
        /\ written' = Last(Last(written, first, d[1]), second, d[2])

PushThree ==
  \E n \in 0 .. StackSize - 1, d \in [1 .. 3 -> Data] :
    LET first  == StackAt(n)
        second == StackAt(n + 1)
        third  == StackAt(n + 2)
    IN  /\ ram' = InCell(InCell(InCell(ram, first, d[1]), second, d[2]), third, d[3])
        /\ written' = Last(Last(Last(written, first, d[1]), second, d[2]), third, d[3])

CallSubroutine ==
  /\ Runs
  /\ PushTwo
  /\ Transfer({0})
  /\ UNCHANGED break_flag

EnterInterrupt ==
  /\ Runs
  /\ \E v \in Vectors : Loop!HandleInterrupt(v)
  /\ PushThree
  /\ UNCHANGED break_flag

(* PLP takes the flag from the stack; RTI clears it.                       *)
PullStatus ==
  /\ Runs
  /\ Straight({0})
  /\ break_flag' \in BOOLEAN
  /\ UNCHANGED memory

ReturnFromInterrupt ==
  /\ Runs
  /\ Transfer({0})
  /\ break_flag' = FALSE
  /\ UNCHANGED memory

(* A write to the ROM, or a sum that overflows.                            *)
Panics ==
  /\ InLoop
  /\ Loop!Panic
  /\ Unwind
  /\ UNCHANGED <<tvars, setup, memory, break_flag, results>>

Time ==
  /\ InLoop
  /\ \E t \in Ticks : lag + t \in -1 .. MaxLag /\ Tick(t)
  /\ UNCHANGED <<loop, setup, memory, stage, break_flag, results>>

Main ==
  \/ LoadRom \/ MapChip \/ Reset
  \/ Stop \/ CallExecute \/ CallPanics \/ ReportError
  \/ Quiet \/ Store \/ CallSubroutine \/ EnterInterrupt
  \/ PullStatus \/ ReturnFromInterrupt \/ Panics

NesNext == Main \/ Time

NesInit ==
  /\ Init
  /\ stage = "load"
  /\ file \in Cartridges
  /\ rom = NoRom
  /\ memory_map = << >> /\ order = << >>
  /\ ram = [i \in 0 .. ChipSize - 1 |-> 0]
  /\ written = [a \in 0 .. PpuEnd |-> 0]
  /\ break_flag = FALSE
  /\ results = << >>
  /\ pc = 0 /\ interrupt = "none" /\ phase = "idle"
  /\ cpu_cycles = 0 /\ stall_cycles = 0

NesSpec == NesInit /\ [][NesNext]_nvars

(* Main is one thread that is never made to wait.                          *)
NesFairSpec == NesSpec /\ WF_nvars(Main)

----------------------------------------------------------------------------
NesTypeOK ==
  /\ TypeOK
  /\ stage \in Stage
  /\ file \in Cartridges
  /\ rom \in [start: Nat, len: Nat]
  /\ \A r \in DOMAIN memory_map : r \in Regions /\ memory_map[r] \in Chips
  /\ ram \in [0 .. ChipSize - 1 -> Data]
  /\ written \in [0 .. PpuEnd -> Data]
  /\ break_flag \in BOOLEAN
  /\ pc \in Addr /\ interrupt \in Loop!Pending /\ phase \in Loop!Phase
  /\ cpu_cycles \in 0 .. CycleSpace - 1
  /\ stall_cycles \in 0 .. Loop!MaxStall

(* Once the loop of main runs no read of the bus panics, and the addresses *)
(* of the banks answer with the PRG section of the file, in its order: two *)
(* banks, or the one there is, twice.  What else the file holds, a trainer *)
(* or the CHR section, is never read as code.                              *)
PrgAnswers ==
  InLoop =>
    /\ file.prg > 0
    /\ \A a \in Addr : ~BusPanics(a)
    /\ \A a \in PrgStart .. MaxAddr :
         LET section == 16 + (IF file.trainer THEN TrainerSize ELSE 0)
             banks   == IF file.prg = 1 THEN 1 ELSE 2
         IN BusRead(a) = section + ((a - PrgStart) % (banks * BankSize))

(* An address of the RAM, or of the registers of the PPU that main puts    *)
(* the same chip behind, reads as what was last written to it or to one of *)
(* its mirrors; and what main prints is that, of its two result addresses. *)
MirrorsAgree ==
  /\ InLoop => \A a \in 0 .. PpuEnd : BusRead(a) = written[a]
  /\ stage = "done" => results = <<written[ResultA], written[ResultB]>>

(* A program that sets the Break flag, and does not clear it again, is     *)
(* stopped: main looks at the flag between two calls, and a call ends.     *)
BreakStops == break_flag ~> (~break_flag \/ stage \in {"done", "panicked"})
=============================================================================
