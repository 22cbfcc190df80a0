------------------------------ MODULE Machine ------------------------------
(***************************************************************************)
(* The registers and the memory, and what the handlers of the instructions *)
(* (src/src/lib.rs) do to them: each handler is an operator from a machine *)
(* to the machine it leaves.  The handlers of the code take `&mut self`    *)
(* and run to their end, so only the result of one can be seen.            *)
(*                                                                         *)
(* A machine is a record: a, x, y, sp and pc are the registers, p is the   *)
(* status as the set of its flags, mem the mapped cells and fault says     *)
(* that a controller panicked.                                             *)
(***************************************************************************)
EXTENDS Bytes

CONSTANTS
  RAM,  (* Addresses behind a controller that stores what is written.      *)
  ROM   (* Addresses behind one that panics on a write, as main's Rom does. *)

ASSUME MemoryAssumption == RAM \subseteq Word /\ ROM \subseteq Word /\ RAM \cap ROM = {}

(* CpuFlags, by the number of the bit.                                     *)
Carry     == 0
Zero      == 1
Interrupt == 2
Decimal   == 3
Break     == 4
UNK       == 5
Overflow  == 6
Negative  == 7

DefaultStatus == {UNK, Interrupt}

Machine ==
  [a: Byte, x: Byte, y: Byte, p: SUBSET Bit, sp: Byte, pc: Word,
   mem: [RAM \cup ROM -> Byte], fault: BOOLEAN]

----------------------------------------------------------------------------
(* Memory.  The bus answers 0 for an address nothing is mapped at and      *)
(* drops a write to it.                                                    *)

Read(m, addr) == IF addr \in DOMAIN m.mem THEN m.mem[addr] ELSE 0

Write(m, addr, data) ==
  IF m.fault \/ addr \notin RAM \cup ROM THEN m
  ELSE IF addr \in ROM THEN [m EXCEPT !.fault = TRUE]
  ELSE [m EXCEPT !.mem[addr] = data]

ReadWord(m, addr) == Join(Read(m, addr), Read(m, Wrap16(addr + 1)))

(* The second byte from the same page: mem_read_u16_wrap.                  *)
ReadWordInPage(m, addr) == Join(Read(m, addr), Read(m, Join(Wrap8(Lo(addr) + 1), Hi(addr))))

(* The stack grows upwards in page 1, and wraps in it.                     *)
StackAddr(m) == 256 + m.sp

(* Fault: the stack pointer does not wrap.                                 *)
PushUnwrapped(m, data) == [Write(m, StackAddr(m), data) EXCEPT !.sp = @ + 1]

Push(m, data)     == [Write(m, StackAddr(m), data) EXCEPT !.sp = Wrap8(@ + 1)]

(* Fault: the low byte first.                                              *)
PushWordLowFirst(m, data) == Push(Push(m, Lo(data)), Hi(data))
PushWord(m, data) == Push(Push(m, Hi(data)), Lo(data))

Popped(m)         == [m EXCEPT !.sp = Wrap8(@ - 1)]

(* Fault: a pull reads where the next push will write.                     *)
TopUnadjusted(m) == Read(m, StackAddr(m))

Top(m)     == Read(m, StackAddr(Popped(m)))
TopWord(m) == Join(Top(m), Top(Popped(m)))

----------------------------------------------------------------------------
(* Flags.                                                                  *)

Flag(m, flag, on) == [m EXCEPT !.p = IF on THEN @ \cup {flag} ELSE @ \ {flag}]

CarryIn(m) == IF Carry \in m.p THEN 1 ELSE 0

(* Fault: the flags are set and never cleared.                             *)
InsertZeroNegative(m, value) ==
  [m EXCEPT !.p = @ \cup (IF value = 0 THEN {Zero} ELSE {})
                      \cup (IF Bit7(value) THEN {Negative} ELSE {})]

UpdateZeroNegative(m, value) == Flag(Flag(m, Zero, value = 0), Negative, Bit7(value))

----------------------------------------------------------------------------
(* Addressing, with the program counter at the operand.                    *)

AddressingMode ==
  {"NoneAddressing", "Immediate", "ZeroPage", "ZeroPageX", "ZeroPageY",
   "Absolute", "AbsoluteX", "AbsoluteY", "IndirectX", "IndirectY"}

IndirectBase(m) ==
  LET base == Read(m, m.pc) IN Join(Read(m, base), Read(m, Wrap8(base + 1)))

Address(m, mode) ==
  CASE mode = "NoneAddressing" -> 0
    [] mode = "Immediate" -> m.pc
    [] mode = "ZeroPage"  -> Read(m, m.pc)
    [] mode = "ZeroPageX" -> Wrap8(Read(m, m.pc) + m.x)
    [] mode = "ZeroPageY" -> Wrap8(Read(m, m.pc) + m.y)
    [] mode = "Absolute"  -> ReadWord(m, m.pc)
    [] mode = "AbsoluteX" -> Wrap16(ReadWord(m, m.pc) + m.x)
    [] mode = "AbsoluteY" -> Wrap16(ReadWord(m, m.pc) + m.y)
    [] mode = "IndirectX" -> ReadWordInPage(m, Wrap8(Read(m, m.pc) + m.x))
    [] mode = "IndirectY" -> Wrap16(IndirectBase(m) + m.y)

PageCrossed(m, mode) ==
  CASE mode \in {"AbsoluteX", "AbsoluteY"} -> Hi(ReadWord(m, m.pc)) # Hi(Address(m, mode))
    [] mode = "IndirectY" -> Hi(IndirectBase(m)) # Hi(Address(m, mode))
    [] OTHER -> FALSE

Operand(m, mode) == Read(m, Address(m, mode))

----------------------------------------------------------------------------
(* Loads, logic and arithmetic.                                            *)

LoadA(m, v) == UpdateZeroNegative([m EXCEPT !.a = v], v)
LoadX(m, v) == UpdateZeroNegative([m EXCEPT !.x = v], v)
LoadY(m, v) == UpdateZeroNegative([m EXCEPT !.y = v], v)

(* EOR and ORA do what AND does.                                           *)
AndA(m, v) == LoadA(m, And(m.a, v))
EorA(m, v) == LoadA(m, And(m.a, v))
OraA(m, v) == LoadA(m, And(m.a, v))

(* The carry of a sum is bit 7 of the result.                              *)
SetSum(m, v, sum) ==
  LET signs == Flag(m, Overflow, Bit7(v) # Bit7(sum) /\ Bit7(sum) # Bit7(m.a))
  IN LoadA(Flag(signs, Carry, Bit7(sum)), sum)

(* Fault: the carry is left out.                                           *)
AddWithoutCarry(m, v)    == SetSum(m, v, Wrap8(m.a + v))
AddToAccumulator(m, v)   == SetSum(m, v, Wrap8(m.a + v + CarryIn(m)))
SubFromAccumulator(m, v) == SetSum(m, v, Wrap8(m.a - v - (1 - CarryIn(m))))

(* Fault: equal operands clear the carry.                                  *)
CompareStrictly(m, target, data) ==
  LET order == Flag(Flag(m, Carry, target > data), Zero, target = data)
  IN Flag(order, Negative, target # data /\ Bit7(Wrap8(target - data)))

Compare(m, target, data) ==
  LET order == Flag(Flag(m, Carry, target >= data), Zero, target = data)
  IN Flag(order, Negative, target # data /\ Bit7(Wrap8(target - data)))

BitTest(m, mask) ==
  Flag(Flag(Flag(m, Zero, And(m.a, mask) = 0), Negative, Bit7(mask)),
       Overflow, 6 \in Bits(mask))

----------------------------------------------------------------------------
(* Shifts and rotations.  Effective address 0 stands for the accumulator.  *)

Source(m, mode) == IF Address(m, mode) # 0 THEN Operand(m, mode) ELSE m.a

(* Fault: a byte in memory is shifted at address 0 too.                    *)
ShiftInMemory(m, mode, data, carry) ==
  UpdateZeroNegative(Flag(Write(m, Address(m, mode), data), Carry, carry), data)

Shift(m, mode, data, carry) ==
  LET addr  == Address(m, mode)
      moved == IF addr = 0 THEN [m EXCEPT !.a = data] ELSE Write(m, addr, data)
  IN UpdateZeroNegative(Flag(moved, Carry, carry), data)

AslData(m, mode) == Wrap8(2 * Source(m, mode))
LsrData(m, mode) == Source(m, mode) \div 2
RolData(m, mode) == Wrap8(2 * Source(m, mode)) + CarryIn(m)
(* Fault: the carry does not enter at the top.                             *)
RorWithoutCarry(m, mode) == Source(m, mode) \div 2
RorData(m, mode) == Source(m, mode) \div 2 + 128 * CarryIn(m)

(* `data & 0b10000000 == 1` never holds: ROL always clears the carry.      *)
Asl(m, mode) == Shift(m, mode, AslData(m, mode), Bit7(Source(m, mode)))
Lsr(m, mode) == Shift(m, mode, LsrData(m, mode), Bit0(Source(m, mode)))
Rol(m, mode) == Shift(m, mode, RolData(m, mode), FALSE)
Ror(m, mode) == Shift(m, mode, RorData(m, mode), Bit0(Source(m, mode)))

Store(m, mode, data) == Write(m, Address(m, mode), data)

StoreAndTest(m, mode, data) == UpdateZeroNegative(Store(m, mode, data), data)

Inc(m, mode) == StoreAndTest(m, mode, Wrap8(Operand(m, mode) + 1))
Dec(m, mode) == StoreAndTest(m, mode, Wrap8(Operand(m, mode) - 1))

----------------------------------------------------------------------------
(* Jumps, calls and returns, with the program counter past the opcode.     *)

Jump(m, target) == [m EXCEPT !.pc = target]

(* A pointer at the end of a page takes its second byte from the start of  *)
(* that page.                                                              *)
Pointee(m) == ReadWordInPage(m, ReadWord(m, m.pc))

JumpIndirect(m) ==
  LET pointer == ReadWord(m, m.pc)
  IN Jump(m, IF Lo(pointer) = 255 THEN Pointee(m) ELSE ReadWord(m, pointer))

CallSubroutine(m) ==
  LET pushed == PushWord(m, Wrap16(m.pc + 1))
  IN Jump(pushed, ReadWord(pushed, m.pc))

(* Fault: the last byte of JSR, which was pushed, is where it goes on.     *)
ReturnToPushed(m) == Jump(Popped(Popped(m)), TopWord(m))

ReturnFromSubroutine(m) == Jump(Popped(Popped(m)), Wrap16(TopWord(m) + 1))

PullStatus(m) == [Popped(m) EXCEPT !.p = Bits(Top(m))]

(* Fault: the status is taken as it was pushed.                            *)
ReturnWithBreak(m) ==
  LET pulled == PullStatus(m) IN Jump(Popped(Popped(pulled)), TopWord(pulled))

ReturnFromInterrupt(m) ==
  LET pulled == PullStatus(m)
      status == [pulled EXCEPT !.p = (@ \ {Break}) \cup {UNK}]
  IN Jump(Popped(Popped(status)), TopWord(status))

AfterOperand(m) == Wrap16(m.pc + 1)
(* Fault: the offset is taken unsigned.                                    *)
BranchForward(m) == Wrap16(AfterOperand(m) + Read(m, m.pc))
BranchTarget(m) == Wrap16(AfterOperand(m) + Signed(Read(m, m.pc)))

Branch(m, taken) == IF taken THEN Jump(m, BranchTarget(m)) ELSE m

BranchCycles(m, taken) ==
  IF ~taken THEN 0 ELSE IF Hi(AfterOperand(m)) # Hi(BranchTarget(m)) THEN 2 ELSE 1

----------------------------------------------------------------------------
(* Unofficial instructions.                                                *)

Dcp(m, mode) ==
  LET data    == Wrap8(Operand(m, mode) - 1)
      stored  == Store(m, mode, data)
      carried == IF data <= m.a THEN Flag(stored, Carry, TRUE) ELSE stored
  IN UpdateZeroNegative(carried, Wrap8(m.a - data))

Rla(m, mode) == LET r == Rol(m, mode) IN LoadA(r, And(RolData(m, mode), r.a))
Slo(m, mode) == LET r == Asl(m, mode) IN LoadA(r, Or(AslData(m, mode), r.a))
Sre(m, mode) == LET r == Lsr(m, mode) IN EorA(r, Operand(r, mode))
Rra(m, mode) == AddToAccumulator(Ror(m, mode), RorData(m, mode))
Isc(m, mode) == LET r == Inc(m, mode) IN SubFromAccumulator(r, Operand(r, mode))
Arr(m, mode) == Ror(AndA(m, Operand(m, mode)), mode)
Alr(m, mode) == Lsr(AndA(m, Operand(m, mode)), mode)

Anc(m, mode) ==
  LET anded == AndA(m, Operand(m, mode)) IN Flag(anded, Carry, Negative \in anded.p)

Axs(m, mode) ==
  LET both    == And(m.x, m.a)
      data    == Operand(m, mode)
      carried == IF data <= both THEN Flag(m, Carry, TRUE) ELSE m
  IN LoadX(carried, Wrap8(both - data))

(* The loaded byte only sets the flags; A is then overwritten with X.      *)
Lax(m, mode) == [LoadA(m, Operand(m, mode)) EXCEPT !.a = m.x]
Lxa(m, mode) == LET r == LoadA(m, Operand(m, mode)) IN LoadX(r, r.a)
Xaa(m, mode) == LoadA(m, And(m.x, Operand(m, mode)))

Las(m, mode) ==
  LET data == And(Operand(m, mode), m.sp)
  IN UpdateZeroNegative([m EXCEPT !.a = data, !.x = data, !.sp = data], data)

(* *TAS, *AHX and *SHX address memory on their own, and $93 takes its      *)
(* pointer without staying in the zero page.                               *)
UnstableBase(m, mode) ==
  IF mode = "IndirectY" THEN ReadWord(m, Read(m, m.pc)) ELSE ReadWord(m, m.pc)

UnstableAddr(m, mode) == Wrap16(UnstableBase(m, mode) + m.y)

Tas(m, mode) ==
  LET addr == UnstableAddr(m, mode)
      s    == And(m.a, m.x)
  IN Write([m EXCEPT !.sp = s], addr, And(Wrap8(Hi(addr) + 1), s))

Ahx(m, mode) ==
  LET addr == UnstableAddr(m, mode) IN Write(m, addr, And(And(m.a, m.x), Hi(addr)))

Shx(m, mode) ==
  LET addr == UnstableAddr(m, mode) IN Write(m, addr, And(m.x, Wrap8(Hi(addr) + 1)))

----------------------------------------------------------------------------
(* Interrupts and reset.  `handler` is what the closure of the host stores *)
(* while the CPU is locked: a function from addresses to bytes, empty for  *)
(* None.                                                                   *)

Handle(m, handler) ==
  IF m.fault THEN m
  ELSE [m EXCEPT !.mem = [addr \in DOMAIN @ |->
                            IF addr \in DOMAIN handler THEN handler[addr] ELSE @[addr]]]

Enter(m, status, handler, vector) ==
  LET handled == Handle(Push(PushWord(m, m.pc), FromBits(status)), handler)
  IN [handled EXCEPT !.pc = ReadWord(handled, vector), !.p = @ \cup {Interrupt}]

ResetMachine(m) ==
  [m EXCEPT !.sp = 253, !.p = DefaultStatus, !.x = 0, !.y = 0, !.a = 0,
            !.pc = ReadWord(m, 65532)]
=============================================================================
