--------------------------- MODULE MachineProofs ---------------------------
(***************************************************************************)
(* What every handler leaves is a machine: registers of their width, a     *)
(* status of flags and bytes in memory, for any memory and any operand;    *)
(* and all but the jumps leave the program counter alone.                  *)
(***************************************************************************)
EXTENDS Machine, TLAPS

----------------------------------------------------------------------------
(* Bytes and words.  The interval of a word is never written out for the   *)
(* provers, which would enumerate it.                                      *)

(* The largest byte and word, for the few proofs that need their values.   *)
LEMMA Widths == MaxByte = 255 /\ MaxWord = 65535 /\ MaxByte \in Nat /\ MaxWord \in Nat
BY DEF MaxByte, MaxWord

(* A byte is an integer between two bounds.                                *)
LEMMA ByteIs == ASSUME NEW b PROVE b \in Byte <=> b \in Int /\ 0 <= b /\ b <= MaxByte
<1>1. MaxByte \in Nat
  BY Widths
<1>2. QED
  BY <1>1 DEF Byte

(* And so is a word.                                                       *)
LEMMA WordIs == ASSUME NEW w PROVE w \in Word <=> w \in Int /\ 0 <= w /\ w <= MaxWord
<1>1. MaxWord \in Nat
  BY Widths
<1>2. QED
  BY <1>1 DEF Word

(* Wrapping gives the type, and leaves what has it as it is.               *)
LEMMA WrapType ==
  ASSUME NEW n \in Int
  PROVE  /\ Wrap8(n) \in Byte /\ Wrap16(n) \in Word
         /\ n \in Byte => Wrap8(n) = n
         /\ n \in Word => Wrap16(n) = n
<1>1. ASSUME NEW k \in Nat
      PROVE  /\ n % (k + 1) \in Int /\ 0 <= n % (k + 1) /\ n % (k + 1) <= k
             /\ 0 <= n /\ n <= k => n % (k + 1) = n
  OBVIOUS
<1>2. MaxByte \in Nat /\ MaxWord \in Nat
  BY Widths
<1>3. QED
  BY <1>1, <1>2, ByteIs, WordIs DEF Wrap8, Wrap16

(* The halves of a word are bytes (to_le_bytes).                           *)
LEMMA HalvesType == ASSUME NEW w \in Word PROVE Lo(w) \in Byte /\ Hi(w) \in Byte
<1>1. w \in Int /\ 0 <= w /\ w <= 65535
  BY WordIs, Widths
<1>2. /\ w \div 256 \in Int /\ 0 <= w \div 256 /\ w \div 256 <= 255
      /\ w % 256 \in Int /\ 0 <= w % 256 /\ w % 256 <= 255
  BY <1>1
<1>3. QED
  BY <1>2, ByteIs, Widths DEF Lo, Hi

(* Two bytes are a word (from_le_bytes).                                   *)
LEMMA JoinType == ASSUME NEW lo \in Byte, NEW hi \in Byte PROVE Join(lo, hi) \in Word
<1>1. /\ lo \in Int /\ 0 <= lo /\ lo <= 255
      /\ hi \in Int /\ 0 <= hi /\ hi <= 255
  BY ByteIs, Widths
<1>2. hi * 256 + lo \in Int /\ 0 <= hi * 256 + lo /\ hi * 256 + lo <= 65535
  BY <1>1
<1>3. QED
  BY <1>2, WordIs, Widths DEF Join

(* The weights of the bits add up to 255 at most.                          *)
LEMMA FromBitsType == ASSUME NEW S PROVE FromBits(S) \in Byte
<1> DEFINE W(i, w) == IF i \in S THEN w ELSE 0
           sum == W(0, 1) + W(1, 2) + W(2, 4) + W(3, 8)
                    + W(4, 16) + W(5, 32) + W(6, 64) + W(7, 128)
<1>1. sum \in Int /\ 0 <= sum /\ sum <= 255
  OBVIOUS
<1>2. FromBits(S) = sum
  BY DEF FromBits
<1> HIDE DEF sum
<1>3. QED
  BY <1>1, <1>2, ByteIs, Widths

(* What AND and OR leave is a byte.                                        *)
LEMMA LogicType ==
  ASSUME NEW a, NEW b PROVE And(a, b) \in Byte /\ Or(a, b) \in Byte
BY FromBitsType DEF And, Or

(* The set bits of a byte are bits: any byte is a status.                  *)
LEMMA BitsType == ASSUME NEW b PROVE Bits(b) \in SUBSET Bit
<1>1. \A i \in Bits(b) : i \in Bit
  BY Zenon DEF Bits
<1>2. QED
  BY <1>1

(* What a shift makes of a byte is a byte.                                 *)
LEMMA ShiftedType ==
  ASSUME NEW s \in Byte, NEW c \in {0, 1}
  PROVE  /\ Wrap8(2 * s) \in Byte /\ Wrap8(2 * s) + c \in Byte
         /\ s \div 2 \in Byte /\ (s \div 2) + 128 * c \in Byte
<1>1. s \in Int /\ 0 <= s /\ s <= 255
  BY ByteIs, Widths
<1>2. (2 * s) % 256 \in Int /\ 0 <= (2 * s) % 256 /\ (2 * s) % 256 <= 254
  BY <1>1
<1>3. s \div 2 \in Int /\ 0 <= s \div 2 /\ s \div 2 <= 127
  BY <1>1
<1>4. Wrap8(2 * s) = (2 * s) % 256
  BY Widths DEF Wrap8
<1>5. /\ Wrap8(2 * s) + c \in Int /\ 0 <= Wrap8(2 * s) + c /\ Wrap8(2 * s) + c <= 255
      /\ (s \div 2) + 128 * c \in Int /\ 0 <= (s \div 2) + 128 * c
      /\ (s \div 2) + 128 * c <= 255
  BY <1>2, <1>3, <1>4
<1>6. QED
  BY <1>2, <1>3, <1>4, <1>5, ByteIs, Widths

----------------------------------------------------------------------------
(* Memory and stack.                                                       *)

(* The bus answers with a byte, mapped or not.                             *)
LEMMA ReadType == ASSUME NEW m \in Machine, NEW addr PROVE Read(m, addr) \in Byte
<1>1. 0 \in Byte
  BY ByteIs, Widths
<1>2. QED
  BY <1>1 DEF Read, Machine

(* A write changes cells and the fault, and nothing of the registers.      *)
LEMMA WriteType ==
  ASSUME NEW m \in Machine, NEW addr, NEW data \in Byte
  PROVE  Write(m, addr, data) \in Machine /\ Write(m, addr, data).pc = m.pc
BY DEF Write, Machine

(* Both reads of 16 bits give a word.                                      *)
LEMMA ReadWordType ==
  ASSUME NEW m \in Machine, NEW addr
  PROVE  ReadWord(m, addr) \in Word /\ ReadWordInPage(m, addr) \in Word
BY ReadType, JoinType DEF ReadWord, ReadWordInPage

(* A push keeps the counter.                                               *)
LEMMA PushType ==
  ASSUME NEW m \in Machine, NEW data \in Byte
  PROVE  Push(m, data) \in Machine /\ Push(m, data).pc = m.pc
<1> DEFINE w == Write(m, StackAddr(m), data)
<1>1. w \in Machine /\ w.pc = m.pc
  BY WriteType
<1> HIDE DEF w
<1>2. w.sp \in Byte
  BY <1>1 DEF Machine
<1>3. Wrap8(w.sp + 1) \in Byte
  BY <1>2, WrapType, ByteIs
<1>4. Push(m, data) = [w EXCEPT !.sp = Wrap8(w.sp + 1)]
  BY DEF Push, w
<1>5. QED
  BY <1>1, <1>3, <1>4 DEF Machine

(* Two pushes do.                                                          *)
LEMMA PushWordType ==
  ASSUME NEW m \in Machine, NEW data \in Word
  PROVE  PushWord(m, data) \in Machine /\ PushWord(m, data).pc = m.pc
BY PushType, HalvesType DEF PushWord

(* A pull keeps the counter, and what it takes has its width.              *)
LEMMA PullType ==
  ASSUME NEW m \in Machine
  PROVE  /\ Popped(m) \in Machine /\ Popped(m).pc = m.pc
         /\ Top(m) \in Byte /\ TopWord(m) \in Word
<1>1. ASSUME NEW r \in Machine PROVE Popped(r) \in Machine /\ Popped(r).pc = r.pc
  <2>0. r.sp \in Byte
    BY DEF Machine
  <2>1. Wrap8(r.sp - 1) \in Byte
    BY <2>0, WrapType, ByteIs
  <2>2. QED
    BY <2>1 DEF Popped, Machine
<1>2. ASSUME NEW r \in Machine PROVE Top(r) \in Byte
  BY <1>1, ReadType DEF Top
<1>3. QED
  BY <1>1, <1>2, JoinType DEF TopWord

----------------------------------------------------------------------------
(* Flags, addresses and operands.                                          *)

(* Setting or clearing one flag leaves a status.                           *)
LEMMA FlagType ==
  ASSUME NEW m \in Machine, NEW flag \in Bit, NEW on
  PROVE  /\ Flag(m, flag, on) \in Machine /\ Flag(m, flag, on).pc = m.pc
         /\ Flag(m, flag, on).a = m.a /\ Flag(m, flag, on).p \subseteq m.p \cup {flag}
<1>1. (IF on THEN m.p \cup {flag} ELSE m.p \ {flag}) \in SUBSET Bit
  BY DEF Machine
<1>2. QED
  BY <1>1 DEF Flag, Machine

(* The flags are the bits of a byte.                                       *)
LEMMA FlagNumbers == {Carry, Zero, Interrupt, Decimal, Break, UNK, Overflow, Negative} \subseteq Bit
BY DEF Carry, Zero, Interrupt, Decimal, Break, UNK, Overflow, Negative, Bit

(* The update of Zero and Negative keeps the counter.                      *)
LEMMA ZeroNegativeType ==
  ASSUME NEW m \in Machine, NEW value
  PROVE  /\ UpdateZeroNegative(m, value) \in Machine
         /\ UpdateZeroNegative(m, value).pc = m.pc
BY FlagType, FlagNumbers DEF UpdateZeroNegative

(* What the carry adds.                                                    *)
LEMMA CarryInType == ASSUME NEW m \in Machine PROVE CarryIn(m) \in {0, 1}
BY DEF CarryIn

(* The modes the addressing is defined for.                                *)
LEMMA AddressType ==
  ASSUME NEW m \in Machine, NEW mode \in AddressingMode
  PROVE  Address(m, mode) \in Word
<1>1. /\ m.pc \in Word /\ m.x \in Byte /\ m.y \in Byte
      /\ Read(m, m.pc) \in Byte /\ ReadWord(m, m.pc) \in Word
  BY ReadType, ReadWordType DEF Machine
<1>2. IndirectBase(m) \in Word
  BY ReadType, JoinType DEF IndirectBase
<1>3. 0 \in Word /\ \A b \in Byte : b \in Word /\ b \in Int
  BY ByteIs, WordIs, Widths
<1>4. ASSUME NEW b \in Byte, NEW c \in Byte PROVE Wrap8(b + c) \in Byte
  <2>1. b + c \in Int
    BY ByteIs
  <2>2. QED
    BY <2>1, WrapType
<1>5. ASSUME NEW w \in Word, NEW c \in Byte PROVE Wrap16(w + c) \in Word
  <2>1. w + c \in Int
    BY ByteIs, WordIs
  <2>2. QED
    BY <2>1, WrapType
<1>6. \A addr : ReadWordInPage(m, addr) \in Word
  BY ReadWordType
<1>7. QED
  BY <1>1, <1>2, <1>3, <1>4, <1>5, <1>6 DEF Address, AddressingMode

(* The byte an instruction takes is a byte, in every mode.                 *)
LEMMA OperandType ==
  ASSUME NEW m \in Machine, NEW mode
  PROVE  Operand(m, mode) \in Byte /\ Source(m, mode) \in Byte
BY ReadType DEF Operand, Source, Machine

----------------------------------------------------------------------------
(* The handlers.                                                           *)

(* A machine with its program counter where that of m is.                  *)
Follows(m, r) == r \in Machine /\ r.pc = m.pc

(* A handler after a handler leaves the counter alone if both do.          *)
LEMMA FollowsOn ==
  ASSUME NEW m, NEW r, NEW s, Follows(m, r), Follows(r, s) PROVE Follows(m, s)
BY DEF Follows

(* A byte can be stored in each of the four byte registers.                *)
LEMMA RegisterType ==
  ASSUME NEW m \in Machine, NEW v \in Byte
  PROVE  /\ Follows(m, m)
         /\ Follows(m, [m EXCEPT !.a = v]) /\ Follows(m, [m EXCEPT !.x = v])
         /\ Follows(m, [m EXCEPT !.y = v]) /\ Follows(m, [m EXCEPT !.sp = v])
BY DEF Follows, Machine

(* The update of Zero and Negative after a handler.                        *)
LEMMA UpdateType ==
  ASSUME NEW m, NEW r, Follows(m, r), NEW value
  PROVE  Follows(m, UpdateZeroNegative(r, value))
BY ZeroNegativeType DEF Follows

(* A flag set after a handler.                                             *)
LEMMA SetFlagType ==
  ASSUME NEW m, NEW r, Follows(m, r), NEW flag \in Bit, NEW on
  PROVE  Follows(m, Flag(r, flag, on))
BY FlagType DEF Follows

(* LDA, LDX, LDY and the transfers.                                        *)
LEMMA LoadType ==
  ASSUME NEW m, NEW r, Follows(m, r), NEW v \in Byte
  PROVE  Follows(m, LoadA(r, v)) /\ Follows(m, LoadX(r, v)) /\ Follows(m, LoadY(r, v))
<1>1. r \in Machine
  BY DEF Follows
<1>2. /\ Follows(m, [r EXCEPT !.a = v]) /\ Follows(m, [r EXCEPT !.x = v])
      /\ Follows(m, [r EXCEPT !.y = v])
  BY <1>1, RegisterType, FollowsOn
<1>3. QED
  BY <1>2, UpdateType DEF LoadA, LoadX, LoadY

(* AND, EOR and ORA.                                                       *)
LEMMA AndAType ==
  ASSUME NEW m \in Machine, NEW v
  PROVE  Follows(m, AndA(m, v)) /\ Follows(m, EorA(m, v)) /\ Follows(m, OraA(m, v))
<1>1. Follows(m, m)
  BY DEF Follows
<1>2. QED
  BY <1>1, LoadType, LogicType DEF AndA, EorA, OraA

(* ADC and SBC: the sum wraps in a byte.                                   *)
LEMMA SumType ==
  ASSUME NEW m, NEW r, Follows(m, r), NEW v \in Byte
  PROVE  Follows(m, AddToAccumulator(r, v)) /\ Follows(m, SubFromAccumulator(r, v))
<1>1. ASSUME NEW sum \in Byte PROVE Follows(m, SetSum(r, v, sum))
  BY <1>1, SetFlagType, LoadType, FlagNumbers DEF SetSum
<1>2. r.a \in Byte /\ CarryIn(r) \in {0, 1}
  BY CarryInType DEF Follows, Machine
<1>3. r.a + v + CarryIn(r) \in Int /\ r.a - v - (1 - CarryIn(r)) \in Int
  BY <1>2, ByteIs
<1>4. QED
  BY <1>1, <1>3, WrapType DEF AddToAccumulator, SubFromAccumulator

(* CMP, CPX and CPY.                                                       *)
LEMMA CompareType ==
  ASSUME NEW m \in Machine, NEW target, NEW data PROVE Follows(m, Compare(m, target, data))
<1>1. Follows(m, m)
  BY DEF Follows
<1>2. QED
  BY <1>1, SetFlagType, FlagNumbers DEF Compare

(* BIT.                                                                    *)
LEMMA BitTestType == ASSUME NEW m \in Machine, NEW mask PROVE Follows(m, BitTest(m, mask))
<1>1. Follows(m, m)
  BY DEF Follows
<1>2. QED
  BY <1>1, SetFlagType, FlagNumbers DEF BitTest

(* The stores, of a byte to any address.                                   *)
LEMMA StoreType ==
  ASSUME NEW m, NEW r, Follows(m, r), NEW addr, NEW data \in Byte
  PROVE  Follows(m, Write(r, addr, data))
BY WriteType DEF Follows

(* The four shifts, and the byte each of them moves.                       *)
LEMMA ShiftType ==
  ASSUME NEW m, NEW r, Follows(m, r), NEW mode
  PROVE  /\ Follows(m, Asl(r, mode)) /\ AslData(r, mode) \in Byte
         /\ Follows(m, Lsr(r, mode)) /\ LsrData(r, mode) \in Byte
         /\ Follows(m, Rol(r, mode)) /\ RolData(r, mode) \in Byte
         /\ Follows(m, Ror(r, mode)) /\ RorData(r, mode) \in Byte
<1>1. r \in Machine /\ Source(r, mode) \in Byte /\ CarryIn(r) \in {0, 1}
  BY OperandType, CarryInType DEF Follows
<1>2. /\ AslData(r, mode) \in Byte /\ LsrData(r, mode) \in Byte
      /\ RolData(r, mode) \in Byte /\ RorData(r, mode) \in Byte
  BY <1>1, ShiftedType DEF AslData, LsrData, RolData, RorData
<1>3. ASSUME NEW data \in Byte, NEW carry PROVE Follows(m, Shift(r, mode, data, carry))
  <2>1. Follows(m, [r EXCEPT !.a = data])
    BY <1>1, RegisterType, FollowsOn
  <2>2. Follows(m, Write(r, Address(r, mode), data))
    BY StoreType
  <2>3. QED
    BY <2>1, <2>2, SetFlagType, UpdateType, FlagNumbers DEF Shift
<1>4. QED
  BY <1>2, <1>3 DEF Asl, Lsr, Rol, Ror

(* INC and DEC.                                                            *)
LEMMA IncType ==
  ASSUME NEW m, NEW r, Follows(m, r), NEW mode
  PROVE  /\ Follows(m, Inc(r, mode)) /\ Follows(m, Dec(r, mode))
         /\ Wrap8(Operand(r, mode) - 1) \in Byte
<1>1. Operand(r, mode) \in Byte
  BY OperandType DEF Follows
<1>2. Operand(r, mode) + 1 \in Int /\ Operand(r, mode) - 1 \in Int
  BY <1>1, ByteIs
<1>3. Wrap8(Operand(r, mode) + 1) \in Byte /\ Wrap8(Operand(r, mode) - 1) \in Byte
  BY <1>2, WrapType
<1>4. QED
  BY <1>3, StoreType, UpdateType DEF Inc, Dec, StoreAndTest, Store

----------------------------------------------------------------------------
(* Jumps, calls, returns and branches: the counter is a word.              *)

(* A jump goes to a word.                                                  *)
LEMMA JumpType ==
  ASSUME NEW m \in Machine, NEW target \in Word
  PROVE  Jump(m, target) \in Machine /\ Jump(m, target).pc = target
BY DEF Jump, Machine

(* The counter wraps wherever it is moved from where it is.                *)
LEMMA CounterType ==
  ASSUME NEW m \in Machine, NEW k \in Int PROVE m.pc + k \in Int /\ Wrap16(m.pc + k) \in Word
<1>1. m.pc \in Word
  BY DEF Machine
<1>2. m.pc + k \in Int
  BY <1>1, WordIs
<1>3. QED
  BY <1>2, WrapType

(* JMP through a pointer, with the rule for the end of a page.             *)
LEMMA JumpIndirectType == ASSUME NEW m \in Machine PROVE JumpIndirect(m) \in Machine
BY ReadWordType, JumpType DEF JumpIndirect, Pointee

(* JSR.                                                                    *)
LEMMA CallType == ASSUME NEW m \in Machine PROVE CallSubroutine(m) \in Machine
BY CounterType, PushWordType, ReadWordType, JumpType DEF CallSubroutine

(* RTS: any two bytes on the stack are an address.                         *)
LEMMA ReturnType == ASSUME NEW m \in Machine PROVE ReturnFromSubroutine(m) \in Machine
<1>1. TopWord(m) \in Word /\ Popped(Popped(m)) \in Machine
  BY PullType
<1>2. TopWord(m) + 1 \in Int
  BY <1>1, WordIs
<1>3. QED
  BY <1>1, <1>2, WrapType, JumpType DEF ReturnFromSubroutine

(* PLP.                                                                    *)
LEMMA PullStatusType == ASSUME NEW m \in Machine PROVE Follows(m, PullStatus(m))
BY PullType, BitsType DEF PullStatus, Follows, Machine

(* RTI.                                                                    *)
LEMMA ReturnFromInterruptType == ASSUME NEW m \in Machine PROVE ReturnFromInterrupt(m) \in Machine
<1> DEFINE pulled == PullStatus(m)
           status == [pulled EXCEPT !.p = (@ \ {Break}) \cup {UNK}]
<1>1. pulled \in Machine
  BY PullStatusType DEF Follows
<1> HIDE DEF pulled
<1>2. status \in Machine
  BY <1>1, FlagNumbers DEF Machine
<1>3. ReturnFromInterrupt(m) = Jump(Popped(Popped(status)), TopWord(status))
  BY DEF ReturnFromInterrupt, pulled
<1> HIDE DEF status
<1>4. QED
  BY <1>2, <1>3, PullType, JumpType

(* The offset of a branch is an integer.                                   *)
LEMMA SignedType == ASSUME NEW b \in Byte PROVE Signed(b) \in Int
BY ByteIs DEF Signed

(* The branches, and the cycles they add.                                  *)
LEMMA BranchType ==
  ASSUME NEW m \in Machine, NEW taken
  PROVE  /\ Branch(m, taken) \in Machine
         /\ BranchCycles(m, taken) \in 0 .. 2
<1>1. AfterOperand(m) \in Word /\ Read(m, m.pc) \in Byte
  BY CounterType, ReadType DEF AfterOperand
<1>2. AfterOperand(m) + Signed(Read(m, m.pc)) \in Int
  BY <1>1, WordIs, SignedType
<1>3. BranchTarget(m) \in Word
  BY <1>2, WrapType DEF BranchTarget
<1>4. QED
  BY <1>3, JumpType DEF Branch, BranchCycles

----------------------------------------------------------------------------
(* The unofficial instructions.                                            *)

(* All of them but those that store to an address of their own.            *)
LEMMA UnofficialType ==
  ASSUME NEW m \in Machine, NEW mode
  PROVE  /\ Follows(m, Dcp(m, mode)) /\ Follows(m, Rla(m, mode)) /\ Follows(m, Slo(m, mode))
         /\ Follows(m, Sre(m, mode)) /\ Follows(m, Rra(m, mode)) /\ Follows(m, Isc(m, mode))
         /\ Follows(m, Arr(m, mode)) /\ Follows(m, Alr(m, mode)) /\ Follows(m, Anc(m, mode))
         /\ Follows(m, Axs(m, mode)) /\ Follows(m, Lax(m, mode)) /\ Follows(m, Lxa(m, mode))
         /\ Follows(m, Xaa(m, mode)) /\ Follows(m, Las(m, mode))
<1>0. Follows(m, m) /\ Operand(m, mode) \in Byte /\ m.x \in Byte /\ m.a \in Byte
  BY OperandType DEF Follows, Machine
<1>1. ASSUME NEW a \in Byte, NEW b \in Byte PROVE Wrap8(a - b) \in Byte
  <2>1. a - b \in Int
    BY ByteIs
  <2>2. QED
    BY <2>1, WrapType
<1>2. Follows(m, Dcp(m, mode))
  <2> DEFINE data == Wrap8(Operand(m, mode) - 1)
             stored == Store(m, mode, data)
             carried == IF data <= m.a THEN Flag(stored, Carry, TRUE) ELSE stored
  <2>1. data \in Byte
    BY <1>0, IncType
  <2>2. Follows(m, stored)
    BY <1>0, <2>1, StoreType DEF Store
  <2>3. Follows(m, carried)
    BY <2>2, SetFlagType, FlagNumbers
  <2>4. QED
    BY <2>3, UpdateType DEF Dcp
<1>3. /\ Follows(m, Rla(m, mode)) /\ Follows(m, Slo(m, mode)) /\ Follows(m, Sre(m, mode))
      /\ Follows(m, Rra(m, mode))
  <2>1. /\ Follows(m, Asl(m, mode)) /\ Follows(m, Lsr(m, mode))
        /\ Follows(m, Rol(m, mode)) /\ Follows(m, Ror(m, mode))
        /\ RorData(m, mode) \in Byte
    BY <1>0, ShiftType
  <2>2. QED
    BY <2>1, LoadType, LogicType, SumType DEF Rla, Slo, Sre, Rra, EorA
<1>4. Follows(m, Isc(m, mode))
  <2>1. Follows(m, Inc(m, mode))
    BY <1>0, IncType
  <2>2. Operand(Inc(m, mode), mode) \in Byte
    BY <2>1, OperandType DEF Follows
  <2>3. QED
    BY <2>1, <2>2, SumType DEF Isc
<1>5. Follows(m, Arr(m, mode)) /\ Follows(m, Alr(m, mode)) /\ Follows(m, Anc(m, mode))
  <2>1. Follows(m, AndA(m, Operand(m, mode)))
    BY AndAType
  <2>2. QED
    BY <2>1, ShiftType, SetFlagType, FlagNumbers DEF Arr, Alr, Anc
<1>6. Follows(m, Axs(m, mode))
  <2> DEFINE both == And(m.x, m.a)
             data == Operand(m, mode)
             carried == IF data <= both THEN Flag(m, Carry, TRUE) ELSE m
  <2>1. Follows(m, carried)
    BY <1>0, SetFlagType, FlagNumbers
  <2>2. Wrap8(both - data) \in Byte
    BY <1>0, <1>1, LogicType
  <2> HIDE DEF carried
  <2>3. Follows(m, LoadX(carried, Wrap8(both - data)))
    BY <2>1, <2>2, LoadType
  <2>4. QED
    BY <2>3 DEF Axs, carried
<1>7. Follows(m, Lax(m, mode)) /\ Follows(m, Lxa(m, mode)) /\ Follows(m, Xaa(m, mode))
  <2>1. Follows(m, LoadA(m, Operand(m, mode)))
    BY <1>0, LoadType
  <2>2. LoadA(m, Operand(m, mode)).a \in Byte
    BY <2>1 DEF Follows, Machine
  <2>3. Follows(m, Lax(m, mode))
    BY <1>0, <2>1, RegisterType, FollowsOn DEF Lax, Follows
  <2>4. QED
    BY <1>0, <2>1, <2>2, <2>3, LoadType, LogicType DEF Lxa, Xaa
<1>8. Follows(m, Las(m, mode))
  <2> DEFINE data == And(Operand(m, mode), m.sp)
             r == [m EXCEPT !.a = data, !.x = data, !.sp = data]
  <2>1. data \in Byte
    BY LogicType
  <2> HIDE DEF data
  <2>2. Follows(m, r)
    BY <2>1 DEF Follows, Machine
  <2> HIDE DEF r
  <2>3. Follows(m, UpdateZeroNegative(r, data))
    BY <2>2, UpdateType
  <2>4. QED
    BY <2>3 DEF Las, r, data
<1>9. QED
  BY <1>2, <1>3, <1>4, <1>5, <1>6, <1>7, <1>8

(* *TAS, *AHX and *SHX.                                                    *)
LEMMA UnstableType ==
  ASSUME NEW m \in Machine, NEW mode
  PROVE  Follows(m, Tas(m, mode)) /\ Follows(m, Ahx(m, mode)) /\ Follows(m, Shx(m, mode))
<1>1. Follows(m, m) /\ \A a, b : And(a, b) \in Byte
  BY LogicType DEF Follows
<1>2. \A s \in Byte : Follows(m, [m EXCEPT !.sp = s])
  BY RegisterType
<1>3. QED
  BY <1>1, <1>2, StoreType DEF Tas, Ahx, Shx

----------------------------------------------------------------------------
(* Interrupts and reset.                                                   *)

(* The start of an interrupt, with a handler that stores bytes.            *)
LEMMA EnterType ==
  ASSUME NEW m \in Machine, NEW status, NEW handler, NEW vector,
         \A a \in DOMAIN handler : handler[a] \in Byte
  PROVE  Enter(m, status, handler, vector) \in Machine
<1> DEFINE pushed == Push(PushWord(m, m.pc), FromBits(status))
           handled == Handle(pushed, handler)
<1>1. pushed \in Machine
  <2>1. m.pc \in Word /\ FromBits(status) \in Byte
    BY FromBitsType DEF Machine
  <2>2. QED
    BY <2>1, PushWordType, PushType
<1> HIDE DEF pushed
<1>2. handled \in Machine
  BY <1>1 DEF Handle, Machine
<1> HIDE DEF handled
<1>3. ReadWord(handled, vector) \in Word /\ handled.p \cup {Interrupt} \in SUBSET Bit
  BY <1>2, ReadWordType, FlagNumbers DEF Machine
<1>4. Enter(m, status, handler, vector)
        = [handled EXCEPT !.pc = ReadWord(handled, vector), !.p = handled.p \cup {Interrupt}]
  BY DEF Enter, handled, pushed
<1>5. QED
  BY <1>2, <1>3, <1>4 DEF Machine

(* reset().                                                                *)
LEMMA ResetType == ASSUME NEW m \in Machine PROVE ResetMachine(m) \in Machine
<1> DEFINE vector == ReadWord(m, 65532)
           reset(b, sp) == [m EXCEPT !.sp = sp, !.p = DefaultStatus, !.x = b, !.y = b,
                                     !.a = b, !.pc = vector]
<1>1. vector \in Word
  BY ReadWordType
<1> HIDE DEF vector
<1>2. DefaultStatus \in SUBSET Bit
  BY FlagNumbers DEF DefaultStatus
<1>3. \A b, sp \in Byte : reset(b, sp) \in Machine
  BY <1>1, <1>2 DEF Machine
<1>4. 253 \in Byte /\ 0 \in Byte
  BY ByteIs, Widths
<1> HIDE DEF reset
<1>5. reset(0, 253) \in Machine
  BY <1>3, <1>4
<1>6. ResetMachine(m) = reset(0, 253)
  BY SMT DEF ResetMachine, reset, vector
<1>7. QED
  BY <1>5, <1>6
=============================================================================
