---------------------------- MODULE StackProofs ----------------------------
(***************************************************************************)
(* Where the CPU writes, and what is on its stack: in every program, under *)
(* every host, a handler changes memory at its effective address or where  *)
(* it pushes and nowhere else; so what was pushed and not stored over is   *)
(* what is pulled.                                                         *)
(***************************************************************************)
EXTENDS CpuProofs, SequenceTheorems

----------------------------------------------------------------------------
(* The memory that a handler leaves.                                       *)

(* The memory of r is that of k but for RAM in `where`.                    *)
Touches(k, r, where) ==
  \A addr : Read(r, addr) # Read(k, addr) => addr \in RAM \cap where

(* And so is the stack pointer, and what the addressing modes look at.     *)
Leaves(k, r, where) ==
  /\ r \in Machine
  /\ r.sp = k.sp
  /\ Touches(k, r, where)

(* A machine with the memory of another is read as it is.                  *)
LEMMA SameMemory ==
  ASSUME NEW k, NEW r, r.mem = k.mem
  PROVE  /\ \A addr : Read(r, addr) = Read(k, addr)
         /\ \A where : Touches(k, r, where)
BY DEF Touches, Read

(* A write changes the byte it is for, and only in RAM, where it is then   *)
(* read, unless the write before it panicked.                              *)
LEMMA WriteTouches ==
  ASSUME NEW r \in Machine, NEW addr, NEW data \in Byte
  PROVE  /\ Write(r, addr, data) \in Machine
         /\ Write(r, addr, data).sp = r.sp
         /\ Touches(r, Write(r, addr, data), {addr})
         /\ addr \in RAM /\ ~Write(r, addr, data).fault =>
              Read(Write(r, addr, data), addr) = data
<1> DEFINE w == Write(r, addr, data)
<1>1. w \in Machine
  BY WriteType
<1>2. CASE r.fault \/ addr \notin RAM \cup ROM
  <2>1. w = r
    BY <1>2 DEF Write
  <2>2. addr \in RAM => w.fault
    BY <1>2, <2>1
  <2>3. QED
    BY <1>1, <2>1, <2>2 DEF Touches
<1>3. CASE ~r.fault /\ addr \in ROM
  <2>1. w = [r EXCEPT !.fault = TRUE]
    BY <1>3 DEF Write
  <2>2. w.mem = r.mem /\ w.sp = r.sp /\ addr \notin RAM
    BY <1>3, <2>1, MemoryAssumption DEF Machine
  <2>3. QED
    BY <1>1, <2>2, SameMemory
<1>4. CASE ~r.fault /\ addr \in RAM
  <2>1. w = [r EXCEPT !.mem[addr] = data]
    BY <1>4, MemoryAssumption DEF Write
  <2>2. w.mem = [r.mem EXCEPT ![addr] = data] /\ w.sp = r.sp /\ addr \in DOMAIN r.mem
    BY <1>4, <2>1 DEF Machine
  <2>3. /\ Read(w, addr) = data
        /\ \A b : b # addr => Read(w, b) = Read(r, b)
    BY <2>2 DEF Read
  <2>4. QED
    BY <1>1, <1>4, <2>2, <2>3 DEF Touches
<1>5. QED
  BY <1>2, <1>3, <1>4

(* A handler after a handler touches what the two touch.                   *)
LEMMA TouchesOn ==
  ASSUME NEW k, NEW r, NEW s, NEW where, NEW there, Touches(k, r, where), Touches(r, s, there)
  PROVE  Touches(k, s, where \cup there)
BY DEF Touches

LEMMA LeavesOn ==
  ASSUME NEW k, NEW r, NEW s, NEW where, Leaves(k, r, where),
         s \in Machine, s.sp = r.sp, s.mem = r.mem
  PROVE  Leaves(k, s, where)
BY SameMemory DEF Leaves, Touches

----------------------------------------------------------------------------
(* Handlers that only set registers and flags.                             *)

(* What a flag changes is the status.                                      *)
Beside(k, r) ==
  /\ r \in Machine
  /\ r.sp = k.sp /\ r.mem = k.mem /\ r.pc = k.pc /\ r.x = k.x /\ r.y = k.y
  /\ r.fault = k.fault

LEMMA FlagBeside ==
  ASSUME NEW r \in Machine, NEW flag \in Bit, NEW on PROVE Beside(r, Flag(r, flag, on))
<1>1. Flag(r, flag, on) \in Machine
  BY FlagType
<1>2. ASSUME NEW S PROVE LET s == [r EXCEPT !.p = S]
                         IN /\ s.sp = r.sp /\ s.mem = r.mem /\ s.pc = r.pc
                            /\ s.x = r.x /\ s.y = r.y /\ s.fault = r.fault
  BY DEF Machine
<1>3. QED
  BY <1>1, <1>2 DEF Flag, Beside

LEMMA UpdateBeside ==
  ASSUME NEW r \in Machine, NEW value PROVE Beside(r, UpdateZeroNegative(r, value))
<1>1. Zero \in Bit /\ Negative \in Bit
  BY FlagNumbers
<1>2. Beside(r, Flag(r, Zero, value = 0))
  BY <1>1, FlagBeside
<1>3. Beside(Flag(r, Zero, value = 0), UpdateZeroNegative(r, value))
  BY <1>1, <1>2, FlagBeside DEF Beside, UpdateZeroNegative
<1>4. QED
  BY <1>2, <1>3 DEF Beside

(* LDA leaves the index registers too.                                     *)
LEMMA LoadABeside ==
  ASSUME NEW r \in Machine, NEW v \in Byte PROVE Beside(r, LoadA(r, v))
<1> DEFINE s == [r EXCEPT !.a = v]
<1>1. Beside(r, s)
  BY DEF Beside, Machine
<1> HIDE DEF s
<1>2. Beside(s, UpdateZeroNegative(s, v))
  BY <1>1, UpdateBeside DEF Beside
<1>3. LoadA(r, v) = UpdateZeroNegative(s, v)
  BY DEF LoadA, s
<1>4. QED
  BY <1>1, <1>2, <1>3 DEF Beside

(* What stays beside what is left is left.                                 *)
LEMMA BesideLeaves ==
  ASSUME NEW k, NEW r, NEW s, NEW where, Leaves(k, r, where), Beside(r, s)
  PROVE  Leaves(k, s, where)
BY LeavesOn DEF Beside

(* A flag set after a handler.                                             *)
LEMMA FlagLeft ==
  ASSUME NEW k, NEW r, NEW where, Leaves(k, r, where), NEW flag \in Bit, NEW on
  PROVE  Leaves(k, Flag(r, flag, on), where)
BY FlagBeside, BesideLeaves DEF Leaves

(* The update of Zero and Negative after a handler.                        *)
LEMMA UpdateLeft ==
  ASSUME NEW k, NEW r, NEW where, Leaves(k, r, where), NEW value
  PROVE  Leaves(k, UpdateZeroNegative(r, value), where)
BY UpdateBeside, BesideLeaves DEF Leaves

(* A load after a handler.                                                 *)
LEMMA LoadLeft ==
  ASSUME NEW k, NEW r, NEW where, Leaves(k, r, where), NEW v \in Byte
  PROVE  /\ Leaves(k, LoadA(r, v), where) /\ Leaves(k, LoadX(r, v), where)
         /\ Leaves(k, LoadY(r, v), where) /\ Leaves(k, [r EXCEPT !.a = v], where)
<1>1. r \in Machine
  BY DEF Leaves
<1>2. /\ [r EXCEPT !.a = v] \in Machine /\ [r EXCEPT !.a = v].sp = r.sp
      /\ [r EXCEPT !.a = v].mem = r.mem
      /\ [r EXCEPT !.x = v] \in Machine /\ [r EXCEPT !.x = v].sp = r.sp
      /\ [r EXCEPT !.x = v].mem = r.mem
      /\ [r EXCEPT !.y = v] \in Machine /\ [r EXCEPT !.y = v].sp = r.sp
      /\ [r EXCEPT !.y = v].mem = r.mem
  BY <1>1 DEF Machine
<1>3. /\ Leaves(k, [r EXCEPT !.a = v], where) /\ Leaves(k, [r EXCEPT !.x = v], where)
      /\ Leaves(k, [r EXCEPT !.y = v], where)
  BY <1>2, LeavesOn
<1>4. QED
  BY <1>3, UpdateLeft DEF LoadA, LoadX, LoadY

(* AND, EOR and ORA.                                                       *)
LEMMA AndALeft ==
  ASSUME NEW k, NEW r, NEW where, Leaves(k, r, where), NEW v
  PROVE  /\ Leaves(k, AndA(r, v), where) /\ Leaves(k, EorA(r, v), where)
         /\ Leaves(k, OraA(r, v), where)
BY LoadLeft, LogicType DEF AndA, EorA, OraA

(* ADC and SBC.                                                            *)
LEMMA SumLeft ==
  ASSUME NEW k, NEW r, NEW where, Leaves(k, r, where), NEW v \in Byte
  PROVE  /\ Leaves(k, AddToAccumulator(r, v), where)
         /\ Leaves(k, SubFromAccumulator(r, v), where)
<1>1. ASSUME NEW sum \in Byte PROVE Leaves(k, SetSum(r, v, sum), where)
  BY <1>1, FlagLeft, LoadLeft, FlagNumbers DEF SetSum
<1>2. r.a \in Byte /\ CarryIn(r) \in {0, 1}
  BY CarryInType DEF Leaves, Machine
<1>3. r.a + v + CarryIn(r) \in Int /\ r.a - v - (1 - CarryIn(r)) \in Int
  BY <1>2, ByteIs
<1>4. QED
  BY <1>1, <1>3, WrapType DEF AddToAccumulator, SubFromAccumulator

(* The comparisons and BIT.                                                *)
LEMMA TestLeft ==
  ASSUME NEW k, NEW r, NEW where, Leaves(k, r, where), NEW target, NEW data
  PROVE  Leaves(k, Compare(r, target, data), where) /\ Leaves(k, BitTest(r, data), where)
BY FlagLeft, FlagNumbers DEF Compare, BitTest

----------------------------------------------------------------------------
(* Handlers that store.                                                    *)

(* The four shifts: the byte, or the accumulator at address 0.             *)
LEMMA ShiftLeft ==
  ASSUME NEW r \in Machine, NEW mode
  PROVE  LET where == {Address(r, mode)} \ {0}
         IN  /\ Leaves(r, Asl(r, mode), where) /\ Leaves(r, Lsr(r, mode), where)
             /\ Leaves(r, Rol(r, mode), where) /\ Leaves(r, Ror(r, mode), where)
<1> DEFINE addr  == Address(r, mode)
           where == {addr} \ {0}
<1>1. Follows(r, r)
  BY DEF Follows
<1>2. /\ AslData(r, mode) \in Byte /\ LsrData(r, mode) \in Byte
      /\ RolData(r, mode) \in Byte /\ RorData(r, mode) \in Byte
  BY <1>1, ShiftType
<1>3. ASSUME NEW data \in Byte, NEW carry PROVE Leaves(r, Shift(r, mode, data, carry), where)
  <2> DEFINE moved == IF addr = 0 THEN [r EXCEPT !.a = data] ELSE Write(r, addr, data)
  <2>1. Leaves(r, moved, where)
    <3>1. CASE addr = 0
      <4>1. /\ [r EXCEPT !.a = data] \in Machine /\ [r EXCEPT !.a = data].sp = r.sp
            /\ [r EXCEPT !.a = data].mem = r.mem
        BY DEF Machine
      <4>2. QED
        BY <3>1, <4>1, SameMemory DEF Leaves
    <3>2. CASE addr # 0
      <4>1. where = {addr}
        BY <3>2
      <4>2. QED
        BY <3>2, <4>1, WriteTouches DEF Leaves
    <3>3. QED
      BY <3>1, <3>2
  <2>2. Shift(r, mode, data, carry) = UpdateZeroNegative(Flag(moved, Carry, carry), data)
    BY DEF Shift
  <2> HIDE DEF moved, where
  <2>3. QED
    BY <2>1, <2>2, FlagLeft, UpdateLeft, FlagNumbers
<1> HIDE DEF where
<1>4. /\ Leaves(r, Asl(r, mode), where) /\ Leaves(r, Lsr(r, mode), where)
      /\ Leaves(r, Rol(r, mode), where) /\ Leaves(r, Ror(r, mode), where)
  BY <1>2, <1>3 DEF Asl, Lsr, Rol, Ror
<1>5. QED
  BY <1>4 DEF where

(* A store to the effective address, and INC and DEC.                      *)
LEMMA StoreLeft ==
  ASSUME NEW r \in Machine, NEW mode
  PROVE  LET where == {Address(r, mode)}
         IN  /\ \A data \in Byte : Leaves(r, Store(r, mode, data), where)
             /\ Leaves(r, Inc(r, mode), where) /\ Leaves(r, Dec(r, mode), where)
<1> DEFINE where == {Address(r, mode)}
<1>1. ASSUME NEW data \in Byte PROVE Leaves(r, Store(r, mode, data), where)
  BY WriteTouches DEF Leaves, Store
<1>2. Operand(r, mode) + 1 \in Int /\ Operand(r, mode) - 1 \in Int
  BY OperandType, ByteIs
<1> HIDE DEF where
<1>3. Leaves(r, Inc(r, mode), where) /\ Leaves(r, Dec(r, mode), where)
  BY <1>1, <1>2, WrapType, UpdateLeft DEF Inc, Dec, StoreAndTest
<1>4. QED
  BY <1>1, <1>3 DEF where

(* A load before a shift does not move its address.                        *)
LEMMA AddressBeside ==
  ASSUME NEW k, NEW r, Beside(k, r), NEW mode PROVE Address(r, mode) = Address(k, mode)
<1>1. /\ r.pc = k.pc /\ r.x = k.x /\ r.y = k.y
      /\ \A addr : Read(r, addr) = Read(k, addr)
  BY SameMemory DEF Beside
<1>2. \A addr : ReadWord(r, addr) = ReadWord(k, addr)
                /\ ReadWordInPage(r, addr) = ReadWordInPage(k, addr)
  BY <1>1 DEF ReadWord, ReadWordInPage
<1>3. IndirectBase(r) = IndirectBase(k)
  BY <1>1 DEF IndirectBase
<1>4. QED
  BY <1>1, <1>2, <1>3 DEF Address

(* The unofficial instructions that store nothing.                         *)
LEMMA UnofficialLeft ==
  ASSUME NEW r \in Machine, NEW mode
  PROVE  /\ Leaves(r, Anc(r, mode), {}) /\ Leaves(r, Axs(r, mode), {})
         /\ Leaves(r, Lax(r, mode), {}) /\ Leaves(r, Lxa(r, mode), {})
         /\ Leaves(r, Xaa(r, mode), {})
<1>0. /\ Leaves(r, r, {}) /\ Operand(r, mode) \in Byte /\ r.x \in Byte /\ r.a \in Byte
  BY OperandType, SameMemory DEF Leaves, Machine
<1>1. Leaves(r, Anc(r, mode), {})
  BY <1>0, AndALeft, FlagLeft, FlagNumbers DEF Anc
<1>2. Leaves(r, Axs(r, mode), {})
  <2> DEFINE both == And(r.x, r.a)
             data == Operand(r, mode)
             carried == IF data <= both THEN Flag(r, Carry, TRUE) ELSE r
  <2>1. Leaves(r, carried, {})
    BY <1>0, FlagLeft, FlagNumbers
  <2>2. both - data \in Int
    BY <1>0, LogicType, ByteIs
  <2> HIDE DEF carried
  <2>3. Leaves(r, LoadX(carried, Wrap8(both - data)), {})
    BY <2>1, <2>2, WrapType, LoadLeft
  <2>4. QED
    BY <2>3 DEF Axs, carried
<1>3. Leaves(r, LoadA(r, Operand(r, mode)), {})
  BY <1>0, LoadLeft
<1>4. Leaves(r, Lax(r, mode), {})
  BY <1>0, <1>3, LoadLeft DEF Lax
<1>5. LoadA(r, Operand(r, mode)).a \in Byte
  BY <1>3 DEF Leaves, Machine
<1>6. Leaves(r, Lxa(r, mode), {}) /\ Leaves(r, Xaa(r, mode), {})
  BY <1>0, <1>3, <1>5, LogicType, LoadLeft DEF Lxa, Xaa
<1>7. QED
  BY <1>1, <1>2, <1>4, <1>6

(* Those that shift a byte and use it, *ALR and *ARR among them.           *)
LEMMA UnofficialShiftLeft ==
  ASSUME NEW r \in Machine, NEW mode
  PROVE  LET where == {Address(r, mode)} \ {0}
         IN  /\ Leaves(r, Slo(r, mode), where) /\ Leaves(r, Rla(r, mode), where)
             /\ Leaves(r, Sre(r, mode), where) /\ Leaves(r, Rra(r, mode), where)
             /\ Leaves(r, Alr(r, mode), where) /\ Leaves(r, Arr(r, mode), where)
<1> DEFINE where == {Address(r, mode)} \ {0}
<1>1. /\ Leaves(r, Asl(r, mode), where) /\ Leaves(r, Lsr(r, mode), where)
      /\ Leaves(r, Rol(r, mode), where) /\ Leaves(r, Ror(r, mode), where)
  BY ShiftLeft
<1>2. RorData(r, mode) \in Byte
  BY ShiftType DEF Follows
<1>3. /\ Leaves(r, Slo(r, mode), where) /\ Leaves(r, Rla(r, mode), where)
      /\ Leaves(r, Sre(r, mode), where) /\ Leaves(r, Rra(r, mode), where)
  <2> HIDE DEF where
  <2>1. QED
    BY <1>1, <1>2, LoadLeft, AndALeft, SumLeft, LogicType DEF Slo, Rla, Sre, Rra
<1>4. Leaves(r, Alr(r, mode), where) /\ Leaves(r, Arr(r, mode), where)
  <2> DEFINE anded == AndA(r, Operand(r, mode))
  <2>1. Beside(r, anded)
    BY LoadABeside, LogicType DEF AndA
  <2> HIDE DEF anded
  <2>2. anded \in Machine /\ Address(anded, mode) = Address(r, mode)
    BY <2>1, AddressBeside DEF Beside
  <2>3. Leaves(anded, Lsr(anded, mode), where) /\ Leaves(anded, Ror(anded, mode), where)
    BY <2>2, ShiftLeft
  <2>4. anded.sp = r.sp /\ \A addr : Read(anded, addr) = Read(r, addr)
    BY <2>1, SameMemory DEF Beside
  <2> HIDE DEF where
  <2>5. Leaves(r, Lsr(anded, mode), where) /\ Leaves(r, Ror(anded, mode), where)
    BY <2>3, <2>4 DEF Leaves, Touches
  <2>6. QED
    BY <2>5 DEF Alr, Arr, anded
<1>5. QED
  BY <1>3, <1>4

(* *DCP and *ISC.                                                          *)
LEMMA UnofficialStoreLeft ==
  ASSUME NEW r \in Machine, NEW mode
  PROVE  LET where == {Address(r, mode)}
         IN  Leaves(r, Dcp(r, mode), where) /\ Leaves(r, Isc(r, mode), where)
<1> DEFINE where == {Address(r, mode)}
<1>1. Leaves(r, Dcp(r, mode), where)
  <2> DEFINE data == Wrap8(Operand(r, mode) - 1)
             stored == Store(r, mode, data)
             carried == IF data <= r.a THEN Flag(stored, Carry, TRUE) ELSE stored
  <2>1. data \in Byte
    BY IncType DEF Follows
  <2> HIDE DEF data
  <2>2. Leaves(r, stored, where)
    BY <2>1, StoreLeft
  <2> HIDE DEF stored, where
  <2>3. Leaves(r, carried, where)
    BY <2>2, FlagLeft, FlagNumbers
  <2> HIDE DEF carried
  <2>4. Leaves(r, UpdateZeroNegative(carried, Wrap8(r.a - data)), where)
    BY <2>3, UpdateLeft
  <2>5. QED
    BY <2>4 DEF Dcp, carried, stored, data
<1>2. Leaves(r, Isc(r, mode), where)
  <2>1. Leaves(r, Inc(r, mode), where)
    BY StoreLeft
  <2>2. Operand(Inc(r, mode), mode) \in Byte
    BY <2>1, OperandType DEF Leaves
  <2> HIDE DEF where
  <2>3. QED
    BY <2>1, <2>2, SumLeft DEF Isc
<1>3. QED
  BY <1>1, <1>2

(* *AHX, *SHX and *TAS, of which the last moves the stack pointer.         *)
LEMMA UnstableLeft ==
  ASSUME NEW r \in Machine, NEW mode
  PROVE  LET where == {UnstableAddr(r, mode)}
         IN  /\ Leaves(r, Ahx(r, mode), where) /\ Leaves(r, Shx(r, mode), where)
             /\ Touches(r, Tas(r, mode), where)
<1> DEFINE addr == UnstableAddr(r, mode)
           s == And(r.a, r.x)
<1>1. \A a, b : And(a, b) \in Byte
  BY LogicType
<1>2. \A data \in Byte : Leaves(r, Write(r, addr, data), {addr})
  BY WriteTouches DEF Leaves
<1>3. Leaves(r, Ahx(r, mode), {addr}) /\ Leaves(r, Shx(r, mode), {addr})
  BY <1>1, <1>2 DEF Ahx, Shx
<1>4. [r EXCEPT !.sp = s] \in Machine /\ [r EXCEPT !.sp = s].mem = r.mem
  BY <1>1 DEF Machine
<1>5. ASSUME NEW q \in Machine, q.mem = r.mem, NEW b, NEW data \in Byte
      PROVE  Touches(r, Write(q, b, data), {b})
  BY <1>5, WriteTouches, SameMemory DEF Touches
<1>6. Touches(r, Tas(r, mode), {addr})
  BY <1>1, <1>4, <1>5 DEF Tas
<1>7. QED
  BY <1>3, <1>6
----------------------------------------------------------------------------
(* The stack.                                                              *)

(* A number is what it is a multiple of, and the rest.                     *)
LEMMA DividedBy ==
  ASSUME NEW n \in Int, NEW d \in Nat, d > 0
  PROVE  n % d \in 0 .. d - 1 /\ \E q \in Int : n = d * q + (n % d)
<1>1. n \div d \in Int /\ n % d \in 0 .. d - 1
  OBVIOUS
<1>2. n = d * (n \div d) + (n % d)
  OBVIOUS
<1>3. QED
  BY <1>1, <1>2

(* The rest of a sum is that of the sum with a rest.                       *)
LEMMA RestOfSum ==
  ASSUME NEW d \in Nat, d > 0, NEW n \in Int, NEW k \in Int
  PROVE  ((n % d) + k) % d = (n + k) % d
<1>1. PICK q \in Int : n = d * q + (n % d)
  BY DividedBy
<1>2. n % d \in Int
  BY DividedBy
<1>3. PICK p \in Int : (n % d) + k = d * p + (((n % d) + k) % d)
  BY <1>2, DividedBy
<1>4. ((n % d) + k) % d \in 0 .. d - 1
  BY <1>2, DividedBy
<1>5. ASSUME NEW r \in 0 .. d - 1, NEW z \in Int PROVE (d * z + r) % d = r
  BY <1>5
<1> DEFINE r == ((n % d) + k) % d
<1>6. n + k = d * (q + p) + r /\ q + p \in Int /\ r \in 0 .. d - 1
  BY <1>1, <1>2, <1>3, <1>4
<1> HIDE DEF r
<1>7. (n + k) % d = r
  BY <1>5, <1>6
<1>8. QED
  BY <1>7 DEF r

(* So it does not matter how often a counter was wrapped on the way.       *)
LEMMA WrapOn ==
  ASSUME NEW n \in Int, NEW k \in Int
  PROVE  Wrap8(Wrap8(n) + k) = Wrap8(n + k) /\ Wrap16(Wrap16(n) + k) = Wrap16(n + k)
<1>1. MaxByte + 1 \in Nat /\ MaxByte + 1 > 0 /\ MaxWord + 1 \in Nat /\ MaxWord + 1 > 0
  BY Widths
<1>2. QED
  BY <1>1, RestOfSum DEF Wrap8, Wrap16

(* Neighbours on the stack are different bytes, over its end too.          *)
LEMMA NeighboursApart ==
  ASSUME NEW s \in Byte
  PROVE  /\ Wrap8(s) = s /\ Wrap8(s + 0) = s
         /\ Wrap8(s + 1) # s /\ Wrap8(s + 2) # s /\ Wrap8(s + 2) # Wrap8(s + 1)
         /\ Wrap8(s + 1) \in Byte /\ Wrap8(s + 2) \in Byte /\ Wrap8(s + 3) \in Byte
<1>1. s \in Int /\ 0 <= s /\ s <= 255
  BY ByteIs, Widths
<1>2. /\ s + 1 <= 255 => (s + 1) % 256 = s + 1
      /\ s + 1 > 255 => (s + 1) % 256 = s + 1 - 256
      /\ s + 2 <= 255 => (s + 2) % 256 = s + 2
      /\ s + 2 > 255 => (s + 2) % 256 = s + 2 - 256
  BY <1>1
<1>3. /\ Wrap8(s + 1) = (s + 1) % 256 /\ Wrap8(s + 2) = (s + 2) % 256
  BY Widths DEF Wrap8
<1>4. Wrap8(s) = s /\ s + 0 = s
  BY <1>1, WrapType
<1>5. Wrap8(s + 1) # s /\ Wrap8(s + 2) # s /\ Wrap8(s + 2) # Wrap8(s + 1)
  BY <1>1, <1>2, <1>3
<1>6. Wrap8(s + 1) \in Byte /\ Wrap8(s + 2) \in Byte /\ Wrap8(s + 3) \in Byte
  BY <1>1, WrapType
<1>7. QED
  BY <1>4, <1>5, <1>6

(* A word is its halves.                                                   *)
LEMMA JoinedHalves == ASSUME NEW w \in Word PROVE Join(Lo(w), Hi(w)) = w
<1>1. w \in Int
  BY WordIs
<1>2. w = 256 * (w \div 256) + (w % 256) /\ w \div 256 \in Int /\ w % 256 \in Int
  BY <1>1
<1>3. QED
  BY <1>2 DEF Join, Lo, Hi

(* A status comes back from its byte.                                      *)
LEMMA StatusBack == ASSUME NEW S \in SUBSET Bit PROVE Bits(FromBits(S)) = S
<1> DEFINE W(i, w) == IF i \in S THEN w ELSE 0
           n == W(0, 1) + W(1, 2) + W(2, 4) + W(3, 8)
                  + W(4, 16) + W(5, 32) + W(6, 64) + W(7, 128)
           Back(i) == (n \div 2^i) % 2 = 1 <=> i \in S
<1>1. FromBits(S) = n
  BY DEF FromBits
<1>2. /\ 2^0 = 1 /\ 2^1 = 2 /\ 2^2 = 4 /\ 2^3 = 8
      /\ 2^4 = 16 /\ 2^5 = 32 /\ 2^6 = 64 /\ 2^7 = 128
  OBVIOUS
<1>3. \A i \in Bit : Back(i)
  <2>1. ASSUME NEW i \in Bit PROVE i \in {0, 1, 2, 3, 4, 5, 6, 7}
    BY DEF Bit
  <2>2. /\ (n \div 1) % 2 = 1 <=> 0 \in S
        /\ (n \div 2) % 2 = 1 <=> 1 \in S
        /\ (n \div 4) % 2 = 1 <=> 2 \in S
        /\ (n \div 8) % 2 = 1 <=> 3 \in S
    OBVIOUS
  <2>3. /\ (n \div 16) % 2 = 1 <=> 4 \in S
        /\ (n \div 32) % 2 = 1 <=> 5 \in S
        /\ (n \div 64) % 2 = 1 <=> 6 \in S
        /\ (n \div 128) % 2 = 1 <=> 7 \in S
    OBVIOUS
  <2> HIDE DEF n
  <2>4. /\ Back(0) /\ Back(1) /\ Back(2) /\ Back(3)
        /\ Back(4) /\ Back(5) /\ Back(6) /\ Back(7)
    BY <1>2, <2>2, <2>3
  <2> HIDE DEF Back
  <2>5. QED
    BY <2>1, <2>4
<1> HIDE DEF n
<1>4. QED
  BY <1>1, <1>3 DEF Bits

(* The bytes of a frame, by its kind.                                      *)
LEMMA SlotsAre ==
  ASSUME NEW frame
  PROVE  /\ frame.kind = "interrupt" =>
              Slots(frame) = {Slot(frame, 0), Slot(frame, 1), Slot(frame, 2)}
         /\ frame.kind = "call" => Slots(frame) = {Slot(frame, 0), Slot(frame, 1)}
         /\ frame.kind \in {"accumulator", "status"} => Slots(frame) = {Slot(frame, 0)}
<1>1. CASE frame.kind = "interrupt"
  BY <1>1 DEF Slots, Size
<1>2. CASE frame.kind = "call"
  BY <1>2 DEF Slots, Size
<1>3. CASE frame.kind \in {"accumulator", "status"}
  BY <1>3 DEF Slots, Size
<1>4. QED
  BY <1>1, <1>2, <1>3

(* What the frame of an interrupt holds.                                   *)
LEMMA InterruptHolds ==
  ASSUME NEW k, NEW frame, frame.kind = "interrupt"
  PROVE  Holds(k, frame) <=>
           /\ WordIn(k, frame) = frame.saved.pc
           /\ Bits(InSlot(k, frame, 2)) \ {Break} = frame.saved.p \ {Break}
<1> DEFINE Counter == WordIn(k, frame) = frame.saved.pc
           Status  == Bits(InSlot(k, frame, 2)) \ {Break} = frame.saved.p \ {Break}
           Other   == InSlot(k, frame, 0) = frame.saved.a
           Flags   == Bits(InSlot(k, frame, 0)) = frame.saved.p
           GoesOn  == Wrap16(WordIn(k, frame) + 1) = frame.saved.pc
<1>1. Holds(k, frame) = CASE frame.kind = "call" -> GoesOn
                          [] frame.kind = "interrupt" -> Counter /\ Status
                          [] frame.kind = "accumulator" -> Other
                          [] frame.kind = "status" -> Flags
  BY DEF Holds
<1> HIDE DEF Counter, Status, Other, Flags, GoesOn
<1>2. Holds(k, frame) = (Counter /\ Status)
  BY <1>1
<1>3. QED
  BY <1>2 DEF Counter, Status

(* A frame holds what it was pushed for as long as its bytes stay.         *)
LEMMA HoldsOn ==
  ASSUME NEW k, NEW r, NEW frame, frame.kind \in Kinds, Holds(k, frame),
         \A addr \in Slots(frame) : Read(r, addr) = Read(k, addr)
  PROVE  Holds(r, frame)
<1>1. \A i : Slot(frame, i) \in Slots(frame) => InSlot(r, frame, i) = InSlot(k, frame, i)
  BY DEF InSlot
<1>2. CASE frame.kind = "interrupt"
  <2>1. /\ InSlot(r, frame, 0) = InSlot(k, frame, 0)
        /\ InSlot(r, frame, 1) = InSlot(k, frame, 1)
        /\ InSlot(r, frame, 2) = InSlot(k, frame, 2)
    BY <1>1, <1>2, SlotsAre
  <2>2. WordIn(r, frame) = WordIn(k, frame)
    BY <2>1 DEF WordIn
  <2>3. QED
    BY <1>2, <2>1, <2>2, InterruptHolds
<1>3. CASE frame.kind = "call"
  <2>1. /\ InSlot(r, frame, 0) = InSlot(k, frame, 0)
        /\ InSlot(r, frame, 1) = InSlot(k, frame, 1)
    BY <1>1, <1>3, SlotsAre
  <2>2. WordIn(r, frame) = WordIn(k, frame)
    BY <2>1 DEF WordIn
  <2>3. QED
    BY <1>3, <2>2 DEF Holds
<1>4. CASE frame.kind \in {"accumulator", "status"}
  <2>1. InSlot(r, frame, 0) = InSlot(k, frame, 0)
    BY <1>1, <1>4, SlotsAre
  <2>2. QED
    BY <1>4, <2>1 DEF Holds
<1>5. QED
  BY <1>2, <1>3, <1>4 DEF Kinds

(* A push changes the byte at the stack pointer, and moves on by one.      *)
LEMMA PushIs ==
  ASSUME NEW r \in Machine, NEW data \in Byte
  PROVE  LET s == Push(r, data)
             addr == 256 + r.sp
         IN  /\ s \in Machine /\ s.sp = Wrap8(r.sp + 1)
             /\ Touches(r, s, {addr})
             /\ addr \in RAM /\ ~s.fault => Read(s, addr) = data
<1> DEFINE addr == 256 + r.sp
           w == Write(r, addr, data)
           s == Push(r, data)
<1>1. /\ w \in Machine /\ w.sp = r.sp /\ Touches(r, w, {addr})
      /\ addr \in RAM /\ ~w.fault => Read(w, addr) = data
  BY WriteTouches
<1>2. s \in Machine /\ s = [w EXCEPT !.sp = Wrap8(w.sp + 1)]
  BY PushType DEF Push, StackAddr
<1> HIDE DEF w, addr
<1>3. s.sp = Wrap8(w.sp + 1) /\ s.mem = w.mem /\ s.fault = w.fault
  BY <1>1, <1>2 DEF Machine
<1> HIDE DEF s
<1>4. \A b : Read(s, b) = Read(w, b)
  BY <1>3, SameMemory
<1>5. Touches(r, s, {addr}) /\ (addr \in RAM /\ ~s.fault => Read(s, addr) = data)
  BY <1>1, <1>3, <1>4 DEF Touches
<1>6. QED
  BY <1>1, <1>2, <1>3, <1>5 DEF s, addr

(* What was written before a panic stays, and no push comes after it.      *)
LEMMA FaultStays ==
  ASSUME NEW r \in Machine, NEW data \in Byte, r.fault PROVE Push(r, data).fault
<1>1. Write(r, StackAddr(r), data) = r
  BY DEF Write
<1>2. Push(r, data) = [r EXCEPT !.sp = Wrap8(r.sp + 1)]
  BY <1>1 DEF Push
<1>3. QED
  BY <1>2 DEF Machine

(* A word on the stack: its high byte first, over the end of the stack or  *)
(* not.                                                                    *)
LEMMA PushWordIs ==
  ASSUME NEW r \in Machine, NEW w \in Word, NEW frame, frame.sp = r.sp
  PROVE  LET s == PushWord(r, w)
             where == {Slot(frame, 0), Slot(frame, 1)}
         IN  /\ s \in Machine /\ s.sp = Wrap8(r.sp + 2)
             /\ Touches(r, s, where)
             /\ where \subseteq RAM /\ ~s.fault =>
                  InSlot(s, frame, 0) = Hi(w) /\ InSlot(s, frame, 1) = Lo(w)
<1> DEFINE t == Push(r, Hi(w))
           s == Push(t, Lo(w))
           one == Slot(frame, 0)
           two == Slot(frame, 1)
<1>0. r.sp \in Byte /\ r.sp \in Int /\ Hi(w) \in Byte /\ Lo(w) \in Byte
  BY HalvesType, ByteIs DEF Machine
<1>1. one = 256 + r.sp /\ two = 256 + Wrap8(r.sp + 1) /\ one # two
  <2>1. Wrap8(r.sp + 1) \in Int /\ Wrap8(r.sp + 0) = r.sp /\ Wrap8(r.sp + 1) # r.sp
    BY <1>0, NeighboursApart, ByteIs
  <2>2. QED
    BY <1>0, <2>1 DEF Slot
<1> HIDE DEF one, two
<1>2. /\ t \in Machine /\ t.sp = Wrap8(r.sp + 1) /\ Touches(r, t, {one})
      /\ one \in RAM /\ ~t.fault => Read(t, one) = Hi(w)
  BY <1>0, <1>1, PushIs
<1> HIDE DEF t
<1>3. /\ s \in Machine /\ s.sp = Wrap8(t.sp + 1) /\ Touches(t, s, {two})
      /\ two \in RAM /\ ~s.fault => Read(s, two) = Lo(w)
      /\ t.fault => s.fault
  <2>1. t.sp = Wrap8(r.sp + 1) /\ two = 256 + t.sp
    BY <1>1, <1>2
  <2>2. t.fault => s.fault
    BY <1>0, <1>2, FaultStays
  <2>3. QED
    BY <1>0, <1>2, <2>1, <2>2, PushIs
<1>4. s.sp = Wrap8(r.sp + 2)
  <2>1. r.sp + 1 \in Int /\ (r.sp + 1) + 1 = r.sp + 2
    BY <1>0
  <2>2. ASSUME NEW n \in Int PROVE Wrap8(Wrap8(n) + 1) = Wrap8(n + 1)
    BY WrapOn
  <2>3. QED
    BY <1>2, <1>3, <2>1, <2>2
<1>5. s = PushWord(r, w)
  BY DEF PushWord, t
<1> HIDE DEF s
<1>6. Touches(r, s, {one, two})
  BY <1>2, <1>3 DEF Touches
<1>7. ASSUME one \in RAM, two \in RAM, ~s.fault PROVE Read(s, one) = Hi(w) /\ Read(s, two) = Lo(w)
  BY <1>1, <1>2, <1>3, <1>7 DEF Touches
<1>8. QED
  BY <1>3, <1>4, <1>5, <1>6, <1>7 DEF InSlot, one, two

(* A pull reads the byte below the stack pointer, and moves there.         *)
LEMMA PoppedIs ==
  ASSUME NEW r \in Machine, NEW s \in Byte, NEW n \in {0, 1, 2}, r.sp = Wrap8(s + n + 1)
  PROVE  /\ Popped(r) \in Machine /\ Popped(r).sp = Wrap8(s + n)
         /\ Popped(r).mem = r.mem
         /\ Top(r) = Read(r, 256 + Wrap8(s + n))
<1>1. s + n + 1 \in Int /\ (s + n + 1) + (-1) = s + n
  BY ByteIs
<1>2. ASSUME NEW k \in Int PROVE Wrap8(Wrap8(k) + (-1)) = Wrap8(k + (-1))
  BY WrapOn
<1>3. Wrap8(s + n + 1) \in Int
  BY <1>1, WrapType, ByteIs
<1>4. Wrap8(s + n + 1) - 1 = Wrap8(s + n + 1) + (-1)
  BY <1>3
<1>5. Wrap8(r.sp - 1) = Wrap8(s + n)
  BY <1>1, <1>2, <1>4
<1>6. Popped(r) \in Machine
  BY PullType
<1>7. Popped(r) = [r EXCEPT !.sp = Wrap8(s + n)]
  BY <1>5 DEF Popped
<1>8. Popped(r).sp = Wrap8(s + n) /\ Popped(r).mem = r.mem
  BY <1>7 DEF Machine
<1>9. \A addr : Read(Popped(r), addr) = Read(r, addr)
  BY <1>8, SameMemory
<1>10. Top(r) = Read(r, 256 + Wrap8(s + n))
  BY <1>8 DEF Top, StackAddr
<1>11. QED
  BY <1>6, <1>8, <1>10

(* Two pulls at the end of a word that a frame has at its start take that  *)
(* word, and move to the start of the frame.                               *)
LEMMA PulledWord ==
  ASSUME NEW r \in Machine, NEW frame, frame.sp \in Byte, r.sp = Wrap8(frame.sp + 2)
  PROVE  /\ Popped(Popped(r)) \in Machine /\ Popped(Popped(r)).sp = frame.sp
         /\ Popped(Popped(r)).mem = r.mem
         /\ TopWord(r) = WordIn(r, frame)
<1>0. frame.sp \in Int /\ frame.sp + 1 + 1 = frame.sp + 2 /\ frame.sp + 0 + 1 = frame.sp + 1
  BY ByteIs
<1>1. /\ Popped(r) \in Machine /\ Popped(r).sp = Wrap8(frame.sp + 1)
      /\ Popped(r).mem = r.mem /\ Top(r) = InSlot(r, frame, 1)
  BY <1>0, PoppedIs DEF InSlot, Slot
<1>2. /\ Popped(Popped(r)) \in Machine /\ Popped(Popped(r)).sp = Wrap8(frame.sp + 0)
      /\ Popped(Popped(r)).mem = Popped(r).mem
      /\ Top(Popped(r)) = InSlot(Popped(r), frame, 0)
  BY <1>0, <1>1, PoppedIs DEF InSlot, Slot
<1>3. InSlot(Popped(r), frame, 0) = InSlot(r, frame, 0)
  BY <1>1, SameMemory DEF InSlot
<1>4. Wrap8(frame.sp + 0) = frame.sp
  BY NeighboursApart
<1>5. QED
  BY <1>1, <1>2, <1>3, <1>4 DEF TopWord, WordIn

(* RTS at the end of the frame of a call.                                  *)
LEMMA ReturnIs ==
  ASSUME NEW r \in Machine, NEW frame, frame.sp \in Byte,
         frame.kind = "call", r.sp = End(frame)
  PROVE  LET s == ReturnFromSubroutine(r)
         IN  /\ s \in Machine /\ s.sp = frame.sp /\ s.mem = r.mem
             /\ s.pc = Wrap16(WordIn(r, frame) + 1)
<1> DEFINE t == Popped(Popped(r))
           target == Wrap16(WordIn(r, frame) + 1)
<1>1. End(frame) = Wrap8(frame.sp + 2)
  BY DEF End, Size
<1>2. /\ t \in Machine /\ t.sp = frame.sp /\ t.mem = r.mem
      /\ TopWord(r) = WordIn(r, frame)
  BY <1>1, PulledWord
<1>3. ReturnFromSubroutine(r) = [t EXCEPT !.pc = target] /\ ReturnFromSubroutine(r) \in Machine
  BY <1>2, ReturnType DEF ReturnFromSubroutine, Jump
<1> HIDE DEF t, target
<1>4. LET s == [t EXCEPT !.pc = target] IN s.sp = t.sp /\ s.mem = t.mem /\ s.pc = target
  BY <1>2 DEF Machine
<1>5. QED
  BY <1>2, <1>3, <1>4 DEF target

(* One pull at the end of the frame of PHA or PHP.                         *)
LEMMA PulledByte ==
  ASSUME NEW r \in Machine, NEW frame, frame.sp \in Byte,
         frame.kind \in {"accumulator", "status"}, r.sp = End(frame)
  PROVE  /\ Popped(r) \in Machine /\ Popped(r).sp = frame.sp
         /\ Popped(r).mem = r.mem
         /\ Top(r) = InSlot(r, frame, 0)
<1>1. End(frame) = Wrap8(frame.sp + 1)
  BY DEF End, Size
<1>2. frame.sp \in Int /\ frame.sp + 0 + 1 = frame.sp + 1
  BY ByteIs
<1>3. /\ Popped(r) \in Machine /\ Popped(r).sp = Wrap8(frame.sp + 0)
      /\ Popped(r).mem = r.mem /\ Top(r) = InSlot(r, frame, 0)
  BY <1>1, <1>2, PoppedIs DEF InSlot, Slot
<1>4. QED
  BY <1>3, NeighboursApart

(* RTI at the end of the frame of an interrupt.                            *)
LEMMA ReturnFromInterruptIs ==
  ASSUME NEW r \in Machine, NEW frame, frame.sp \in Byte,
         frame.kind = "interrupt", r.sp = End(frame)
  PROVE  LET s == ReturnFromInterrupt(r)
         IN  /\ s \in Machine /\ s.sp = frame.sp /\ s.mem = r.mem
             /\ s.pc = WordIn(r, frame)
             /\ s.p = (Bits(InSlot(r, frame, 2)) \ {Break}) \cup {UNK}
<1> DEFINE pulled == PullStatus(r)
           q == [pulled EXCEPT !.p = (@ \ {Break}) \cup {UNK}]
           t == Popped(Popped(q))
           s == ReturnFromInterrupt(r)
<1>1. End(frame) = Wrap8(frame.sp + 3)
  BY DEF End, Size
<1>2. frame.sp \in Int /\ frame.sp + 2 + 1 = frame.sp + 3
  BY ByteIs
<1>3. /\ Popped(r) \in Machine /\ Popped(r).sp = Wrap8(frame.sp + 2)
      /\ Popped(r).mem = r.mem /\ Top(r) = InSlot(r, frame, 2)
  BY <1>1, <1>2, PoppedIs DEF InSlot, Slot
<1>4. pulled \in Machine /\ pulled = [Popped(r) EXCEPT !.p = Bits(InSlot(r, frame, 2))]
  BY <1>3, PullStatusType DEF PullStatus, Follows
<1>5. s \in Machine /\ s = Jump(t, TopWord(q))
  BY ReturnFromInterruptType DEF ReturnFromInterrupt
<1> HIDE DEF pulled, s
<1>6. /\ pulled.sp = Popped(r).sp /\ pulled.mem = Popped(r).mem
      /\ pulled.p = Bits(InSlot(r, frame, 2))
  BY <1>3, <1>4 DEF Machine
<1>7. /\ q \in Machine /\ q.sp = pulled.sp /\ q.mem = pulled.mem
      /\ q.p = (pulled.p \ {Break}) \cup {UNK}
  BY <1>4, FlagNumbers DEF Machine
<1> HIDE DEF q
<1>8. /\ t \in Machine /\ t.sp = frame.sp /\ t.mem = q.mem
      /\ TopWord(q) = WordIn(q, frame)
  BY <1>3, <1>6, <1>7, PulledWord
<1>9. t.p = q.p
  BY <1>7, PoppedStatus
<1> HIDE DEF t
<1>10. WordIn(q, frame) = WordIn(r, frame)
  BY <1>3, <1>6, <1>7, SameMemory DEF WordIn, InSlot
<1>11. \A target : LET j == Jump(t, target)
                   IN j.sp = t.sp /\ j.mem = t.mem /\ j.pc = target /\ j.p = t.p
  BY <1>8 DEF Machine, Jump
<1>12. s.sp = t.sp /\ s.mem = t.mem /\ s.pc = TopWord(q) /\ s.p = t.p
  BY <1>5, <1>11
<1>13. QED
  BY <1>3, <1>5, <1>6, <1>7, <1>8, <1>9, <1>10, <1>12 DEF s

(* JSR leaves the frame of its call.                                       *)
LEMMA CallIs ==
  ASSUME NEW r \in Machine, NEW frame, frame.sp = r.sp, frame.kind = "call",
         frame.saved.pc = Wrap16(r.pc + 2)
  PROVE  LET s == CallSubroutine(r)
         IN  /\ s \in Machine /\ s.sp = End(frame)
             /\ Touches(r, s, Slots(frame))
             /\ Slots(frame) \subseteq RAM /\ ~s.fault => Holds(s, frame)
<1> DEFINE w == Wrap16(r.pc + 1)
           pushed == PushWord(r, w)
           s == CallSubroutine(r)
<1>1. w \in Word /\ Wrap16(w + 1) = frame.saved.pc
  <2>1. r.pc + 1 \in Int /\ (r.pc + 1) + 1 = r.pc + 2
    BY WordIs DEF Machine
  <2>2. ASSUME NEW n \in Int PROVE Wrap16(Wrap16(n) + 1) = Wrap16(n + 1)
    BY WrapOn
  <2>3. QED
    BY <2>1, <2>2, WrapType
<1>2. Slots(frame) = {Slot(frame, 0), Slot(frame, 1)} /\ End(frame) = Wrap8(frame.sp + 2)
  BY SlotsAre DEF End, Size
<1> HIDE DEF w
<1>3. /\ pushed \in Machine /\ pushed.sp = End(frame)
      /\ Touches(r, pushed, Slots(frame))
      /\ Slots(frame) \subseteq RAM /\ ~pushed.fault =>
           InSlot(pushed, frame, 0) = Hi(w) /\ InSlot(pushed, frame, 1) = Lo(w)
  BY <1>1, <1>2, PushWordIs
<1>4. s \in Machine /\ s = [pushed EXCEPT !.pc = ReadWord(pushed, r.pc)]
  BY CallType DEF CallSubroutine, Jump, w
<1> HIDE DEF pushed, s
<1>5. s.sp = pushed.sp /\ s.mem = pushed.mem /\ s.fault = pushed.fault
  BY <1>3, <1>4 DEF Machine
<1>6. \A addr : Read(s, addr) = Read(pushed, addr)
  BY <1>5, SameMemory
<1>7. Touches(r, s, Slots(frame))
  BY <1>3, <1>6 DEF Touches
<1>8. ASSUME Slots(frame) \subseteq RAM, ~s.fault PROVE Holds(s, frame)
  <2>1. InSlot(s, frame, 0) = Hi(w) /\ InSlot(s, frame, 1) = Lo(w)
    BY <1>3, <1>5, <1>6, <1>8 DEF InSlot
  <2>2. WordIn(s, frame) = w
    BY <1>1, <2>1, JoinedHalves DEF WordIn
  <2>3. QED
    BY <1>1, <2>2 DEF Holds
<1>9. QED
  BY <1>3, <1>4, <1>5, <1>7, <1>8 DEF s

(* PHA and PHP leave a frame with their byte.                              *)
LEMMA PushedByte ==
  ASSUME NEW r \in Machine, NEW data \in Byte, NEW frame, frame.sp = r.sp,
         frame.kind \in {"accumulator", "status"}
  PROVE  LET s == Push(r, data)
         IN  /\ s \in Machine /\ s.sp = End(frame)
             /\ Touches(r, s, Slots(frame))
             /\ Slots(frame) \subseteq RAM /\ ~s.fault => InSlot(s, frame, 0) = data
<1>1. r.sp \in Byte
  BY DEF Machine
<1>2. Slot(frame, 0) = 256 + r.sp
  BY <1>1, NeighboursApart DEF Slot
<1>3. Slots(frame) = {256 + r.sp} /\ End(frame) = Wrap8(r.sp + 1)
  BY <1>2, SlotsAre DEF End, Size
<1>4. QED
  BY <1>2, <1>3, PushIs DEF InSlot

(* The handler of an interrupt stores where it says.                       *)
LEMMA HandleIs ==
  ASSUME NEW r \in Machine, NEW handler,
         \A addr \in DOMAIN handler : handler[addr] \in Byte, DOMAIN handler \cap ROM = {}
  PROVE  LET s == Handle(r, handler)
         IN  /\ s \in Machine /\ s.sp = r.sp /\ s.fault = r.fault
             /\ Touches(r, s, DOMAIN handler)
<1> DEFINE new == [addr \in DOMAIN r.mem |->
                     IF addr \in DOMAIN handler THEN handler[addr] ELSE r.mem[addr]]
           s == Handle(r, handler)
<1>1. CASE r.fault
  BY <1>1 DEF Handle, Touches
<1>2. CASE ~r.fault
  <2>1. new \in [RAM \cup ROM -> Byte] /\ DOMAIN r.mem = RAM \cup ROM
    BY DEF Machine
  <2>2. s = [r EXCEPT !.mem = new]
    BY <1>2 DEF Handle
  <2>3. ASSUME NEW addr, addr \notin RAM \cap DOMAIN handler, addr \in RAM \cup ROM
        PROVE  new[addr] = r.mem[addr]
    BY <2>1, <2>3
  <2> HIDE DEF new, s
  <2>4. s \in Machine /\ s.sp = r.sp /\ s.fault = r.fault /\ s.mem = new
    BY <2>1, <2>2 DEF Machine
  <2>5. ASSUME NEW addr, addr \notin RAM \cap DOMAIN handler PROVE Read(s, addr) = Read(r, addr)
    BY <2>1, <2>3, <2>4, <2>5 DEF Read
  <2>6. QED
    BY <2>4, <2>5 DEF Touches, s
<1>3. QED
  BY <1>1, <1>2

(* A handler that stores bytes, and none where a store panics; and the     *)
(* frame of an interrupt that comes upon a machine with such a status.     *)
StoresBytes(handler) ==
  (\A addr \in DOMAIN handler : handler[addr] \in Byte) /\ DOMAIN handler \cap ROM = {}

Cuts(frame, r, status) ==
  /\ frame.kind = "interrupt" /\ frame.sp = r.sp /\ frame.saved.pc = r.pc
  /\ frame.saved.p \ {Break} = status \ {Break}

(* An interrupt leaves its frame, if its handler does not store there.     *)
Entered(r, s, frame, handler) ==
  /\ s.sp = End(frame)
  /\ Touches(r, s, Slots(frame) \cup DOMAIN handler)
  /\ Slots(frame) \subseteq RAM \ DOMAIN handler /\ ~s.fault => Holds(s, frame)

LEMMA EnterIs ==
  ASSUME NEW r \in Machine, NEW status \in SUBSET Bit, NEW handler, NEW vector,
         StoresBytes(handler), NEW frame, Cuts(frame, r, status)
  PROVE  Entered(r, Enter(r, status, handler, vector), frame, handler)
<1> DEFINE one == Slot(frame, 0)
           two == Slot(frame, 1)
           three == Slot(frame, 2)
           word == PushWord(r, r.pc)
           pushed == Push(word, FromBits(status))
           handled == Handle(pushed, handler)
           s == Enter(r, status, handler, vector)
<1>1. /\ r.pc \in Word /\ r.sp \in Byte /\ r.sp \in Int /\ FromBits(status) \in Byte
      /\ Lo(r.pc) \in Byte
      /\ frame.kind = "interrupt" /\ frame.sp = r.sp /\ frame.saved.pc = r.pc
      /\ frame.saved.p \ {Break} = status \ {Break}
  BY FromBitsType, HalvesType, ByteIs DEF Machine, Cuts
<1>2. Slots(frame) = {one, two, three} /\ End(frame) = Wrap8(r.sp + 3)
  BY <1>1, SlotsAre DEF End, Size
<1>3. three # one /\ three # two
  <2>1. /\ Wrap8(r.sp + 0) = r.sp /\ Wrap8(r.sp + 1) \in Int /\ Wrap8(r.sp + 2) \in Int
        /\ Wrap8(r.sp + 2) # r.sp /\ Wrap8(r.sp + 2) # Wrap8(r.sp + 1)
    BY <1>1, NeighboursApart, ByteIs
  <2>2. QED
    BY <1>1, <2>1 DEF Slot
<1>4. /\ word \in Machine /\ word.sp = Wrap8(r.sp + 2) /\ Touches(r, word, {one, two})
      /\ one \in RAM /\ two \in RAM /\ ~word.fault =>
           Read(word, one) = Hi(r.pc) /\ Read(word, two) = Lo(r.pc)
  BY <1>1, PushWordIs DEF InSlot
<1>5. three = 256 + word.sp
  BY <1>1, <1>4 DEF Slot
<1> HIDE DEF one, two, three, word
<1>6. /\ pushed \in Machine /\ pushed.sp = Wrap8(word.sp + 1)
      /\ Touches(word, pushed, {three})
      /\ three \in RAM /\ ~pushed.fault => Read(pushed, three) = FromBits(status)
      /\ word.fault => pushed.fault
  <2>1. word.fault => pushed.fault
    BY <1>1, <1>4, FaultStays
  <2>2. QED
    BY <1>1, <1>4, <1>5, <2>1, PushIs
<1>7. pushed.sp = End(frame)
  <2>1. r.sp + 2 \in Int /\ (r.sp + 2) + 1 = r.sp + 3
    BY <1>1
  <2>2. ASSUME NEW n \in Int PROVE Wrap8(Wrap8(n) + 1) = Wrap8(n + 1)
    BY WrapOn
  <2>3. QED
    BY <1>2, <1>4, <1>6, <2>1, <2>2
<1> HIDE DEF pushed
<1>8. /\ handled \in Machine /\ handled.sp = pushed.sp /\ handled.fault = pushed.fault
      /\ Touches(pushed, handled, DOMAIN handler)
  BY <1>6, HandleIs DEF StoresBytes
<1>9. s \in Machine
  BY EnterType DEF StoresBytes
<1>10. s = [handled EXCEPT !.pc = ReadWord(handled, vector), !.p = @ \cup {Interrupt}]
  BY DEF Enter, pushed, word
<1> HIDE DEF handled, s
<1>11. s.sp = handled.sp /\ s.mem = handled.mem /\ s.fault = handled.fault
  BY <1>8, <1>10 DEF Machine
<1>12. \A addr : Read(s, addr) = Read(handled, addr)
  BY <1>11, SameMemory
<1>13. Touches(r, s, Slots(frame) \cup DOMAIN handler)
  BY <1>2, <1>4, <1>6, <1>8, <1>12 DEF Touches
<1>14. ASSUME Slots(frame) \subseteq RAM \ DOMAIN handler, ~s.fault PROVE Holds(s, frame)
  <2>1. /\ Read(pushed, one) = Hi(r.pc) /\ Read(pushed, two) = Lo(r.pc)
        /\ Read(pushed, three) = FromBits(status)
    BY <1>2, <1>3, <1>4, <1>6, <1>8, <1>11, <1>14 DEF Touches
  <2>2. /\ Read(s, one) = Hi(r.pc) /\ Read(s, two) = Lo(r.pc)
        /\ Read(s, three) = FromBits(status)
    BY <1>2, <1>8, <1>12, <1>14, <2>1 DEF Touches
  <2>3. /\ InSlot(s, frame, 0) = Hi(r.pc) /\ InSlot(s, frame, 1) = Lo(r.pc)
        /\ InSlot(s, frame, 2) = FromBits(status)
    BY <2>2 DEF InSlot, one, two, three
  <2>4. WordIn(s, frame) = r.pc
    BY <1>1, <2>3, JoinedHalves DEF WordIn
  <2>5. Bits(InSlot(s, frame, 2)) = status
    BY <2>3, StatusBack
  <2>6. QED
    BY <1>1, <2>4, <2>5, InterruptHolds
<1>15. QED
  BY <1>7, <1>8, <1>9, <1>11, <1>13, <1>14 DEF s, Entered

(* The jumps and the branches leave memory and stack.                      *)
LEMMA JumpLeft ==
  ASSUME NEW r \in Machine
  PROVE  /\ \A target \in Word : Leaves(r, Jump(r, target), {})
         /\ Leaves(r, JumpIndirect(r), {})
         /\ \A taken : Leaves(r, Branch(r, taken), {})
<1>1. \A target : Jump(r, target).sp = r.sp /\ Jump(r, target).mem = r.mem
  BY DEF Jump, Machine
<1>2. \A target : Jump(r, target) \in Machine => Leaves(r, Jump(r, target), {})
  BY <1>1, SameMemory DEF Leaves
<1>3. \A target \in Word : Jump(r, target) \in Machine
  BY JumpType
<1>4. Leaves(r, JumpIndirect(r), {})
  BY <1>2, JumpIndirectType DEF JumpIndirect
<1>5. ASSUME NEW taken PROVE Leaves(r, Branch(r, taken), {})
  <2>1. Leaves(r, r, {})
    BY SameMemory DEF Leaves
  <2>2. Branch(r, taken) \in Machine
    BY BranchType
  <2>3. QED
    BY <1>2, <2>1, <2>2 DEF Branch
<1>6. QED
  BY <1>2, <1>3, <1>4, <1>5

(* TXS and *LAS move the stack pointer and store nothing.                  *)
LEMMA StackMoved ==
  ASSUME NEW r \in Machine, NEW mode, NEW v \in Byte
  PROVE  /\ Touches(r, [r EXCEPT !.sp = v], {}) /\ [r EXCEPT !.sp = v] \in Machine
         /\ Touches(r, Las(r, mode), {}) /\ Las(r, mode) \in Machine
<1>1. [r EXCEPT !.sp = v] \in Machine /\ [r EXCEPT !.sp = v].mem = r.mem
  BY DEF Machine
<1>2. Touches(r, [r EXCEPT !.sp = v], {})
  BY <1>1, SameMemory
<1> DEFINE data == And(Operand(r, mode), r.sp)
           q == [r EXCEPT !.a = data, !.x = data, !.sp = data]
<1>3. data \in Byte
  BY LogicType
<1> HIDE DEF data
<1>4. q \in Machine /\ q.mem = r.mem
  BY <1>3 DEF Machine
<1> HIDE DEF q
<1>5. Beside(q, UpdateZeroNegative(q, data))
  BY <1>4, UpdateBeside
<1>6. Las(r, mode) = UpdateZeroNegative(q, data)
  BY DEF Las, q, data
<1>7. Las(r, mode) \in Machine /\ Las(r, mode).mem = r.mem
  BY <1>4, <1>5, <1>6 DEF Beside
<1>8. QED
  BY <1>1, <1>2, <1>7, SameMemory

----------------------------------------------------------------------------
(* What every step does to memory and to the stack.                        *)

Changes ==
  \A addr : Read(m', addr) # Read(m, addr) =>
    addr \in RAM /\ (phase' = "panicked" \/ addr \in Stored \cup PushedSlots)

Still == ~Serves /\ ~Executes(StackOps) => m'.sp = m.sp

(* A push leaves the stack pointer after the frame, and the frame, unless  *)
(* the step stores into it, with what it was pushed for.                   *)
Leaving(frame) ==
  /\ m'.sp = End(frame)
  /\ Slots(frame) \subseteq RAM \ Stored => Holds(m', frame)

Pushing ==
  /\ Enters => Leaving(InterruptFrame)
  /\ Executes({"JSR"}) => Leaving(CallFrame)
  /\ Executes({"PHA"}) => Leaving(ByteFrame("accumulator"))
  /\ Executes({"PHP"}) => Leaving(ByteFrame("status"))

(* A pull at the end of a frame of its kind takes what is in it, and       *)
(* leaves the stack pointer at its start.                                  *)
Taking(frame) ==
  /\ Executes({"RTS"}) /\ frame.kind = "call" =>
       m'.sp = frame.sp /\ m'.pc = Wrap16(WordIn(m, frame) + 1)
  /\ Executes({"RTI"}) /\ frame.kind = "interrupt" =>
       /\ m'.sp = frame.sp /\ m'.pc = WordIn(m, frame)
       /\ m'.p = (Bits(InSlot(m, frame, 2)) \ {Break}) \cup {UNK}
  /\ Executes({"PLA"}) /\ frame.kind = "accumulator" =>
       m'.sp = frame.sp /\ m'.a = InSlot(m, frame, 0)
  /\ Executes({"PLP"}) /\ frame.kind = "status" =>
       m'.sp = frame.sp /\ m'.p = Bits(InSlot(m, frame, 0))

Pulling == \A frame : frame.sp \in Byte /\ m.sp = End(frame) => Taking(frame)

Effect == Changes /\ Still /\ Pushing /\ Pulling

(* A step that is no instruction, serves nothing and leaves memory and     *)
(* stack pointer.                                                          *)
LEMMA NoEffect ==
  ASSUME ~Serves, ~Instruction, m'.sp = m.sp, Touches(m, m', {}) PROVE Effect
BY DEF Effect, Changes, Still, Pushing, Pulling, Taking, Touches, Executes, Enters

(* The fetch leaves all but the counter.                                   *)
LEMMA FetchedSame ==
  ASSUME TypeOK
  PROVE  /\ Fetched \in Machine /\ Fetched.sp = m.sp /\ Fetched.mem = m.mem
         /\ Fetched.p = m.p /\ Fetched.pc = Wrap16(m.pc + 1)
         /\ \A addr : Read(Fetched, addr) = Read(m, addr)
<1>1. m \in Machine
  BY DEF TypeOK
<1>2. Fetched \in Machine /\ Fetched.mem = m.mem
  BY <1>1, FetchedType
<1>3. Fetched.sp = m.sp /\ Fetched.p = m.p /\ Fetched.pc = Wrap16(m.pc + 1)
  BY <1>1 DEF Fetched, Jump, Machine
<1>4. QED
  BY <1>2, <1>3, SameMemory

(* The end of an iteration: a panic that keeps the registers, or what the  *)
(* handler left.                                                           *)
LEMMA DoesEnds ==
  ASSUME TypeOK, Loop!Fetching, NEW name, NEW result \in Machine, NEW extra,
         Does(name, result, extra)
  PROVE  /\ Op.mnemonic = name /\ ~Serves /\ m'.mem = result.mem
         /\ \/ phase' = "panicked" /\ ~Instruction /\ m'.sp = m.sp
            \/ /\ Instruction /\ ~result.fault
               /\ m'.sp = result.sp /\ m'.a = result.a /\ m'.p = result.p
               /\ m'.pc = IF m' # result /\ result.pc = Fetched.pc
                            THEN Wrap16(m.pc + Op.len) ELSE result.pc
<1>1. m \in Machine /\ Finish(result, Op.cycles + extra) /\ Op.mnemonic = name
  BY DEF TypeOK, Does
<1>2. interrupt = NoInterrupt /\ phase = "running"
  BY PendingType DEF Loop!Fetching, Loop!External
<1>3. ~Serves
  BY <1>2 DEF Serves
<1>4. CASE Unwind(result.mem)
  <2>1. m'.mem = result.mem /\ m'.sp = m.sp /\ phase' = "panicked"
    BY <1>1, <1>4 DEF Unwind, Machine
  <2>2. QED
    BY <1>1, <1>3, <2>1 DEF Instruction
<1>5. CASE Retire(result, Op.cycles + extra) /\ ~result.fault
  <2>1. Instruction
    BY <1>2, <1>5 DEF Retire, Instruction
  <2>2. ASSUME NEW w
        PROVE  LET j == Jump(result, w)
               IN  /\ j.sp = result.sp /\ j.a = result.a /\ j.p = result.p
                   /\ j.mem = result.mem /\ j.pc = w
    BY DEF Machine, Jump
  <2>3. m' = result \/ (result.pc = Fetched.pc /\ m' = Jump(result, Wrap16(m.pc + Op.len)))
    BY <1>5 DEF Retire, Advance
  <2>4. QED
    BY <1>1, <1>3, <1>5, <2>1, <2>2, <2>3
<1>6. QED
  BY <1>1, <1>4, <1>5 DEF Finish

(* Where an instruction stores and pushes, by its mnemonic.                *)
LEMMA StoredIs ==
  ASSUME ~Serves, Instruction
  PROVE  /\ Op.mnemonic \in Stores => Stored = {At}
         /\ Op.mnemonic \in Movers => Stored = {At} \ {0}
         /\ Op.mnemonic \in Unstable => Stored = {UnstableAddr(Fetched, Op.mode)}
         /\ Op.mnemonic \in {"JSR", "PHA", "PHP"} => Stored = {}
         /\ Op.mnemonic = "JSR" => PushedSlots = Slots(CallFrame)
         /\ Op.mnemonic \in {"PHA", "PHP"} => PushedSlots = Slots(ByteFrame("status"))
<1>1. ~Enters
  BY DEF Enters
<1>2. \A names : Executes(names) <=> Op.mnemonic \in names
  BY DEF Executes
<1>3. \A name : /\ ~(name \in Stores /\ name \in Movers)
                /\ ~(name \in Stores /\ name \in Unstable)
                /\ ~(name \in Movers /\ name \in Unstable)
                /\ name \in {"JSR", "PHA", "PHP"} => name \notin Stores \cup Movers \cup Unstable
  BY DEF Stores, Movers, Unstable
<1>4. CASE Op.mnemonic \in Stores
  <2>1. Stored = {At}
    BY <1>1, <1>2, <1>3, <1>4 DEF Stored
  <2>2. QED
    BY <1>3, <1>4, <2>1
<1>5. CASE Op.mnemonic \in Movers
  <2>1. Stored = {At} \ {0}
    BY <1>1, <1>2, <1>3, <1>5 DEF Stored
  <2>2. QED
    BY <1>3, <1>5, <2>1
<1>6. CASE Op.mnemonic \in Unstable
  <2>1. Stored = {UnstableAddr(Fetched, Op.mode)}
    BY <1>1, <1>2, <1>3, <1>6 DEF Stored
  <2>2. QED
    BY <1>3, <1>6, <2>1
<1>7. CASE Op.mnemonic \in {"JSR", "PHA", "PHP"}
  <2>1. Stored = {}
    BY <1>1, <1>2, <1>3, <1>7 DEF Stored
  <2>2. /\ Op.mnemonic = "JSR" => PushedSlots = Slots(CallFrame)
        /\ Op.mnemonic \in {"PHA", "PHP"} => PushedSlots = Slots(ByteFrame("status"))
    BY <1>1, <1>2 DEF PushedSlots
  <2>3. QED
    BY <1>3, <1>7, <2>1, <2>2
<1>8. QED
  BY <1>4, <1>5, <1>6, <1>7

(* A handler changes memory where its step is said to.                     *)
LEMMA DoesChanges ==
  ASSUME TypeOK, Loop!Fetching, NEW name, NEW result \in Machine, NEW extra,
         Does(name, result, extra), NEW where, Touches(Fetched, result, where),
         Instruction => where \subseteq Stored \cup PushedSlots
  PROVE  Changes
<1>1. \A addr : Read(m', addr) = Read(result, addr)
  BY DoesEnds, SameMemory
<1>2. \A addr : Read(m', addr) # Read(m, addr) => addr \in RAM \cap where
  BY <1>1, FetchedSame DEF Touches
<1>3. phase' = "panicked" \/ Instruction
  BY DoesEnds
<1>4. QED
  BY <1>2, <1>3 DEF Changes

(* The bytes an instruction may store to.                                  *)
Scope(name, where) ==
  \/ where = {}
  \/ name \in Stores /\ where = {At}
  \/ name \in Movers /\ where = {At} \ {0}
  \/ name \in Unstable /\ where = {UnstableAddr(Fetched, Op.mode)}

LEMMA ScopeStored ==
  ASSUME TypeOK, Loop!Fetching, NEW name, NEW result \in Machine, NEW extra,
         Does(name, result, extra), NEW where, Scope(name, where)
  PROVE  Instruction => where \subseteq Stored \cup PushedSlots
<1>1. Op.mnemonic = name /\ ~Serves
  BY DoesEnds
<1>2. ASSUME Instruction PROVE where \subseteq Stored
  BY <1>1, <1>2, StoredIs DEF Scope
<1>3. QED
  BY <1>2

(* An instruction that has nothing to do with the stack.                   *)
LEMMA DoesQuiet ==
  ASSUME TypeOK, Loop!Fetching, NEW name, NEW result, NEW extra,
         Does(name, result, extra), name \notin StackOps,
         NEW where, Leaves(Fetched, result, where), Scope(name, where)
  PROVE  Effect
<1>1. result \in Machine /\ Touches(Fetched, result, where) /\ result.sp = m.sp
  BY FetchedSame DEF Leaves
<1>2. Changes
  BY <1>1, ScopeStored, DoesChanges
<1>3. Op.mnemonic = name /\ ~Serves /\ m'.sp = m.sp
  BY <1>1, DoesEnds
<1>4. \A names : names \subseteq StackOps => ~Executes(names)
  BY <1>3 DEF Executes
<1>5. Still /\ Pushing /\ Pulling
  BY <1>3, <1>4 DEF Still, Pushing, Pulling, Taking, StackOps, Enters
<1>6. QED
  BY <1>2, <1>5 DEF Effect

(* One that moves the stack pointer elsewhere.                             *)
LEMMA DoesMove ==
  ASSUME TypeOK, Loop!Fetching, NEW name, NEW result \in Machine, NEW extra,
         Does(name, result, extra), name \in {"TXS", "*LAS", "*TAS"},
         NEW where, Touches(Fetched, result, where), Scope(name, where)
  PROVE  Effect
<1>1. Changes
  BY ScopeStored, DoesChanges
<1>2. Op.mnemonic = name /\ ~Serves
  BY DoesEnds
<1>3. /\ ~Executes({"JSR"}) /\ ~Executes({"PHA"}) /\ ~Executes({"PHP"})
      /\ ~Executes({"RTS"}) /\ ~Executes({"RTI"}) /\ ~Executes({"PLA"}) /\ ~Executes({"PLP"})
  BY <1>2 DEF Executes
<1>4. Still
  <2>1. CASE Instruction
    BY <1>2, <2>1 DEF Still, Executes, StackOps
  <2>2. CASE ~Instruction
    BY <2>2, DoesEnds DEF Still
  <2>3. QED
    BY <2>1, <2>2
<1>5. Pushing /\ Pulling
  BY <1>2, <1>3 DEF Pushing, Pulling, Taking, Enters
<1>6. QED
  BY <1>1, <1>4, <1>5 DEF Effect

(* What the frames say.                                                    *)
LEMMA FramesAre ==
  /\ InterruptFrame.kind = "interrupt" /\ InterruptFrame.sp = m.sp
  /\ InterruptFrame.saved.pc = m.pc /\ InterruptFrame.saved.p = m.p
  /\ CallFrame.kind = "call" /\ CallFrame.sp = m.sp
  /\ CallFrame.saved.pc = Wrap16(m.pc + 3)
  /\ \A kind : /\ ByteFrame(kind).kind = kind /\ ByteFrame(kind).sp = m.sp
               /\ ByteFrame(kind).saved.a = m.a /\ ByteFrame(kind).saved.p = m.p
<1>1. Registers(m) = [a |-> m.a, x |-> m.x, y |-> m.y, p |-> m.p, pc |-> m.pc]
  BY DEF Registers
<1>2. [Registers(m) EXCEPT !.pc = Wrap16(Registers(m).pc + 3)].pc = Wrap16(m.pc + 3)
  BY <1>1
<1> DEFINE call == [Registers(m) EXCEPT !.pc = Wrap16(@ + 3)]
<1>3. call.pc = Wrap16(m.pc + 3)
  BY <1>2
<1> HIDE DEF call
<1>4. CallFrame = Frame("call", call)
  BY DEF CallFrame, call
<1>5. /\ CallFrame.kind = "call" /\ CallFrame.sp = m.sp
      /\ CallFrame.saved.pc = Wrap16(m.pc + 3)
  BY <1>3, <1>4 DEF Frame
<1>6. QED
  BY <1>1, <1>5 DEF InterruptFrame, ByteFrame, Frame

(* An instruction is none of the others.                                   *)
LEMMA OneMnemonic ==
  ASSUME NEW name \in {"JSR", "PHA", "PHP", "RTS", "RTI", "PLA", "PLP"},
         Op.mnemonic = name, ~Serves
  PROVE  /\ ~Enters
         /\ Executes(StackOps) <=> Instruction
         /\ \A other \in {"JSR", "PHA", "PHP", "RTS", "RTI", "PLA", "PLP"} :
              Executes({other}) <=> Instruction /\ other = name
<1>1. ~Enters
  BY DEF Enters
<1>2. name \in StackOps
  BY DEF StackOps
<1>3. QED
  BY <1>1, <1>2 DEF Executes

LEMMA CallEffect == ASSUME TypeOK, Loop!Fetching, JSR PROVE Effect
<1> DEFINE s == CallSubroutine(Fetched)
<1>1. Does("JSR", s, 0)
  BY DEF JSR
<1>2. m.pc \in Int /\ m.pc + 1 \in Int /\ (m.pc + 1) + 2 = m.pc + 3
  BY WordIs DEF TypeOK, Machine
<1>3. ASSUME NEW n \in Int PROVE Wrap16(Wrap16(n) + 2) = Wrap16(n + 2)
  BY WrapOn
<1>4. Wrap16(Fetched.pc + 2) = Wrap16(m.pc + 3)
  BY <1>2, <1>3, FetchedSame
<1>5. /\ s \in Machine /\ s.sp = End(CallFrame)
      /\ Touches(Fetched, s, Slots(CallFrame))
      /\ Slots(CallFrame) \subseteq RAM /\ ~s.fault => Holds(s, CallFrame)
  BY <1>4, FetchedSame, FramesAre, CallIs
<1> HIDE DEF s
<1>6. /\ Op.mnemonic = "JSR" /\ ~Serves /\ m'.mem = s.mem
      /\ Instruction => ~s.fault /\ m'.sp = s.sp
      /\ ~Instruction => m'.sp = m.sp
  BY <1>1, <1>5, DoesEnds
<1>7. Instruction => Stored = {} /\ PushedSlots = Slots(CallFrame)
  BY <1>6, StoredIs
<1>8. Changes
  BY <1>1, <1>5, <1>7, DoesChanges
<1>9. Instruction => Leaving(CallFrame)
  <2>1. \A addr : Read(m', addr) = Read(s, addr)
    BY <1>6, SameMemory
  <2>2. CallFrame.kind \in Kinds
    BY FramesAre DEF Kinds
  <2>3. QED
    BY <1>5, <1>6, <1>7, <2>1, <2>2, HoldsOn DEF Leaving
<1>10. Still /\ Pushing /\ Pulling
  BY <1>6, <1>9, OneMnemonic DEF Still, Pushing, Pulling, Taking
<1>11. QED
  BY <1>8, <1>10 DEF Effect

LEMMA PushEffect == ASSUME TypeOK, Loop!Fetching, PHA \/ PHP PROVE Effect
<1>0. m.a \in Byte /\ FromBits(m.p) \in Byte /\ m.p \in SUBSET Bit
  BY FromBitsType DEF TypeOK, Machine
<1>1. ASSUME NEW name \in {"PHA", "PHP"}, NEW data \in Byte, Does(name, Push(Fetched, data), 0),
             NEW kind \in {"accumulator", "status"}
      PROVE  /\ Changes /\ Still /\ Op.mnemonic = name /\ ~Serves
             /\ Instruction =>
                  /\ m'.sp = End(ByteFrame(kind))
                  /\ Slots(ByteFrame(kind)) \subseteq RAM => InSlot(m', ByteFrame(kind), 0) = data
  <2> DEFINE s == Push(Fetched, data)
             f == ByteFrame(kind)
  <2>1. f.kind = kind /\ f.sp = Fetched.sp
    BY FramesAre, FetchedSame
  <2>2. Slots(f) = Slots(ByteFrame("status"))
    <3>1. \A i : Slot(f, i) = Slot(ByteFrame("status"), i)
      BY FramesAre DEF Slot
    <3>2. QED
      BY <2>1, <3>1, FramesAre, SlotsAre
  <2> HIDE DEF f
  <2>3. /\ s \in Machine /\ s.sp = End(f)
        /\ Touches(Fetched, s, Slots(f))
        /\ Slots(f) \subseteq RAM /\ ~s.fault => InSlot(s, f, 0) = data
    BY <2>1, FetchedSame, PushedByte
  <2> HIDE DEF s
  <2>4. /\ Op.mnemonic = name /\ ~Serves /\ m'.mem = s.mem
        /\ Instruction => ~s.fault /\ m'.sp = s.sp
        /\ ~Instruction => m'.sp = m.sp
    BY <1>1, <2>3, DoesEnds DEF s
  <2>5. Instruction => PushedSlots = Slots(f)
    BY <2>2, <2>4, StoredIs
  <2>6. Changes
    BY <1>1, <2>3, <2>5, DoesChanges DEF s
  <2>7. Still
    BY <2>4, OneMnemonic DEF Still
  <2>8. \A addr : Read(m', addr) = Read(s, addr)
    BY <2>4, SameMemory
  <2>9. QED
    BY <2>3, <2>4, <2>6, <2>7, <2>8 DEF InSlot, f
<1>2. CASE PHA
  <2> DEFINE f == ByteFrame("accumulator")
  <2>1. Does("PHA", Push(Fetched, m.a), 0)
    BY <1>2 DEF PHA
  <2>2. /\ Changes /\ Still /\ Op.mnemonic = "PHA" /\ ~Serves
        /\ Instruction => m'.sp = End(f) /\ (Slots(f) \subseteq RAM => InSlot(m', f, 0) = m.a)
    BY <1>0, <1>1, <2>1
  <2>3. f.kind = "accumulator" /\ f.saved.a = m.a
    BY FramesAre
  <2> HIDE DEF f
  <2>4. Instruction => Leaving(f)
    BY <2>2, <2>3 DEF Leaving, Holds
  <2>5. Pushing /\ Pulling
    BY <2>2, <2>4, OneMnemonic DEF Pushing, Pulling, Taking, f
  <2>6. QED
    BY <2>2, <2>5 DEF Effect
<1>3. CASE PHP
  <2> DEFINE f == ByteFrame("status")
  <2>1. Does("PHP", Push(Fetched, FromBits(m.p)), 0)
    BY <1>3 DEF PHP
  <2>2. /\ Changes /\ Still /\ Op.mnemonic = "PHP" /\ ~Serves
        /\ Instruction => /\ m'.sp = End(f)
                          /\ Slots(f) \subseteq RAM => InSlot(m', f, 0) = FromBits(m.p)
    BY <1>0, <1>1, <2>1
  <2>3. f.kind = "status" /\ f.saved.p = m.p /\ Bits(FromBits(m.p)) = m.p
    BY <1>0, FramesAre, StatusBack
  <2> HIDE DEF f
  <2>4. Instruction => Leaving(f)
    BY <2>2, <2>3 DEF Leaving, Holds
  <2>5. Pushing /\ Pulling
    BY <2>2, <2>4, OneMnemonic DEF Pushing, Pulling, Taking, f
  <2>6. QED
    BY <2>2, <2>5 DEF Effect
<1>4. QED
  BY <1>2, <1>3

(* A pull stores nothing.                                                  *)
LEMMA PulledSame ==
  ASSUME NEW r \in Machine
  PROVE  /\ Popped(r) \in Machine /\ Popped(r).mem = r.mem
         /\ PullStatus(r) \in Machine /\ PullStatus(r).mem = r.mem
         /\ ReturnFromSubroutine(r) \in Machine /\ ReturnFromSubroutine(r).mem = r.mem
         /\ ReturnFromInterrupt(r) \in Machine /\ ReturnFromInterrupt(r).mem = r.mem
<1>1. ASSUME NEW q \in Machine PROVE Popped(q) \in Machine /\ Popped(q).mem = q.mem
  BY <1>1, PullType DEF Popped, Machine
<1>2. ASSUME NEW q \in Machine, NEW target PROVE Jump(q, target).mem = q.mem
  BY <1>2 DEF Jump, Machine
<1>3. ASSUME NEW q \in Machine, NEW S PROVE [q EXCEPT !.p = S].mem = q.mem
  BY <1>3 DEF Machine
<1>4. PullStatus(r) \in Machine /\ PullStatus(r).mem = r.mem
  BY <1>1, <1>3, PullStatusType DEF PullStatus, Follows
<1>5. ReturnFromSubroutine(r) \in Machine /\ ReturnFromSubroutine(r).mem = r.mem
  BY <1>1, <1>2, ReturnType DEF ReturnFromSubroutine
<1>6. ReturnFromInterrupt(r) \in Machine /\ ReturnFromInterrupt(r).mem = r.mem
  <2> DEFINE pulled == PullStatus(r)
             status == [pulled EXCEPT !.p = (@ \ {Break}) \cup {UNK}]
  <2>1. ReturnFromInterrupt(r) = Jump(Popped(Popped(status)), TopWord(status))
    BY DEF ReturnFromInterrupt
  <2>2. pulled \in Machine /\ pulled.mem = r.mem
    BY <1>4
  <2> HIDE DEF pulled
  <2>3. status \in Machine /\ status.mem = pulled.mem
    BY <2>2, FlagNumbers DEF Machine
  <2> HIDE DEF status
  <2>4. Popped(Popped(status)) \in Machine /\ Popped(Popped(status)).mem = status.mem
    BY <1>1, <2>3
  <2>5. QED
    BY <1>2, <2>1, <2>2, <2>3, <2>4, ReturnFromInterruptType
<1>7. QED
  BY <1>1, <1>4, <1>5, <1>6

(* What is in a frame is in it after the fetch.                            *)
LEMMA FetchedFrame ==
  ASSUME TypeOK, NEW frame
  PROVE  /\ \A i : InSlot(Fetched, frame, i) = InSlot(m, frame, i)
         /\ WordIn(Fetched, frame) = WordIn(m, frame)
BY FetchedSame DEF InSlot, WordIn

LEMMA PullEffect ==
  ASSUME TypeOK, Loop!Fetching, NEW name \in {"RTS", "RTI", "PLA", "PLP"},
         NEW result \in Machine, Does(name, result, 0), result.mem = Fetched.mem,
         Instruction => Pulling
  PROVE  Effect
<1>1. Touches(Fetched, result, {})
  BY SameMemory
<1>2. Changes
  BY <1>1, DoesChanges
<1>3. /\ Op.mnemonic = name /\ ~Serves
      /\ ~Instruction => m'.sp = m.sp
  BY DoesEnds
<1>4. Still /\ Pushing
  BY <1>3, OneMnemonic DEF Still, Pushing
<1>5. Pulling
  BY <1>3 DEF Pulling, Taking, Executes
<1>6. QED
  BY <1>2, <1>4, <1>5 DEF Effect

LEMMA ReturnEffect == ASSUME TypeOK, Loop!Fetching, RTS PROVE Effect
<1> DEFINE s == ReturnFromSubroutine(Fetched)
<1>1. Does("RTS", s, 0) /\ s \in Machine /\ s.mem = Fetched.mem
  BY FetchedSame, PulledSame DEF RTS
<1>2. ASSUME NEW frame, frame.sp \in Byte, m.sp = End(frame), frame.kind = "call"
      PROVE  s.sp = frame.sp /\ s.pc = Wrap16(WordIn(m, frame) + 1)
  BY <1>2, FetchedSame, FetchedFrame, ReturnIs
<1> HIDE DEF s
<1>3. Op.mnemonic = "RTS" /\ ~Serves
  BY <1>1, DoesEnds
<1>4. Instruction => m'.sp = s.sp /\ m'.pc = s.pc
  <2>1. Op.len = 1
    <3>1. Read(m, m.pc) \in Byte
      BY ReadType DEF TypeOK
    <3>2. QED
      BY <1>3, <3>1, RowAssumption DEF Op
  <2>2. QED
    BY <1>1, <2>1, FetchedSame, DoesEnds
<1>5. Instruction => Pulling
  BY <1>2, <1>3, <1>4, OneMnemonic DEF Pulling, Taking
<1>6. QED
  BY <1>1, <1>5, PullEffect

LEMMA InterruptReturnEffect == ASSUME TypeOK, Loop!Fetching, RTI PROVE Effect
<1> DEFINE s == ReturnFromInterrupt(Fetched)
<1>1. Does("RTI", s, 0) /\ s \in Machine /\ s.mem = Fetched.mem
  BY FetchedSame, PulledSame DEF RTI
<1>2. ASSUME NEW frame, frame.sp \in Byte, m.sp = End(frame), frame.kind = "interrupt"
      PROVE  /\ s.sp = frame.sp /\ s.pc = WordIn(m, frame)
             /\ s.p = (Bits(InSlot(m, frame, 2)) \ {Break}) \cup {UNK}
  <2>1. WordIn(Fetched, frame) = WordIn(m, frame) /\ InSlot(Fetched, frame, 2) = InSlot(m, frame, 2)
    BY FetchedFrame
  <2>2. Fetched \in Machine /\ Fetched.sp = End(frame)
    BY <1>2, FetchedSame
  <2>3. /\ s.sp = frame.sp /\ s.pc = WordIn(Fetched, frame)
        /\ s.p = (Bits(InSlot(Fetched, frame, 2)) \ {Break}) \cup {UNK}
    BY <1>2, <2>2, ReturnFromInterruptIs
  <2> HIDE DEF s
  <2>4. QED
    BY <2>1, <2>3
<1> HIDE DEF s
<1>3. Op.mnemonic = "RTI" /\ ~Serves
  BY <1>1, DoesEnds
<1>4. Instruction => m'.sp = s.sp /\ m'.pc = s.pc /\ m'.p = s.p
  <2>1. Op.len = 1
    <3>1. Read(m, m.pc) \in Byte
      BY ReadType DEF TypeOK
    <3>2. QED
      BY <1>3, <3>1, RowAssumption DEF Op
  <2>2. QED
    BY <1>1, <2>1, FetchedSame, DoesEnds
<1>5. Instruction => Pulling
  <2> SUFFICES ASSUME Instruction, NEW frame, frame.sp \in Byte, m.sp = End(frame)
               PROVE  Taking(frame)
    BY DEF Pulling
  <2>1. Executes({"RTI"}) /\ ~Executes({"RTS"}) /\ ~Executes({"PLA"}) /\ ~Executes({"PLP"})
    BY <1>3, OneMnemonic
  <2>2. frame.kind = "interrupt" => m'.p = (Bits(InSlot(m, frame, 2)) \ {Break}) \cup {UNK}
    BY <1>2, <1>4
  <2>3. frame.kind = "interrupt" => m'.sp = frame.sp /\ m'.pc = WordIn(m, frame)
    BY <1>2, <1>4
  <2>4. QED
    BY <2>1, <2>2, <2>3 DEF Taking
<1>6. QED
  BY <1>1, <1>5, PullEffect

LEMMA PullByteEffect == ASSUME TypeOK, Loop!Fetching, PLA \/ PLP PROVE Effect
<1> DEFINE t == Popped(Fetched)
           loaded == LoadA(t, Top(Fetched))
           status == PullStatus(Fetched)
<1>0. Fetched \in Machine /\ t \in Machine /\ Top(Fetched) \in Byte /\ t.mem = Fetched.mem
  BY FetchedSame, PulledSame, PullType
<1>1. ASSUME NEW frame, frame.sp \in Byte, m.sp = End(frame),
             frame.kind \in {"accumulator", "status"}
      PROVE  t.sp = frame.sp /\ Top(Fetched) = InSlot(m, frame, 0)
  BY <1>1, FetchedSame, FetchedFrame, PulledByte
<1>2. loaded \in Machine /\ loaded.mem = Fetched.mem /\ loaded.sp = t.sp /\ loaded.a = Top(Fetched)
  <2> HIDE DEF t
  <2>1. QED
    BY <1>0, LoadABeside, LoadedA DEF Beside
<1>3. /\ status \in Machine /\ status.mem = Fetched.mem /\ status.sp = t.sp
      /\ status.p = Bits(Top(Fetched))
  <2>1. status \in Machine /\ status.mem = Fetched.mem
    BY <1>0, PulledSame
  <2>2. status = [t EXCEPT !.p = Bits(Top(Fetched))]
    BY DEF PullStatus
  <2> HIDE DEF t, status
  <2>3. QED
    BY <1>0, <2>1, <2>2 DEF Machine
<1> HIDE DEF t
<1>4. CASE PLA
  <2>1. Does("PLA", loaded, 0)
    BY <1>4 DEF PLA, t
  <2> HIDE DEF loaded
  <2>2. /\ Op.mnemonic = "PLA" /\ ~Serves
        /\ Instruction => m'.sp = t.sp /\ m'.a = Top(Fetched)
    BY <1>2, <2>1, DoesEnds
  <2>3. Instruction => Pulling
    BY <1>1, <2>2, OneMnemonic DEF Pulling, Taking
  <2>4. QED
    BY <1>2, <2>1, <2>3, PullEffect
<1>5. CASE PLP
  <2>1. Does("PLP", status, 0)
    BY <1>5 DEF PLP
  <2> HIDE DEF status
  <2>2. /\ Op.mnemonic = "PLP" /\ ~Serves
        /\ Instruction => m'.sp = t.sp /\ m'.p = Bits(Top(Fetched))
    BY <1>3, <2>1, DoesEnds
  <2>3. Instruction => Pulling
    <3> SUFFICES ASSUME Instruction, NEW frame, frame.sp \in Byte, m.sp = End(frame)
                 PROVE  Taking(frame)
      BY DEF Pulling
    <3>1. ~Executes({"RTI"}) /\ ~Executes({"RTS"}) /\ ~Executes({"PLA"})
      BY <2>2, OneMnemonic
    <3>2. frame.kind = "status" => m'.sp = frame.sp /\ m'.p = Bits(InSlot(m, frame, 0))
      BY <1>1, <2>2
    <3>3. QED
      BY <3>1, <3>2 DEF Taking
  <2>4. QED
    BY <1>3, <2>1, <2>3, PullEffect
<1>6. QED
  BY <1>4, <1>5

(* The official instructions.                                              *)
LEMMA OfficialEffect == ASSUME TypeOK, Loop!Fetching, Official PROVE Effect
<1>0. /\ Fetched \in Machine /\ Leaves(Fetched, Fetched, {}) /\ m \in Machine
      /\ Val \in Byte /\ m.a \in Byte /\ m.x \in Byte /\ m.y \in Byte /\ m.sp \in Byte
  BY OperandsType, SameMemory DEF Leaves, TypeOK
<1> DEFINE Plain(name, result, extra) == /\ Does(name, result, extra) /\ name \notin StackOps
                                         /\ Leaves(Fetched, result, {})
           Moving(name, result) == /\ Does(name, result, 0) /\ name \in Movers
                                   /\ Leaves(Fetched, result, {At} \ {0})
           Storing(name, result) == /\ Does(name, result, 0) /\ name \in Stores
                                    /\ Leaves(Fetched, result, {At})
<1>p. ASSUME NEW name, NEW result, NEW extra, Plain(name, result, extra) PROVE Effect
  BY <1>p, DoesQuiet DEF Scope
<1>m. ASSUME NEW name, NEW result, Moving(name, result) PROVE Effect
  <2>1. name \notin StackOps /\ Scope(name, {At} \ {0})
    BY <1>m DEF Scope, Movers, StackOps
  <2>2. QED
    BY <1>m, <2>1, DoesQuiet
<1>s. ASSUME NEW name, NEW result, Storing(name, result) PROVE Effect
  <2>1. name \notin StackOps /\ Scope(name, {At})
    BY <1>s DEF Scope, Stores, StackOps
  <2>2. QED
    BY <1>s, <2>1, DoesQuiet
<1>1. ASSUME BRK PROVE Effect
  <2>1. m' = Fetched /\ interrupt' = BrkRequest
    BY <1>1 DEF BRK
  <2>2. ~Serves /\ ~Instruction
    BY <2>1, PendingType DEF Serves, Instruction, Loop!Fetching, Loop!External, BrkRequest,
                             NoInterrupt
  <2>3. m'.sp = m.sp /\ Touches(m, m', {})
    BY <2>1, FetchedSame, SameMemory
  <2>4. QED
    BY <2>2, <2>3, NoEffect
<1>2. ASSUME NOP PROVE Effect
  BY <1>0, <1>2, <1>p DEF NOP, StackOps
<1>3. ASSUME ADC \/ SBC PROVE Effect
  BY <1>0, <1>3, <1>p, SumLeft DEF ADC, SBC, StackOps
<1>4. ASSUME AND \/ EOR \/ ORA PROVE Effect
  BY <1>0, <1>4, <1>p, AndALeft DEF AND, EOR, ORA, StackOps
<1>5. ASSUME ASL \/ LSR \/ ROL \/ ROR PROVE Effect
  BY <1>0, <1>5, <1>m, ShiftLeft DEF ASL, LSR, ROL, ROR, Movers, At
<1>6. ASSUME INC \/ DEC PROVE Effect
  BY <1>0, <1>6, <1>s, StoreLeft DEF INC, DEC, Stores, At
<1>7. ASSUME INX \/ INY \/ DEX \/ DEY PROVE Effect
  <2>1. /\ Wrap8(m.x + 1) \in Byte /\ Wrap8(m.x - 1) \in Byte
        /\ Wrap8(m.y + 1) \in Byte /\ Wrap8(m.y - 1) \in Byte
    BY <1>0, ByteIs, WrapType
  <2>2. QED
    BY <1>0, <1>7, <1>p, <2>1, LoadLeft DEF INX, INY, DEX, DEY, StackOps
<1>8. ASSUME CMP \/ CPX \/ CPY \/ BIT PROVE Effect
  BY <1>0, <1>8, <1>p, TestLeft DEF CMP, CPX, CPY, BIT, StackOps
<1>9. ASSUME JMP PROVE Effect
  <2> DEFINE result == IF Read(m, m.pc) = \h4C THEN Jump(Fetched, ReadWord(m, Fetched.pc))
                                               ELSE JumpIndirect(Fetched)
  <2>1. Leaves(Fetched, result, {})
    BY <1>0, ReadWordType, JumpLeft
  <2>2. Does("JMP", result, 0)
    BY <1>9 DEF JMP
  <2> HIDE DEF result
  <2>3. QED
    BY <1>p, <2>1, <2>2 DEF StackOps
<1>10. ASSUME JSR PROVE Effect
  BY <1>10, CallEffect
<1>11. ASSUME RTS \/ RTI PROVE Effect
  BY <1>11, ReturnEffect, InterruptReturnEffect
<1>12. ASSUME NEW name, NEW taken, BranchIf(name, taken), name \notin StackOps PROVE Effect
  BY <1>0, <1>12, <1>p, JumpLeft DEF BranchIf
<1>13. ASSUME BCC \/ BCS \/ BNE \/ BEQ \/ BPL \/ BMI \/ BVC \/ BVS PROVE Effect
  BY <1>12, <1>13 DEF BCC, BCS, BNE, BEQ, BPL, BMI, BVC, BVS, StackOps
<1>14. ASSUME LDA \/ LDX \/ LDY PROVE Effect
  BY <1>0, <1>14, <1>p, LoadLeft DEF LDA, LDX, LDY, StackOps
<1>15. ASSUME STA \/ STX \/ STY PROVE Effect
  <2>1. ASSUME NEW data \in Byte PROVE Leaves(Fetched, Write(Fetched, At, data), {At})
    BY <1>0, <2>1, WriteTouches DEF Leaves
  <2>2. QED
    BY <1>0, <1>15, <1>s, <2>1 DEF STA, STX, STY, Stores
<1>16. ASSUME CLC \/ CLD \/ CLI \/ CLV \/ SEC \/ SED \/ SEI PROVE Effect
  BY <1>0, <1>16, <1>p, FlagLeft, FlagNumbers DEF CLC, CLD, CLI, CLV, SEC, SED, SEI, StackOps
<1>17. ASSUME TAX \/ TAY \/ TSX \/ TXA \/ TYA PROVE Effect
  BY <1>0, <1>17, <1>p, LoadLeft DEF TAX, TAY, TSX, TXA, TYA, StackOps
<1>18. ASSUME TXS PROVE Effect
  BY <1>0, <1>18, StackMoved, DoesMove DEF TXS, Scope
<1>19. ASSUME PHA \/ PHP PROVE Effect
  BY <1>19, PushEffect
<1>20. ASSUME PLA \/ PLP PROVE Effect
  BY <1>20, PullByteEffect
<1>21. QED
  BY <1>1, <1>2, <1>3, <1>4, <1>5, <1>6, <1>7, <1>8, <1>9, <1>10, <1>11, <1>13, <1>14,
     <1>15, <1>16, <1>17, <1>18, <1>19, <1>20 DEF Official

(* The unofficial ones.                                                    *)
LEMMA UnofficialEffect == ASSUME TypeOK, Loop!Fetching, Unofficial PROVE Effect
<1>0. /\ Fetched \in Machine /\ Leaves(Fetched, Fetched, {}) /\ Val \in Byte /\ m.x \in Byte
  BY OperandsType, SameMemory DEF Leaves, TypeOK
<1> DEFINE Acts(name, result, extra) == Does(name, result, extra) /\ name \notin StackOps
<1>1. ASSUME NEW name, NEW result, NEW extra, Acts(name, result, extra),
             Leaves(Fetched, result, {})
      PROVE  Effect
  BY <1>1, DoesQuiet DEF Scope
<1>2. ASSUME NEW name \in Movers, NEW result, Acts(name, result, 0),
             Leaves(Fetched, result, {At} \ {0})
      PROVE  Effect
  BY <1>2, DoesQuiet DEF Scope
<1>3. ASSUME NEW name \in Stores, NEW result, Acts(name, result, 0),
             Leaves(Fetched, result, {At})
      PROVE  Effect
  BY <1>3, DoesQuiet DEF Scope
<1>4. ASSUME NOPs \/ SBCx PROVE Effect
  BY <1>0, <1>1, <1>4, SumLeft DEF NOPs, SBCx, StackOps
<1>5. ASSUME SLO \/ RLA \/ SRE \/ RRA \/ ALR \/ ARR PROVE Effect
  BY <1>0, <1>2, <1>5, UnofficialShiftLeft
     DEF SLO, RLA, SRE, RRA, ALR, ARR, Movers, StackOps, At
<1>6. ASSUME DCP \/ ISC PROVE Effect
  BY <1>0, <1>3, <1>6, UnofficialStoreLeft DEF DCP, ISC, Stores, StackOps, At
<1>7. ASSUME ANC \/ AXS \/ LAX \/ LXA \/ XAA PROVE Effect
  BY <1>0, <1>1, <1>7, UnofficialLeft DEF ANC, AXS, LAX, LXA, XAA, StackOps
<1>8. ASSUME SAX PROVE Effect
  <2>1. ASSUME NEW data \in Byte PROVE Leaves(Fetched, Write(Fetched, At, data), {At})
    BY <1>0, <2>1, WriteTouches DEF Leaves
  <2>2. QED
    BY <1>3, <1>8, <2>1, LogicType DEF SAX, Stores, StackOps
<1>9. ASSUME LAS PROVE Effect
  BY <1>0, <1>9, StackMoved, DoesMove DEF LAS, Scope
<1>10. ASSUME TAS PROVE Effect
  <2>1. Tas(Fetched, Op.mode) \in Machine
    BY <1>0, UnstableType DEF Follows
  <2>2. QED
    BY <1>0, <1>10, <2>1, UnstableLeft, DoesMove DEF TAS, Scope, Unstable
<1>11. ASSUME AHX \/ SHX PROVE Effect
  BY <1>0, <1>11, UnstableLeft, DoesQuiet DEF AHX, SHX, Scope, Unstable, StackOps
<1>12. ASSUME SHY PROVE Effect
  <2>1. m' = Fetched /\ phase' = "failed"
    BY <1>12 DEF SHY
  <2>2. ~Serves /\ ~Instruction
    BY <2>1 DEF Serves, Instruction
  <2>3. m'.sp = m.sp /\ Touches(m, m', {})
    BY <2>1, FetchedSame, SameMemory
  <2>4. QED
    BY <2>2, <2>3, NoEffect
<1>13. QED
  BY <1>4, <1>5, <1>6, <1>7, <1>8, <1>9, <1>10, <1>11, <1>12 DEF Unofficial

(* What is pending stores bytes, and nothing where a store panics.         *)
LEMMA PendingStores == ASSUME TypeOK PROVE StoresBytes(interrupt.handler)
<1>1. CASE interrupt \in {NoInterrupt, BrkRequest}
  BY <1>1 DEF NoInterrupt, BrkRequest, NoHandler, StoresBytes
<1>2. CASE interrupt \in {[kind |-> r[1], handler |-> r[2]] : r \in Requests}
  BY <1>2, HostAssumption DEF StoresBytes
<1>3. QED
  BY <1>1, <1>2 DEF TypeOK

(* A reset leaves memory.                                                  *)
LEMMA ResetSame == ASSUME NEW r \in Machine PROVE ResetMachine(r).mem = r.mem
<1> DEFINE vector == ReadWord(r, 65532)
           reset(b, sp, w) == [r EXCEPT !.sp = sp, !.p = DefaultStatus, !.x = b, !.y = b,
                                        !.a = b, !.pc = w]
<1>1. \A b, sp, w : reset(b, sp, w).mem = r.mem
  BY DEF Machine
<1> HIDE DEF vector
<1>2. ResetMachine(r) = reset(0, 253, vector)
  BY SMT DEF ResetMachine, vector
<1> HIDE DEF reset
<1>3. QED
  BY <1>1, <1>2

(* What serving an interrupt leaves: its frame, or the machine reset.      *)
LEMMA ServicedIs ==
  ASSUME TypeOK, interrupt # NoInterrupt
  PROVE  /\ Serviced \in Machine
         /\ Touches(m, Serviced, Slots(InterruptFrame) \cup DOMAIN interrupt.handler)
         /\ interrupt.kind = "RESET" => Touches(m, Serviced, {})
         /\ interrupt.kind # "RESET" =>
              Entered(m, Serviced, InterruptFrame, interrupt.handler)
<1>0. m \in Machine /\ Serviced \in Machine /\ m.p \in SUBSET Bit
  BY ServicedType DEF TypeOK, Machine
<1>1. interrupt.kind \in {"NMI", "IRQ", "RESET", "BRK"}
  BY PendingType DEF Loop!External
<1>2. CASE interrupt.kind = "RESET"
  <2>1. Serviced = ResetMachine(m)
    BY <1>2 DEF Serviced
  <2>2. \A where : Touches(m, Serviced, where)
    BY <1>0, <2>1, ResetSame, SameMemory
  <2>3. QED
    BY <1>0, <1>2, <2>2
<1>3. ASSUME NEW status \in {m.p, m.p \cup {Break}}, NEW vector,
             Serviced = Enter(m, status, interrupt.handler, vector)
      PROVE  Entered(m, Serviced, InterruptFrame, interrupt.handler)
  <2>1. status \in SUBSET Bit
    BY <1>0, FlagNumbers
  <2>2. Cuts(InterruptFrame, m, status) /\ StoresBytes(interrupt.handler)
    BY PendingStores, FramesAre DEF Cuts
  <2>3. QED
    BY <1>0, <1>3, <2>1, <2>2, EnterIs
<1>4. interrupt.kind # "RESET" =>
        \E status \in {m.p, m.p \cup {Break}} : \E vector :
          Serviced = Enter(m, status, interrupt.handler, vector)
  BY <1>1 DEF Serviced
<1>5. QED
  BY <1>0, <1>2, <1>3, <1>4 DEF Entered

LEMMA InterruptEffect == ASSUME TypeOK, HandleInterrupt PROVE Effect
<1>1. interrupt # NoInterrupt /\ phase = "running" /\ ~Instruction /\ m \in Machine
  BY PendingType DEF HandleInterrupt, Instruction, Loop!Fetching, Loop!External, TypeOK
<1>2. Pulling /\ \A names : ~Executes(names)
  BY <1>1 DEF Pulling, Taking, Executes
<1>3. CASE Unwind(Serviced.mem)
  <2>1. phase' = "panicked" /\ m'.mem = Serviced.mem /\ m'.sp = m.sp
    BY <1>1, <1>3 DEF Unwind, Machine
  <2>2. ~Serves
    BY <2>1 DEF Serves
  <2>3. Changes
    BY <1>1, <2>1, ServicedIs, SameMemory DEF Changes, Touches
  <2>4. QED
    BY <1>2, <2>1, <2>2, <2>3 DEF Effect, Still, Pushing, Enters
<1>4. CASE m' = Serviced /\ ~Serviced.fault /\ UNCHANGED phase
  <2>1. Serves
    BY <1>1, <1>4 DEF Serves
  <2>2. CASE interrupt.kind = "RESET"
    <3>1. ~Enters
      BY <2>2 DEF Enters
    <3>2. Changes
      BY <1>1, <1>4, <2>2, ServicedIs DEF Changes, Touches
    <3>3. QED
      BY <1>2, <2>1, <3>1, <3>2 DEF Effect, Still, Pushing
  <2>3. CASE interrupt.kind # "RESET"
    <3>1. Enters
      BY <2>1, <2>3 DEF Enters
    <3>2. Stored = DOMAIN interrupt.handler /\ PushedSlots = Slots(InterruptFrame)
      BY <1>2, <3>1 DEF Stored, PushedSlots
    <3>3. Changes
      BY <1>1, <1>4, <3>2, ServicedIs DEF Changes, Touches
    <3>4. Leaving(InterruptFrame)
      BY <1>1, <1>4, <2>3, <3>2, ServicedIs DEF Leaving, Entered
    <3>5. QED
      BY <1>2, <2>1, <3>3, <3>4 DEF Effect, Still, Pushing
  <2>4. QED
    BY <2>2, <2>3
<1>5. QED
  BY <1>3, <1>4 DEF HandleInterrupt

(* An iteration, and what the owner does between two calls.                *)
LEMMA IterationEffect == ASSUME TypeOK, Iteration PROVE Effect
<1>0. m \in Machine
  BY DEF TypeOK
<1>1. ASSUME Stall \/ Return PROVE Effect
  <2>1. m' = m /\ interrupt = NoInterrupt
    BY <1>1, PendingType DEF Stall, Return, Loop!Stall, Loop!Return, Loop!External
  <2>2. ~Instruction /\ ~Serves
    BY <1>1, <2>1 DEF Stall, Return, Loop!Stall, Loop!Return, Instruction, Loop!Fetching, Serves
  <2>3. QED
    BY <2>1, <2>2, NoEffect DEF Touches
<1>2. ASSUME SumPanic PROVE Effect
  <2>1. phase' = "panicked" /\ m'.mem = m.mem /\ m'.sp = m.sp
    BY <1>0, <1>2 DEF SumPanic, Unwind, Machine
  <2>2. QED
    BY <2>1, NoEffect, SameMemory DEF Instruction, Serves
<1>3. ASSUME Fetch, Official \/ Unofficial PROVE Effect
  BY <1>3, OfficialEffect, UnofficialEffect DEF Fetch
<1>4. QED
  BY <1>1, <1>2, <1>3, InterruptEffect DEF Iteration

LEMMA HostEffect == ASSUME TypeOK, Between PROVE Changes /\ ~Instruction /\ Touches(m, m', {})
<1>1. m' = m \/ m' = ResetMachine(m)
  BY DEF Between, Call, Raise, Reset, ClockPanic
<1>2. m'.mem = m.mem
  BY <1>1, ResetSame DEF TypeOK
<1>3. ~Instruction
  BY DEF Between, Call, Raise, Reset, ClockPanic, Instruction, Loop!Fetching,
         Loop!Call, Loop!ClockPanic, Loop!Resting
<1>4. QED
  BY <1>2, <1>3, SameMemory DEF Changes, Touches

(* Whatever the program and the host do, memory changes in RAM alone, and  *)
(* only at the effective address, on the stack of a push, or where an      *)
(* interrupt handler stores.                                               *)
THEOREM WritesStayInPlace == HSpec => WritesInPlace
<1> DEFINE InPlace ==
      \A addr \in RAM \cup ROM : Read(m', addr) # Read(m, addr) =>
        /\ addr \in RAM
        /\ phase' = "panicked" \/ addr \in Stored \cup PushedSlots
<1>1. TypeOK /\ Next => Changes
  BY IterationEffect, HostEffect DEF Next, Effect
<1>2. TypeOK /\ [HNext]_hvars => [InPlace]_hvars
  BY <1>1 DEF HNext, HIteration, HBetween, Next, Changes
<1>3. QED
  BY <1>2, HistoryTypes, PTL DEF HSpec, WritesInPlace
----------------------------------------------------------------------------
(* What is on the stack.                                                   *)
FrameSet == [kind: Kinds, sp: Byte, saved: Saved]

Bytes(fs) == UNION {Slots(fs[i]) : i \in DOMAIN fs}

Stack(k, fs) ==
  \A i \in DOMAIN fs :
    /\ Holds(k, fs[i])
    /\ Slots(fs[i]) \subseteq RAM
    /\ End(fs[i]) = IF i = Len(fs) THEN k.sp ELSE fs[i + 1].sp
    /\ \A j \in DOMAIN fs \ {i} : Slots(fs[i]) \cap Slots(fs[j]) = {}

LEMMA FramesHoldIs ==
  FramesHold <=> frames \in Seq(FrameSet) /\ (phase # "panicked" => Stack(m, frames))
BY DEF FramesHold, FrameSet, Stack

LEMMA EmptyStack == ASSUME NEW k PROVE << >> \in Seq(FrameSet) /\ Stack(k, << >>)
<1>1. << >> \in Seq(FrameSet) /\ Len(<< >>) = 0
  BY EmptySeq
<1>2. DOMAIN << >> = {}
  BY <1>1, LenProperties
<1>3. QED
  BY <1>1, <1>2 DEF Stack

LEMMA FrameOf ==
  ASSUME NEW fs \in Seq(FrameSet), NEW i \in DOMAIN fs
  PROVE  fs[i] \in FrameSet /\ fs[i].kind \in Kinds /\ fs[i].sp \in Byte
<1>1. fs[i] \in FrameSet
  BY LenProperties
<1>2. QED
  BY <1>1 DEF FrameSet

(* It stays as long as its bytes and the stack pointer do,                 *)
LEMMA StackKept ==
  ASSUME NEW k, NEW r, NEW fs \in Seq(FrameSet), Stack(k, fs), r.sp = k.sp,
         \A addr \in Bytes(fs) : Read(r, addr) = Read(k, addr)
  PROVE  Stack(r, fs)
<1> SUFFICES ASSUME NEW i \in DOMAIN fs
             PROVE  /\ Holds(r, fs[i])
                    /\ Slots(fs[i]) \subseteq RAM
                    /\ End(fs[i]) = IF i = Len(fs) THEN r.sp ELSE fs[i + 1].sp
                    /\ \A j \in DOMAIN fs \ {i} : Slots(fs[i]) \cap Slots(fs[j]) = {}
  BY DEF Stack
<1>1. /\ Holds(k, fs[i])
      /\ Slots(fs[i]) \subseteq RAM
      /\ End(fs[i]) = IF i = Len(fs) THEN r.sp ELSE fs[i + 1].sp
      /\ \A j \in DOMAIN fs \ {i} : Slots(fs[i]) \cap Slots(fs[j]) = {}
  BY DEF Stack
<1>2. fs[i].kind \in Kinds
  BY FrameOf
<1>3. \A addr \in Slots(fs[i]) : Read(r, addr) = Read(k, addr)
  BY DEF Bytes
<1>4. Holds(r, fs[i])
  BY <1>1, <1>2, <1>3, HoldsOn
<1>5. QED
  BY <1>1, <1>4

(* grows by a push apart from it,                                          *)
LEMMA StackPushed ==
  ASSUME NEW k, NEW r, NEW fs \in Seq(FrameSet), Stack(k, fs), NEW frame \in FrameSet,
         frame.sp = k.sp, End(frame) = r.sp, Holds(r, frame),
         Slots(frame) \subseteq RAM \ Bytes(fs),
         \A addr \in Bytes(fs) : Read(r, addr) = Read(k, addr)
  PROVE  Append(fs, frame) \in Seq(FrameSet) /\ Stack(r, Append(fs, frame))
<1> DEFINE n == Len(fs)
           new == Append(fs, frame)
<1>1. /\ new \in Seq(FrameSet) /\ Len(new) = n + 1 /\ new[n + 1] = frame
      /\ \A i \in 1 .. n : new[i] = fs[i]
  BY AppendProperties
<1>2. n \in Nat /\ DOMAIN fs = 1 .. n /\ DOMAIN new = 1 .. n + 1
  BY <1>1, LenProperties
<1> HIDE DEF n, new
<1>3. ASSUME NEW i \in 1 .. n, NEW j \in 1 .. n, i # j PROVE Slots(new[i]) \cap Slots(new[j]) = {}
  BY <1>1, <1>2, <1>3 DEF Stack
<1>4. ASSUME NEW i \in 1 .. n PROVE Slots(new[i]) \cap Slots(frame) = {}
  BY <1>1, <1>2, <1>4 DEF Bytes
<1>5. ASSUME NEW i \in 1 .. n
      PROVE  Holds(r, new[i]) /\ Slots(new[i]) \subseteq RAM /\ End(new[i]) = new[i + 1].sp
  <2>1. Holds(k, fs[i]) /\ Slots(fs[i]) \subseteq RAM
    BY <1>2 DEF Stack
  <2>2. \A addr \in Slots(fs[i]) : Read(r, addr) = Read(k, addr)
    BY <1>2 DEF Bytes
  <2>3. fs[i].kind \in Kinds
    BY <1>2, FrameOf
  <2>4. Holds(r, fs[i])
    BY <2>1, <2>2, <2>3, HoldsOn
  <2>5. CASE i = n
    BY <1>1, <1>2, <2>1, <2>4, <2>5 DEF Stack, n
  <2>6. CASE i # n
    <3>1. i + 1 \in 1 .. n
      BY <1>2, <2>6
    <3>2. End(fs[i]) = fs[i + 1].sp
      BY <1>2, <2>6 DEF Stack, n
    <3>3. QED
      BY <1>1, <2>1, <2>4, <3>1, <3>2
  <2>7. QED
    BY <2>5, <2>6
<1>6. ASSUME NEW i \in 1 .. n + 1
      PROVE  /\ Holds(r, new[i])
             /\ Slots(new[i]) \subseteq RAM
             /\ End(new[i]) = IF i = n + 1 THEN r.sp ELSE new[i + 1].sp
             /\ \A j \in (1 .. n + 1) \ {i} : Slots(new[i]) \cap Slots(new[j]) = {}
  <2>1. CASE i = n + 1
    <3>1. ASSUME NEW j \in (1 .. n + 1) \ {i} PROVE Slots(new[i]) \cap Slots(new[j]) = {}
      <4>1. j \in 1 .. n
        BY <1>2, <2>1, <3>1
      <4>2. QED
        BY <1>1, <1>4, <2>1, <4>1
    <3>2. QED
      BY <1>1, <2>1, <3>1
  <2>2. CASE i # n + 1
    <3>1. i \in 1 .. n
      BY <1>2, <2>2
    <3>2. ASSUME NEW j \in (1 .. n + 1) \ {i} PROVE Slots(new[i]) \cap Slots(new[j]) = {}
      <4>1. CASE j = n + 1
        <5>1. new[j] = frame /\ Slots(new[i]) \cap Slots(frame) = {}
          BY <1>1, <1>4, <3>1, <4>1
        <5>2. QED
          BY <5>1
      <4>2. CASE j # n + 1
        <5>1. j \in 1 .. n /\ i # j
          BY <1>2, <3>2, <4>2
        <5>2. QED
          BY <1>3, <3>1, <5>1
      <4>3. QED
        BY <4>1, <4>2
    <3>3. QED
      BY <1>5, <2>2, <3>1, <3>2
  <2>3. QED
    BY <2>1, <2>2
<1>7. Stack(r, new)
  BY <1>1, <1>2, <1>6 DEF Stack
<1>8. QED
  BY <1>1, <1>7 DEF new

(* and shrinks by a pull of its last frame.                                *)
LEMMA StackPulled ==
  ASSUME NEW k, NEW r, NEW fs \in Seq(FrameSet), Stack(k, fs), fs # << >>,
         r.sp = fs[Len(fs)].sp, \A addr \in Bytes(fs) : Read(r, addr) = Read(k, addr)
  PROVE  /\ SubSeq(fs, 1, Len(fs) - 1) \in Seq(FrameSet)
         /\ Stack(r, SubSeq(fs, 1, Len(fs) - 1))
<1> DEFINE n == Len(fs)
           new == SubSeq(fs, 1, n - 1)
<1>1. n \in Nat \ {0} /\ DOMAIN fs = 1 .. n /\ \A i \in 1 .. n : fs[i] \in FrameSet
  BY EmptySeq, LenProperties
<1>2. /\ new \in Seq(FrameSet) /\ Len(new) = n - 1
      /\ \A i \in 1 .. n - 1 : new[i] = fs[i]
  <2>1. 1 \in Int /\ n - 1 \in Int /\ \A i \in 1 .. n - 1 : fs[i] \in FrameSet
    BY <1>1
  <2> HIDE DEF n
  <2>2. /\ new \in Seq(FrameSet) /\ Len(new) = IF 1 <= n - 1 THEN (n - 1) - 1 + 1 ELSE 0
        /\ \A i \in 1 .. (n - 1) - 1 + 1 : new[i] = fs[1 + i - 1]
    BY <2>1, SubSeqProperties
  <2>3. ASSUME NEW i \in 1 .. n - 1 PROVE i \in 1 .. (n - 1) - 1 + 1 /\ 1 + i - 1 = i
    BY <1>1
  <2>4. QED
    BY <1>1, <2>2, <2>3
<1>3. DOMAIN new = 1 .. n - 1
  BY <1>2, LenProperties
<1> HIDE DEF n, new
<1>4. ASSUME NEW i \in 1 .. n - 1
      PROVE  /\ Holds(r, new[i])
             /\ Slots(new[i]) \subseteq RAM
             /\ End(new[i]) = IF i = n - 1 THEN r.sp ELSE new[i + 1].sp
             /\ \A j \in (1 .. n - 1) \ {i} : Slots(new[i]) \cap Slots(new[j]) = {}
  <2>1. i \in 1 .. n /\ i # n /\ i + 1 \in 1 .. n /\ new[i] = fs[i]
    BY <1>1, <1>2
  <2>2. Holds(k, fs[i]) /\ Slots(fs[i]) \subseteq RAM /\ End(fs[i]) = fs[i + 1].sp
    BY <1>1, <2>1 DEF Stack, n
  <2>3. \A addr \in Slots(fs[i]) : Read(r, addr) = Read(k, addr)
    BY <1>1, <2>1 DEF Bytes
  <2>4. fs[i].kind \in Kinds
    BY <1>1, <2>1 DEF FrameSet
  <2>5. Holds(r, fs[i])
    BY <2>2, <2>3, <2>4, HoldsOn
  <2>6. End(new[i]) = IF i = n - 1 THEN r.sp ELSE new[i + 1].sp
    <3>1. CASE i = n - 1
      <4>1. fs[i + 1] = fs[n] /\ r.sp = fs[n].sp
        BY <1>1, <3>1 DEF n
      <4>2. QED
        BY <2>1, <2>2, <3>1, <4>1
    <3>2. CASE i # n - 1
      <4>1. i + 1 \in 1 .. n - 1
        BY <1>1, <3>2
      <4>2. QED
        BY <1>2, <2>1, <2>2, <3>2, <4>1
    <3>3. QED
      BY <3>1, <3>2
  <2>7. ASSUME NEW j \in (1 .. n - 1) \ {i} PROVE Slots(new[i]) \cap Slots(new[j]) = {}
    <3>1. j \in 1 .. n /\ j # i /\ new[j] = fs[j]
      BY <1>1, <1>2
    <3>2. QED
      BY <1>1, <2>1, <3>1 DEF Stack
  <2>8. QED
    BY <2>1, <2>2, <2>5, <2>6, <2>7
<1>5. Stack(r, new)
  BY <1>2, <1>3, <1>4 DEF Stack
<1>6. QED
  BY <1>2, <1>5 DEF new, n
----------------------------------------------------------------------------
(* The steps with the frames.                                              *)

(* What is pushed are frames, each with a kind of its own.                 *)
LEMMA FramesTypes ==
  ASSUME TypeOK
  PROVE  /\ InterruptFrame \in FrameSet /\ CallFrame \in FrameSet
         /\ ByteFrame("accumulator") \in FrameSet /\ ByteFrame("status") \in FrameSet
<1>1. /\ m.a \in Byte /\ m.x \in Byte /\ m.y \in Byte /\ m.sp \in Byte
      /\ m.p \in SUBSET Bit /\ m.pc \in Word
  BY DEF TypeOK, Machine
<1>2. Wrap16(m.pc + 3) \in Word
  BY <1>1, WrapType, WordIs
<1>3. Registers(m) \in Saved
  BY <1>1 DEF Registers, Saved
<1>4. [Registers(m) EXCEPT !.pc = Wrap16(@ + 3)] \in Saved
  <2> DEFINE next == Wrap16(m.pc + 3)
  <2>1. [Registers(m) EXCEPT !.pc = next] \in Saved
    <3> HIDE DEF next
    <3>1. next \in Word
      BY <1>2 DEF next
    <3>2. QED
      BY <1>3, <3>1 DEF Saved
  <2>2. Registers(m).pc = m.pc
    BY DEF Registers
  <2>3. QED
    BY <2>1, <2>2
<1>5. ASSUME NEW kind \in Kinds, NEW saved \in Saved PROVE Frame(kind, saved) \in FrameSet
  BY <1>1 DEF Frame, FrameSet
<1>6. QED
  BY <1>3, <1>4, <1>5 DEF InterruptFrame, CallFrame, ByteFrame, Kinds

(* What a step does to the frames, given what it does to the machine.      *)
LEMMA FramesStep ==
  ASSUME TypeOK, Effect, TrackFrames, FramesHold, phase # "panicked"
  PROVE  FramesHold'
<1>1. frames \in Seq(FrameSet) /\ Stack(m, frames) /\ Live = Bytes(frames)
  BY FramesHoldIs DEF Live, Bytes
<1>2. FramesHold' <=> frames' \in Seq(FrameSet) /\ (phase' # "panicked" => Stack(m', frames'))
  BY DEF FramesHold, FrameSet, Stack
<1>3. CASE frames' = << >>
  BY <1>2, <1>3, EmptyStack
<1>4. ASSUME phase' # "panicked", NEW addr, addr \notin Stored \cup PushedSlots
      PROVE  Read(m', addr) = Read(m, addr)
  BY <1>4 DEF Effect, Changes
<1>5. ASSUME ~Serves, ~Executes(StackOps), Kept(frames), Live \cap Stored = {} PROVE FramesHold'
  <2>1. frames' = frames
    BY <1>5 DEF Kept
  <2>2. m'.sp = m.sp
    BY <1>5 DEF Effect, Still
  <2>3. PushedSlots = {}
    BY <1>5 DEF PushedSlots, Enters, Executes, StackOps
  <2>4. phase' # "panicked" => \A addr \in Bytes(frames) : Read(m', addr) = Read(m, addr)
    BY <1>1, <1>4, <1>5, <2>3
  <2>5. phase' # "panicked" => Stack(m', frames)
    BY <1>1, <2>2, <2>4, StackKept
  <2>6. QED
    BY <1>1, <1>2, <2>1, <2>5
<1>6. ASSUME NEW frame \in FrameSet, frame.sp = m.sp, Pushed(frame), Leaving(frame),
             PushedSlots = Slots(frame)
      PROVE  FramesHold'
  <2>1. CASE frames' = Append(frames, frame) /\ Live \cap Stored = {}
               /\ Slots(frame) \subseteq RAM \ (Live \cup Stored)
    <3>1. /\ m'.sp = End(frame) /\ Holds(m', frame)
          /\ Slots(frame) \subseteq RAM \ Bytes(frames)
      BY <1>1, <1>6, <2>1 DEF Leaving
    <3>2. phase' # "panicked" => \A addr \in Bytes(frames) : Read(m', addr) = Read(m, addr)
      BY <1>1, <1>4, <1>6, <2>1, <3>1
    <3>3. Append(frames, frame) \in Seq(FrameSet)
      BY <1>1, AppendProperties
    <3>4. phase' # "panicked" => Stack(m', Append(frames, frame))
      BY <1>1, <1>6, <3>1, <3>2, StackPushed
    <3>5. QED
      BY <1>2, <2>1, <3>3, <3>4
  <2>2. QED
    BY <1>3, <1>6, <2>1 DEF Pushed, Kept
<1>7. ASSUME NEW kind, Pulled(kind), Instruction, Stored = {}, PushedSlots = {},
             Matches(kind) => m'.sp = TopFrame.sp
      PROVE  FramesHold'
  <2>1. CASE Matches(kind) /\ frames' = SubSeq(frames, 1, Len(frames) - 1)
    <3>1. frames # << >> /\ m'.sp = frames[Len(frames)].sp /\ phase' # "panicked"
      BY <1>7, <2>1 DEF Matches, TopFrame, Instruction
    <3>2. \A addr \in Bytes(frames) : Read(m', addr) = Read(m, addr)
      BY <1>4, <1>7, <3>1
    <3>3. QED
      BY <1>1, <1>2, <2>1, <3>1, <3>2, StackPulled
  <2>2. QED
    BY <1>3, <1>7, <2>1 DEF Pulled
<1>8. ASSUME NEW name \in {"RTS", "RTI", "PLA", "PLP"}, Executes({name})
      PROVE  Stored = {} /\ PushedSlots = {} /\ Instruction
  <2>1. Instruction /\ Op.mnemonic = name
    BY <1>8 DEF Executes
  <2>2. ~Enters
    BY <2>1, PendingType DEF Enters, Serves, Instruction, Loop!Fetching, Loop!External
  <2>3. QED
    BY <2>1, <2>2 DEF Stored, PushedSlots, Executes, Stores, Movers, Unstable
<1>9. ASSUME Matches("call") \/ Matches("interrupt") \/ Matches("accumulator") \/ Matches("status")
      PROVE  Taking(TopFrame)
  <2>1. frames # << >> /\ m.sp = End(TopFrame)
    BY <1>9 DEF Matches
  <2>2. TopFrame.sp \in Byte
    BY <1>1, <2>1, FrameOf, EmptySeq, LenProperties DEF TopFrame
  <2>3. QED
    BY <2>1, <2>2 DEF Effect, Pulling
<1>10. ASSUME Enters, Pushed(InterruptFrame) PROVE FramesHold'
  <2>0. \A names : ~Executes(names)
    BY <1>10, PendingType DEF Enters, Serves, Executes, Instruction, Loop!Fetching, Loop!External
  <2>1. PushedSlots = Slots(InterruptFrame) /\ Leaving(InterruptFrame)
    BY <1>10, <2>0 DEF PushedSlots, Effect, Pushing
  <2>2. QED
    BY <1>6, <1>10, <2>1, FramesTypes, FramesAre
<1>11. ASSUME Executes({"JSR", "PHA", "PHP"}) PROVE ~Enters
  BY <1>11, PendingType DEF Enters, Serves, Executes, Instruction, Loop!Fetching, Loop!External
<1>12. ASSUME Executes({"JSR"}), Pushed(CallFrame) PROVE FramesHold'
  <2>1. PushedSlots = Slots(CallFrame) /\ Leaving(CallFrame)
    BY <1>11, <1>12 DEF PushedSlots, Effect, Pushing, Executes
  <2>2. QED
    BY <1>6, <1>12, <2>1, FramesTypes, FramesAre
<1>13. ASSUME NEW name, NEW kind, <<name, kind>> \in {<<"PHA", "accumulator">>, <<"PHP", "status">>},
              Executes({name}), Pushed(ByteFrame(kind))
       PROVE  FramesHold'
  <2>1. Leaving(ByteFrame(kind)) /\ ByteFrame(kind) \in FrameSet /\ ByteFrame(kind).sp = m.sp
    BY <1>13, FramesTypes, FramesAre DEF Effect, Pushing
  <2>2. Op.mnemonic = name /\ Instruction /\ ~Enters
    BY <1>11, <1>13 DEF Executes
  <2>3. PushedSlots = Slots(ByteFrame("status"))
    BY <1>13, <2>2 DEF PushedSlots, Executes
  <2>4. Slots(ByteFrame("status")) = Slots(ByteFrame(kind))
    <3>1. ByteFrame(kind).kind = kind /\ ByteFrame("status").kind = "status"
          /\ ByteFrame(kind).sp = ByteFrame("status").sp
      BY FramesAre
    <3>2. QED
      BY <1>13, <3>1, SlotsAre DEF Slot
  <2>5. QED
    BY <1>6, <1>13, <2>1, <2>3, <2>4
<1>14. ASSUME NEW name, NEW kind, Executes({name}), Pulled(kind),
              <<name, kind>> \in {<<"RTS", "call">>, <<"RTI", "interrupt">>,
                                  <<"PLA", "accumulator">>, <<"PLP", "status">>}
       PROVE  FramesHold'
  <2>1. Matches(kind) => m'.sp = TopFrame.sp
    BY <1>9, <1>14 DEF Taking, Matches
  <2>2. QED
    BY <1>7, <1>8, <1>14, <2>1
<1>15. ASSUME ~Serves, ~Executes(StackOps), Kept(frames) PROVE FramesHold'
  BY <1>3, <1>5, <1>15 DEF Kept
<1>16. ASSUME \/ Executes({"RTS"}) /\ Pulled("call")
              \/ Executes({"RTI"}) /\ Pulled("interrupt")
              \/ Executes({"PLA"}) /\ Pulled("accumulator")
              \/ Executes({"PLP"}) /\ Pulled("status")
       PROVE  FramesHold'
  BY <1>14, <1>16
<1>17. ASSUME \/ Executes({"PHA"}) /\ Pushed(ByteFrame("accumulator"))
              \/ Executes({"PHP"}) /\ Pushed(ByteFrame("status"))
       PROVE  FramesHold'
  BY <1>13, <1>17
<1>18. QED
  BY <1>3, <1>10, <1>12, <1>15, <1>16, <1>17 DEF TrackFrames

(* A step between two calls leaves memory; the stack pointer goes on, or   *)
(* the frames are forgotten.                                               *)
LEMMA FramesBetween ==
  ASSUME TypeOK, HBetween, FramesHold, phase # "panicked"
  PROVE  FramesHold'
<1>1. frames \in Seq(FrameSet) /\ Stack(m, frames)
  BY FramesHoldIs
<1>2. FramesHold' <=> frames' \in Seq(FrameSet) /\ (phase' # "panicked" => Stack(m', frames'))
  BY DEF FramesHold, FrameSet, Stack
<1>3. Touches(m, m', {})
  BY HostEffect DEF HBetween
<1>4. CASE frames' = frames /\ m'.sp = m.sp
  BY <1>1, <1>2, <1>3, <1>4, StackKept DEF Touches
<1>5. CASE frames' = << >>
  BY <1>2, <1>5, EmptyStack
<1>6. QED
  BY <1>4, <1>5 DEF HBetween

(* A panic is the end.                                                     *)
LEMMA PanicEnds == ASSUME Next PROVE phase # "panicked"
BY DEF Next, Iteration, HandleInterrupt, Stall, Return, SumPanic, Fetch, Between, Call, Raise,
       Reset, ClockPanic, Loop!Stall, Loop!Return, Loop!Fetching, Loop!Call, Loop!ClockPanic,
       Loop!Resting

LEMMA FramesNext == TypeOK /\ FramesHold /\ [HNext]_hvars => FramesHold'
<1> SUFFICES ASSUME TypeOK, FramesHold, [HNext]_hvars PROVE FramesHold'
  OBVIOUS
<1>1. CASE HIteration
  BY <1>1, PanicEnds, IterationEffect, FramesStep DEF HIteration, Next
<1>2. CASE HBetween
  BY <1>2, PanicEnds, FramesBetween DEF HBetween, Next
<1>3. CASE UNCHANGED hvars
  BY <1>3 DEF hvars, vars, FramesHold, Stack, FrameSet
<1>4. QED
  BY <1>1, <1>2, <1>3 DEF HNext

(* The stack is sound, in every program and under every host: what was     *)
(* pushed, and not stored over since, is on the stack as it was pushed.    *)
THEOREM FramesAreHeld == HSpec => []FramesHold
<1>1. HInit => FramesHold
  BY EmptyStack DEF HInit, FramesHold, Stack, FrameSet
<1>2. QED
  BY <1>1, FramesNext, HistoryTypes, PTL DEF HSpec

(* And what is pulled is what the matching push has saved.                 *)
Brings ==
  /\ Executes({"RTS"}) /\ Matches("call") => m'.pc = TopFrame.saved.pc
  /\ Executes({"RTI"}) /\ Matches("interrupt") =>
       /\ m'.pc = TopFrame.saved.pc
       /\ m'.p = (TopFrame.saved.p \ {Break}) \cup {UNK}
  /\ Executes({"PLA"}) /\ Matches("accumulator") => m'.a = TopFrame.saved.a
  /\ Executes({"PLP"}) /\ Matches("status") => m'.p = TopFrame.saved.p

LEMMA PullBrings ==
  ASSUME TypeOK, FramesHold, phase # "panicked", Pulling PROVE Brings
<1> SUFFICES ASSUME NEW kind \in Kinds, Matches(kind)
             PROVE  /\ Executes({"RTS"}) /\ kind = "call" => m'.pc = TopFrame.saved.pc
                    /\ Executes({"RTI"}) /\ kind = "interrupt" =>
                         /\ m'.pc = TopFrame.saved.pc
                         /\ m'.p = (TopFrame.saved.p \ {Break}) \cup {UNK}
                    /\ Executes({"PLA"}) /\ kind = "accumulator" => m'.a = TopFrame.saved.a
                    /\ Executes({"PLP"}) /\ kind = "status" => m'.p = TopFrame.saved.p
  BY DEF Brings, Kinds
<1>1. frames \in Seq(FrameSet) /\ Stack(m, frames)
  BY FramesHoldIs
<1>2. frames # << >> /\ TopFrame.kind = kind /\ m.sp = End(TopFrame)
  BY DEF Matches
<1>3. Len(frames) \in DOMAIN frames
  BY <1>1, <1>2, EmptySeq, LenProperties
<1>4. TopFrame.sp \in Byte /\ Holds(m, TopFrame)
  BY <1>1, <1>3, FrameOf DEF TopFrame, Stack
<1>5. Taking(TopFrame)
  BY <1>2, <1>4 DEF Pulling
<1>6. CASE kind = "interrupt"
  <2>1. /\ WordIn(m, TopFrame) = TopFrame.saved.pc
        /\ Bits(InSlot(m, TopFrame, 2)) \ {Break} = TopFrame.saved.p \ {Break}
    BY <1>2, <1>4, <1>6, InterruptHolds
  <2>2. QED
    BY <1>2, <1>5, <1>6, <2>1 DEF Taking
<1>7. CASE kind = "call"
  BY <1>2, <1>4, <1>5, <1>7 DEF Taking, Holds
<1>8. CASE kind = "accumulator"
  BY <1>2, <1>4, <1>5, <1>8 DEF Taking, Holds
<1>9. CASE kind = "status"
  BY <1>2, <1>4, <1>5, <1>9 DEF Taking, Holds
<1>10. QED
  BY <1>6, <1>7, <1>8, <1>9 DEF Kinds

(* RTS, RTI, PLA and PLP bring back what the matching push saved, in every *)
(* program, however the calls of execute, the interrupts and the           *)
(* overdrafts cut it.                                                      *)
THEOREM PullsAreOfPushes == HSpec => PullsWhatWasPushed
<1>1. TypeOK /\ FramesHold /\ HNext => Brings
  <2> SUFFICES ASSUME TypeOK, FramesHold, HNext PROVE Brings
    OBVIOUS
  <2>1. CASE HIteration
    BY <2>1, PanicEnds, IterationEffect, PullBrings DEF HIteration, Next, Effect
  <2>2. CASE HBetween
    BY <2>2, HostEffect DEF HBetween, Brings, Executes
  <2>3. QED
    BY <2>1, <2>2 DEF HNext
<1>2. TypeOK /\ FramesHold /\ [HNext]_hvars => [Brings]_hvars
  BY <1>1
<1>3. QED
  BY <1>2, FramesAreHeld, HistoryTypes, PTL DEF HSpec, PullsWhatWasPushed, Brings
=============================================================================
