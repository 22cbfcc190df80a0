---------------------------- MODULE TracerProofs ----------------------------
(***************************************************************************)
(* Where instructions go, and what a line of the trace says of them: in    *)
(* every program the operand it names is the one that is used, and the     *)
(* target the one that is gone to, apart from the two cases the properties *)
(* leave out.                                                              *)
(***************************************************************************)
EXTENDS Tracer, StackProofs

----------------------------------------------------------------------------
(* The counter after an instruction.                                       *)

(* The row of the opcode that is fetched is one of the table.              *)
LEMMA RowOf ==
  ASSUME TypeOK
  PROVE  /\ Op.mnemonic \in {"RTS", "RTI"} => Op.len = 1
         /\ Op.mnemonic \in {"JMP", "JSR"} => Op.len = 3
         /\ Op.mnemonic = "JMP" <=> Read(m, m.pc) \in {\h4C, \h6C}
         /\ Op.mnemonic \in Branches => Op.len = 2 /\ Op.cycles = 2
         /\ Op.mode \in Forms[Op.len] \/ Op.mnemonic = "*SHY"
         /\ Op.len \in 1 .. 3 /\ Op.cycles \in 1 .. 8
<1>1. Read(m, m.pc) \in Byte
  BY ReadType DEF TypeOK
<1>2. /\ Op.len \in 1 .. 3 /\ Op.cycles \in 1 .. 8
      /\ Op.mode \in Forms[Op.len] \/ Op.mnemonic = "*SHY"
  BY <1>1, OpType, FormAssumption DEF Op, TypeOK
<1>3. Branches = Jumps \ {"RTS", "RTI", "JMP", "JSR"}
  BY DEF Branches, Jumps
<1>4. QED
  BY <1>1, <1>2, <1>3, RowAssumption DEF Op

(* The counter and the bytes after the opcode, however they are counted.   *)
LEMMA AfterOpcode ==
  ASSUME TypeOK
  PROVE  /\ m.pc \in Int /\ 0 <= m.pc /\ m.pc <= 65535
         /\ Fetched.pc = Wrap16(m.pc + 1)
         /\ \A k \in Int : Wrap16(Fetched.pc + k) = Wrap16(m.pc + (1 + k))
         /\ \A addr : Read(Fetched, addr) = Read(m, addr)
<1>1. m.pc \in Int /\ 0 <= m.pc /\ m.pc <= 65535
  BY WordIs, Widths DEF TypeOK, Machine
<1>2. Fetched.pc = Wrap16(m.pc + 1) /\ \A addr : Read(Fetched, addr) = Read(m, addr)
  BY FetchedSame
<1>3. ASSUME NEW k \in Int PROVE Wrap16(Fetched.pc + k) = Wrap16(m.pc + (1 + k))
  <2>1. m.pc + 1 \in Int /\ (m.pc + 1) + k = m.pc + (1 + k)
    BY <1>1
  <2>2. QED
    BY <1>2, <2>1, WrapOn
<1>4. QED
  BY <1>1, <1>2, <1>3

----------------------------------------------------------------------------
(* Branches.                                                               *)

(* The offset of a branch is that of an i8.                                *)
LEMMA OffsetIs == ASSUME NEW b \in Byte PROVE Signed(b) \in Int /\ -128 <= Signed(b) /\ Signed(b) <= 127
<1>1. b \in Int /\ 0 <= b /\ b <= 255
  BY ByteIs, Widths
<1>2. QED
  BY <1>1 DEF Signed

(* From any address it goes as far, over the ends of memory too.           *)
LEMMA Reaches ==
  ASSUME NEW n \in Int, NEW s \in Int, -128 <= s, s <= 127
  PROVE  (Wrap16(n + s) - n) % 65536 \in 0 .. 127 \cup (65536 - 128) .. 65535
<1>1. Wrap16(n + s) = (n + s) % 65536 /\ (n + s) % 65536 \in Int
  BY Widths DEF Wrap16
<1>2. n + s \in Int /\ -n \in Int /\ (n + s) + (-n) = s
  OBVIOUS
<1>3. 65536 \in Nat /\ 65536 > 0
  OBVIOUS
<1>4. (((n + s) % 65536) + (-n)) % 65536 = ((n + s) + (-n)) % 65536
  BY <1>2, <1>3, RestOfSum
<1>5. (Wrap16(n + s) - n) % 65536 = s % 65536
  <2>1. Wrap16(n + s) - n = ((n + s) % 65536) + (-n)
    BY <1>1
  <2>2. QED
    BY <1>2, <1>4, <2>1
<1>6. /\ s >= 0 => s % 65536 = s
      /\ s < 0 => s % 65536 = s + 65536
  OBVIOUS
<1>7. QED
  BY <1>5, <1>6

(* What an instruction that leaves some of the budget has cost.            *)
LEMMA CostIs ==
  ASSUME TypeOK, Loop!Fetching, Instruction, NEW name, NEW result \in Machine,
         NEW extra \in 0 .. 2, Does(name, result, extra), cpu_cycles' > 0
  PROVE  cpu_cycles - cpu_cycles' = Op.cycles + extra
<1> DEFINE k == Op.cycles + extra
<1>1. Op.cycles \in 1 .. 8 /\ k \in Int /\ 0 <= k /\ k <= 10
  BY RowOf
<1>2. Retire(result, k)
  <2>1. ~Unwind(result.mem)
    BY DEF Unwind, Instruction
  <2>2. QED
    BY <2>1 DEF Does, Finish
<1> HIDE DEF k
<1>3. ~Loop!Overdrawn(cpu_cycles, k) /\ cpu_cycles' = (cpu_cycles - k) % CycleSpace
  BY <1>2 DEF Retire
<1>4. /\ CycleSpace \in Nat /\ CycleSpace > 20
      /\ cpu_cycles \in Int /\ 0 <= cpu_cycles /\ cpu_cycles < CycleSpace
  BY CycleAssumption DEF TypeOK, Loop!TypeOK, Loop!MaxCost, Loop!MaxCycles, Loop!MaxExtra
<1>5. cpu_cycles >= k
  <2>1. Loop!Half \in Int /\ Loop!Half >= 10 /\ Loop!Half < CycleSpace
    BY <1>4 DEF Loop!Half
  <2>2. QED
    BY <1>1, <1>3, <1>4, <2>1 DEF Loop!Overdrawn, Loop!SignedDiff, Loop!AsSigned
<1>6. (cpu_cycles - k) % CycleSpace = cpu_cycles - k
  <2>1. cpu_cycles - k \in 0 .. CycleSpace - 1
    BY <1>1, <1>4, <1>5
  <2>2. QED
    BY <1>4, <2>1
<1>7. QED
  BY <1>1, <1>3, <1>4, <1>6 DEF k

(* A branch that goes elsewhere than on has gone by its offset, and has    *)
(* cost what the table of the 6502 says.                                   *)
Offset == Signed(Read(m, Wrap16(m.pc + 1)))

Branched ==
  LET next == Wrap16(m.pc + 2)
  IN m'.pc \notin {next, Fetched.pc} =>
       /\ m'.pc = Wrap16(m.pc + 2 + Offset)
       /\ (m'.pc - next) % 65536 \in 0 .. 127 \cup (65536 - 128) .. 65535
       /\ cpu_cycles' > 0 => cpu_cycles - cpu_cycles' = IF Hi(m'.pc) = Hi(next) THEN 3 ELSE 4

LEMMA BranchGoes ==
  ASSUME TypeOK, Loop!Fetching, Instruction, NEW name \in Branches, NEW taken,
         BranchIf(name, taken)
  PROVE  Branched
<1> DEFINE next   == Wrap16(m.pc + 2)
           result == Branch(Fetched, taken)
           extra  == BranchCycles(Fetched, taken)
<1> SUFFICES ASSUME m'.pc # next, m'.pc # Fetched.pc
             PROVE  /\ m'.pc = Wrap16(m.pc + 2 + Offset)
                    /\ (m'.pc - next) % 65536 \in 0 .. 127 \cup (65536 - 128) .. 65535
                    /\ cpu_cycles' > 0 =>
                         cpu_cycles - cpu_cycles' = IF Hi(m'.pc) = Hi(next) THEN 3 ELSE 4
  BY DEF Branched
<1>1. Fetched \in Machine /\ result \in Machine /\ extra \in 0 .. 2
  BY FetchedSame, BranchType
<1>2. Does(name, result, extra)
  BY DEF BranchIf
<1>3. Op.mnemonic = name /\ Op.len = 2 /\ Op.cycles = 2
  BY <1>2, RowOf DEF Does
<1>4. m'.pc = result.pc
  BY <1>1, <1>2, <1>3, DoesEnds
<1>5. /\ AfterOperand(Fetched) = next
      /\ Read(Fetched, Fetched.pc) = Read(m, Wrap16(m.pc + 1))
  <2>1. Wrap16(Fetched.pc + 1) = Wrap16(m.pc + (1 + 1))
    BY AfterOpcode
  <2>2. QED
    BY <2>1, AfterOpcode DEF AfterOperand
<1>6. BranchTarget(Fetched) = Wrap16(next + Offset)
  BY <1>5 DEF BranchTarget, Offset
<1>7. taken /\ m'.pc = BranchTarget(Fetched)
  <2>1. ~taken => result = Fetched
    BY DEF Branch
  <2>2. taken
    BY <1>4, <2>1
  <2>3. BranchTarget(Fetched) \in Word
    <3>1. AfterOperand(Fetched) \in Int /\ Signed(Read(Fetched, Fetched.pc)) \in Int
      BY <1>1, CounterType, ReadType, SignedType, WordIs DEF AfterOperand
    <3>2. QED
      BY <3>1, WrapType DEF BranchTarget
  <2>4. QED
    BY <1>1, <1>4, <2>2, <2>3, JumpType DEF Branch
<1>8. Offset \in Int /\ -128 <= Offset /\ Offset <= 127
  BY ReadType, OffsetIs DEF Offset, TypeOK
<1>9. next \in Int /\ m.pc + 2 \in Int
  BY AfterOpcode, WrapType, WordIs
<1>10. m'.pc = Wrap16(m.pc + 2 + Offset)
  <2>1. Wrap16(next + Offset) = Wrap16(m.pc + 2 + Offset)
    BY <1>8, <1>9, WrapOn
  <2>2. QED
    BY <1>6, <1>7, <2>1
<1>11. (m'.pc - next) % 65536 \in 0 .. 127 \cup (65536 - 128) .. 65535
  BY <1>6, <1>7, <1>8, <1>9, Reaches
<1>12. extra = IF Hi(m'.pc) = Hi(next) THEN 1 ELSE 2
  BY <1>5, <1>7 DEF BranchCycles
<1> HIDE DEF extra, result, next
<1>13. ASSUME cpu_cycles' > 0
       PROVE  cpu_cycles - cpu_cycles' = IF Hi(m'.pc) = Hi(next) THEN 3 ELSE 4
  <2>1. cpu_cycles - cpu_cycles' = 2 + extra
    BY <1>1, <1>2, <1>3, <1>13, CostIs
  <2>2. QED
    BY <1>12, <2>1
<1>14. QED
  BY <1>10, <1>11, <1>13

(* So does every branch of every program.                                  *)
LEMMA BranchesGo ==
  ASSUME TypeOK, Next, Executes(Branches) PROVE Branched
<1>1. Instruction /\ Op.mnemonic \in Branches
  BY DEF Executes
<1>2. Loop!Fetching
  BY <1>1, ActionOfName
<1>3. BCC \/ BCS \/ BNE \/ BEQ \/ BPL \/ BMI \/ BVC \/ BVS
  BY <1>1, ActionOfName DEF Branches
<1>4. {"BCC", "BCS", "BNE", "BEQ", "BPL", "BMI", "BVC", "BVS"} \subseteq Branches
  BY DEF Branches
<1>5. ASSUME NEW name \in Branches, NEW taken, BranchIf(name, taken) PROVE Branched
  BY <1>1, <1>2, <1>5, BranchGoes
<1>6. /\ BCC => Branched
      /\ BCS => Branched
  BY <1>4, <1>5 DEF BCC, BCS
<1>7. /\ BNE => Branched
      /\ BEQ => Branched
  BY <1>4, <1>5 DEF BNE, BEQ
<1>8. /\ BPL => Branched
      /\ BMI => Branched
  BY <1>4, <1>5 DEF BPL, BMI
<1>9. /\ BVC => Branched
      /\ BVS => Branched
  BY <1>4, <1>5 DEF BVC, BVS
<1>10. QED
  BY <1>3, <1>6, <1>7, <1>8, <1>9

(* In every program a branch reaches 128 bytes back and 127 ahead, over    *)
(* the ends of memory too, and costs a cycle more into another page.       *)
THEOREM BranchesReach == HSpec => BranchReach
<1> DEFINE Reach ==
      LET next == Wrap16(m.pc + 2)
          cost == cpu_cycles - cpu_cycles'
      IN Executes(Branches) /\ m'.pc \notin {next, Fetched.pc} =>
           /\ (m'.pc - next) % 65536 \in 0 .. 127 \cup (65536 - 128) .. 65535
           /\ cpu_cycles' > 0 => cost = IF Hi(m'.pc) = Hi(next) THEN 3 ELSE 4
<1>1. ASSUME TypeOK, Next PROVE Reach
  BY <1>1, BranchesGo DEF Branched
<1>2. TypeOK /\ [HNext]_hvars => [Reach]_hvars
  BY <1>1 DEF HNext, HIteration, HBetween, Next
<1>3. QED
  BY <1>2, HistoryTypes, PTL DEF HSpec, BranchReach

----------------------------------------------------------------------------
(* The operand of a line.                                                  *)

(* The byte of the line after its opcode is the operand byte.              *)
LEMMA DumpIs ==
  ASSUME TypeOK
  PROVE  /\ Len(HexDump) = Op.len
         /\ HexDump[1] = Read(m, m.pc)
         /\ Op.len > 1 => HexDump[2] = Read(Fetched, Fetched.pc)
         /\ Op.len > 2 => HexDump[3] = Read(Fetched, Wrap16(Fetched.pc + 1))
<1>1. Op.len \in 1 .. 3
  BY RowOf
<1>2. HexDump = [i \in 1 .. Op.len |-> Read(m, Wrap16(m.pc + i - 1))]
  BY DEF HexDump, Begin
<1>3. Len(HexDump) = Op.len
  <2>1. HexDump \in Seq(Byte)
    BY <1>1, <1>2, ReadType DEF TypeOK
  <2>2. DOMAIN HexDump = 1 .. Op.len
    BY <1>2
  <2>3. DOMAIN HexDump = 1 .. Len(HexDump) /\ Len(HexDump) \in Nat
    BY <2>1, LenProperties
  <2>4. QED
    BY <1>1, <2>2, <2>3
<1>4. /\ m.pc + 1 - 1 = m.pc /\ m.pc + 2 - 1 = m.pc + 1 /\ m.pc + 3 - 1 = m.pc + (1 + 1)
      /\ Wrap16(m.pc) = m.pc
  BY AfterOpcode, WrapType DEF TypeOK, Machine
<1>5. Wrap16(Fetched.pc + 1) = Wrap16(m.pc + (1 + 1))
  BY AfterOpcode
<1>6. /\ HexDump[1] = Read(m, m.pc)
      /\ Op.len > 1 => HexDump[2] = Read(m, Wrap16(m.pc + 1))
      /\ Op.len > 2 => HexDump[3] = Read(m, Wrap16(m.pc + (1 + 1)))
  <2>1. ASSUME NEW i \in 1 .. Op.len PROVE HexDump[i] = Read(m, Wrap16(m.pc + i - 1))
    BY <1>2
  <2>2. 1 \in 1 .. Op.len /\ (Op.len > 1 => 2 \in 1 .. Op.len) /\ (Op.len > 2 => 3 \in 1 .. Op.len)
    BY <1>1
  <2>3. QED
    BY <1>4, <2>1, <2>2
<1>7. /\ Read(Fetched, Fetched.pc) = Read(m, Wrap16(m.pc + 1))
      /\ Read(Fetched, Wrap16(Fetched.pc + 1)) = Read(m, Wrap16(m.pc + (1 + 1)))
  BY <1>5, FetchedSame
<1>8. QED
  BY <1>3, <1>6, <1>7

(* The two lookups of a pointer in the zero page, not at its end.          *)
LEMMA PointersAgree ==
  ASSUME NEW k, NEW b \in Byte, b # 255 PROVE ReadWord(k, b) = ReadWordInPage(k, b)
<1>1. b \in Int /\ 0 <= b /\ b <= 254
  BY ByteIs, Widths
<1>2. Wrap16(b + 1) = b + 1 /\ Wrap8(b + 1) = b + 1
  BY <1>1, WrapType, ByteIs, WordIs, Widths
<1>3. Lo(b) = b /\ Hi(b) = 0
  BY <1>1 DEF Lo, Hi
<1>4. Join(Wrap8(Lo(b) + 1), Hi(b)) = b + 1
  BY <1>1, <1>2, <1>3 DEF Join
<1>5. QED
  BY <1>2, <1>4 DEF ReadWord, ReadWordInPage

(* The address of a line is the effective address, and its value what is   *)
(* there, but for the pointer at $FF.                                      *)
LEMMA AddressNamed ==
  ASSUME TypeOK, HasAddress, ~PointerAtEnd, Op.mnemonic # "*SHY"
  PROVE  NamedAddress = At /\ NamedValue = Val
<1>1. MemAddr = At
  BY DEF MemAddr, At, Fetched, Begin, HasAddress
<1>2. NamedAddress = At
  <2>1. CASE Op.mode # "IndirectX"
    BY <1>1, <2>1 DEF NamedAddress
  <2>2. CASE Op.mode = "IndirectX"
    <3>1. Op.len = 2
      BY <2>2, RowOf DEF Forms
    <3>2. Fetched.x = m.x /\ m.x \in Byte
      BY DEF TypeOK, Machine, Fetched, Jump
    <3>3. HexDump[2] = Read(Fetched, Fetched.pc) /\ Read(Fetched, Fetched.pc) \in Byte
      BY <3>1, DumpIs, FetchedSame, ReadType
    <3>4. IndexedPointer = Wrap8(Read(Fetched, Fetched.pc) + Fetched.x)
      BY <3>2, <3>3 DEF IndexedPointer
    <3>5. IndexedPointer \in Byte /\ IndexedPointer # 255
      <4>1. Read(Fetched, Fetched.pc) + Fetched.x \in Int
        BY <3>2, <3>3, ByteIs
      <4>2. QED
        BY <2>2, <3>4, <4>1, WrapType DEF PointerAtEnd
    <3>6. ReadWord(m, IndexedPointer) = ReadWordInPage(m, IndexedPointer)
      BY <3>5, PointersAgree
    <3>7. ReadWordInPage(m, IndexedPointer) = ReadWordInPage(Fetched, IndexedPointer)
      BY FetchedSame DEF ReadWordInPage
    <3>8. At = ReadWordInPage(Fetched, IndexedPointer)
      BY <2>2, <3>4 DEF At, Address
    <3>9. NamedAddress = ReadWord(m, IndexedPointer)
      BY <2>2 DEF NamedAddress
    <3>10. QED
      BY <3>6, <3>7, <3>8, <3>9
  <2>3. QED
    BY <2>1, <2>2
<1>3. QED
  BY <1>2, FetchedSame DEF NamedValue, Val, At, Operand

(* What is loaded into X and Y is there.                                   *)
LEMMA LoadedIndex ==
  ASSUME NEW r \in Machine, NEW v \in Byte
  PROVE  LoadX(r, v).x = v /\ LoadY(r, v).y = v
<1> DEFINE s == [r EXCEPT !.x = v]
           t == [r EXCEPT !.y = v]
<1>1. s \in Machine /\ s.x = v /\ t \in Machine /\ t.y = v
  BY DEF Machine
<1> HIDE DEF s, t
<1>2. UpdateZeroNegative(s, v).x = v /\ UpdateZeroNegative(t, v).y = v
  BY <1>1, UpdateBeside DEF Beside
<1>3. QED
  BY <1>2 DEF LoadX, LoadY, s, t

(* What INC and DEC leave where they store.                                *)
LEMMA CountedIs ==
  ASSUME NEW r \in Machine, NEW mode, Address(r, mode) \in RAM
  PROVE  LET i == Inc(r, mode)
             d == Dec(r, mode)
             addr == Address(r, mode)
         IN  /\ ~i.fault => Read(i, addr) = Wrap8(Operand(r, mode) + 1)
             /\ ~d.fault => Read(d, addr) = Wrap8(Operand(r, mode) - 1)
<1> DEFINE addr == Address(r, mode)
<1>1. ASSUME NEW data \in Byte, ~StoreAndTest(r, mode, data).fault
      PROVE  Read(StoreAndTest(r, mode, data), addr) = data
  <2> DEFINE w == Write(r, addr, data)
             s == UpdateZeroNegative(w, data)
  <2>1. w \in Machine /\ (~w.fault => Read(w, addr) = data)
    BY WriteTouches
  <2>2. s = StoreAndTest(r, mode, data)
    BY DEF StoreAndTest, Store
  <2> HIDE DEF w
  <2>3. s.mem = w.mem /\ s.fault = w.fault
    BY <2>1, UpdateBeside DEF Beside
  <2> HIDE DEF s, addr
  <2>4. Read(s, addr) = Read(w, addr)
    BY <2>3, SameMemory
  <2>5. QED
    BY <1>1, <2>1, <2>2, <2>3, <2>4
<1>2. Operand(r, mode) + 1 \in Int /\ Operand(r, mode) - 1 \in Int
  BY OperandType, ByteIs
<1>3. Wrap8(Operand(r, mode) + 1) \in Byte /\ Wrap8(Operand(r, mode) - 1) \in Byte
  BY <1>2, WrapType
<1>4. QED
  BY <1>1, <1>3 DEF Inc, Dec

(* And how far that is from what was there.                                *)
LEMMA CountedBy ==
  ASSUME NEW v \in Byte
  PROVE  (Wrap8(v + 1) - v) % 256 = 1 /\ (Wrap8(v - 1) - v) % 256 = 255
<1>1. v \in Int /\ 0 <= v /\ v <= 255
  BY ByteIs, Widths
<1>2. Wrap8(v + 1) = (v + 1) % 256 /\ Wrap8(v - 1) = (v - 1) % 256
  BY Widths DEF Wrap8
<1>3. /\ v < 255 => (v + 1) % 256 = v + 1
      /\ v = 255 => (v + 1) % 256 = 0
      /\ v > 0 => (v - 1) % 256 = v - 1
      /\ v = 0 => (v - 1) % 256 = 255
  BY <1>1
<1>4. ASSUME NEW n \in Int, -256 <= n, n <= 255
      PROVE  n % 256 = IF n >= 0 THEN n ELSE n + 256
  BY <1>4
<1>5. /\ Wrap8(v + 1) - v = 1 \/ Wrap8(v + 1) - v = -255
      /\ Wrap8(v - 1) - v = -1 \/ Wrap8(v - 1) - v = 255
  BY <1>1, <1>2, <1>3
<1>6. QED
  BY <1>1, <1>2, <1>3, <1>4, <1>5

(* What an instruction loads is the value of its line.                     *)
LEMMA LoadsNamed ==
  ASSUME TypeOK, Next, HasAddress, ~PointerAtEnd, Executes({"LDA", "LDX", "LDY"})
  PROVE  Loaded(m') = NamedValue
<1>1. Instruction /\ Op.mnemonic \in {"LDA", "LDX", "LDY"}
  BY DEF Executes
<1>2. NamedValue = Val
  BY <1>1, AddressNamed
<1>3. Fetched \in Machine /\ Val \in Byte /\ Follows(Fetched, Fetched)
  BY OperandsType DEF TypeOK
<1>4. /\ LoadA(Fetched, Val) \in Machine /\ LoadX(Fetched, Val) \in Machine
      /\ LoadY(Fetched, Val) \in Machine
  BY <1>3, LoadType DEF Follows
<1>5. CASE Op.mnemonic = "LDA"
  <2>1. Does("LDA", LoadA(Fetched, Val), Penalty)
    BY <1>1, <1>5, ActionOfName DEF LDA
  <2>2. m'.a = LoadA(Fetched, Val).a
    BY <1>1, <1>4, <2>1, DoesResult
  <2>3. QED
    BY <1>2, <1>3, <1>5, <2>2, LoadedA DEF Loaded
<1>6. CASE Op.mnemonic = "LDX"
  <2>1. Does("LDX", LoadX(Fetched, Val), Penalty)
    BY <1>1, <1>6, ActionOfName DEF LDX
  <2>2. m'.x = LoadX(Fetched, Val).x
    BY <1>1, <1>4, <2>1, DoesResult
  <2>3. QED
    BY <1>2, <1>3, <1>6, <2>2, LoadedIndex DEF Loaded
<1>7. CASE Op.mnemonic = "LDY"
  <2>1. Does("LDY", LoadY(Fetched, Val), Penalty)
    BY <1>1, <1>7, ActionOfName DEF LDY
  <2>2. m'.y = LoadY(Fetched, Val).y
    BY <1>1, <1>4, <2>1, DoesResult
  <2>3. QED
    BY <1>2, <1>3, <1>7, <2>2, LoadedIndex DEF Loaded
<1>8. QED
  BY <1>1, <1>5, <1>6, <1>7

(* What an instruction stores in RAM is then at the address of its line.   *)
StoredByte ==
  CASE Op.mnemonic = "STA" -> m.a
    [] Op.mnemonic = "STX" -> m.x
    [] Op.mnemonic = "STY" -> m.y
    [] OTHER -> And(m.a, m.x)

LEMMA StoresNamed ==
  ASSUME TypeOK, Next, HasAddress, ~PointerAtEnd,
         Executes({"STA", "STX", "STY", "*SAX"}), NamedAddress \in RAM
  PROVE  Read(m', NamedAddress) = StoredByte
<1>1. Instruction /\ Op.mnemonic \in {"STA", "STX", "STY", "*SAX"}
  BY DEF Executes
<1>2. NamedAddress = At /\ At \in RAM
  BY <1>1, AddressNamed
<1>3. Fetched \in Machine /\ m.a \in Byte /\ m.x \in Byte /\ m.y \in Byte
  BY OperandsType DEF TypeOK
<1>4. And(m.a, m.x) \in Byte
  BY LogicType
<1>5. ASSUME NEW name, NEW v \in Byte, Does(name, Write(Fetched, At, v), 0)
      PROVE  Read(m', At) = v
  <2> DEFINE w == Write(Fetched, At, v)
  <2>1. w \in Machine /\ (~w.fault => Read(w, At) = v)
    BY <1>2, <1>3, WriteTouches
  <2>2. Does(name, w, 0)
    BY <1>5
  <2> HIDE DEF w
  <2>3. m'.mem = w.mem /\ ~w.fault
    BY <1>1, <2>1, <2>2, DoesResult
  <2>4. QED
    BY <2>1, <2>3, SameMemory
<1>6. CASE Op.mnemonic = "STA"
  <2>1. Does("STA", Write(Fetched, At, m.a), 0)
    BY <1>1, <1>6, ActionOfName DEF STA
  <2>2. QED
    BY <1>2, <1>3, <1>5, <1>6, <2>1 DEF StoredByte
<1>7. CASE Op.mnemonic = "STX"
  <2>1. Does("STX", Write(Fetched, At, m.x), 0)
    BY <1>1, <1>7, ActionOfName DEF STX
  <2>2. QED
    BY <1>2, <1>3, <1>5, <1>7, <2>1 DEF StoredByte
<1>8. CASE Op.mnemonic = "STY"
  <2>1. Does("STY", Write(Fetched, At, m.y), 0)
    BY <1>1, <1>8, ActionOfName DEF STY
  <2>2. QED
    BY <1>2, <1>3, <1>5, <1>8, <2>1 DEF StoredByte
<1>9. CASE Op.mnemonic = "*SAX"
  <2>1. Does("*SAX", Write(Fetched, At, And(m.a, m.x)), 0)
    BY <1>1, <1>9, ActionOfName DEF SAX
  <2>2. QED
    BY <1>2, <1>4, <1>5, <1>9, <2>1 DEF StoredByte
<1>10. QED
  BY <1>1, <1>6, <1>7, <1>8, <1>9

(* INC and DEC count from the value of their line.                         *)
LEMMA CountsNamed ==
  ASSUME TypeOK, Next, HasAddress, ~PointerAtEnd,
         Executes({"INC", "DEC"}), NamedAddress \in RAM
  PROVE  (Read(m', NamedAddress) - NamedValue) % 256 = IF Op.mnemonic = "INC" THEN 1 ELSE 255
<1>1. Instruction /\ Op.mnemonic \in {"INC", "DEC"}
  BY DEF Executes
<1>2. NamedAddress = At /\ At \in RAM /\ NamedValue = Val
  BY <1>1, AddressNamed
<1>3. Fetched \in Machine /\ Val \in Byte /\ Follows(Fetched, Fetched)
  BY OperandsType DEF TypeOK
<1> DEFINE i == Inc(Fetched, Op.mode)
           d == Dec(Fetched, Op.mode)
<1>4. i \in Machine /\ d \in Machine
  BY <1>3, IncType DEF Follows
<1>5. /\ ~i.fault => Read(i, At) = Wrap8(Val + 1)
      /\ ~d.fault => Read(d, At) = Wrap8(Val - 1)
  BY <1>2, <1>3, CountedIs DEF At, Val
<1>6. (Wrap8(Val + 1) - Val) % 256 = 1 /\ (Wrap8(Val - 1) - Val) % 256 = 255
  BY <1>3, CountedBy
<1>7. /\ Op.mnemonic = "INC" => Does("INC", i, 0)
      /\ Op.mnemonic = "DEC" => Does("DEC", d, 0)
  BY <1>1, ActionOfName DEF INC, DEC
<1> HIDE DEF i, d
<1>8. ASSUME Op.mnemonic = "INC" PROVE Read(m', At) = Wrap8(Val + 1)
  BY <1>1, <1>4, <1>5, <1>7, <1>8, DoesResult, SameMemory
<1>9. ASSUME Op.mnemonic = "DEC" PROVE Read(m', At) = Wrap8(Val - 1)
  BY <1>1, <1>4, <1>5, <1>7, <1>9, DoesResult, SameMemory
<1>10. QED
  BY <1>1, <1>2, <1>6, <1>8, <1>9

(* In every program the line of an instruction that loads or stores names  *)
(* the operand it uses.                                                    *)
THEOREM OperandsAreNamed == HSpec => TraceNamesOperand
<1> DEFINE Names ==
      HasAddress /\ ~PointerAtEnd =>
        /\ Executes({"LDA", "LDX", "LDY"}) => Loaded(m') = NamedValue
        /\ Executes({"STA", "STX", "STY", "*SAX"}) /\ NamedAddress \in RAM =>
             Read(m', NamedAddress) = CASE Op.mnemonic = "STA" -> m.a
                                        [] Op.mnemonic = "STX" -> m.x
                                        [] Op.mnemonic = "STY" -> m.y
                                        [] OTHER -> And(m.a, m.x)
        /\ Executes({"INC", "DEC"}) /\ NamedAddress \in RAM =>
             (Read(m', NamedAddress) - NamedValue) % 256
               = IF Op.mnemonic = "INC" THEN 1 ELSE 255
<1>1. ASSUME TypeOK, Next PROVE Names
  BY <1>1, LoadsNamed, StoresNamed, CountsNamed DEF StoredByte
<1>2. TypeOK /\ [HNext]_hvars => [Names]_hvars
  BY <1>1 DEF HNext, HIteration, HBetween, Next
<1>3. QED
  BY <1>2, HistoryTypes, PTL DEF HSpec, TraceNamesOperand

----------------------------------------------------------------------------
(* The target of a line.                                                   *)

(* An instruction that cannot jump leaves the counter at its first operand *)
(* byte or after its last, and there if it leaves some of the budget.      *)
LEMMA GoesOn ==
  ASSUME TypeOK, Next, Instruction, Op.mnemonic \notin Jumps
  PROVE  /\ m'.pc \in {Fetched.pc, Wrap16(m.pc + Op.len)}
         /\ cpu_cycles' > 0 => m'.pc = Wrap16(m.pc + Op.len)
<1>1. LoopStep
  BY IterationStep, HostStep DEF Next, StepOK
<1>2. Loop!Fetching /\ phase' = "running" /\ interrupt'.kind = "none"
  BY DEF Instruction, NoInterrupt
<1>3. ~FetchedOp.jumps /\ FetchedOp.len = Op.len
  BY OpType DEF TypeOK
<1>4. PICK extra \in 0 .. Loop!MaxExtra : Loop!Straight(FetchedOp, extra)
  <2>1. /\ ~Loop!HandleInterrupt(m'.pc) /\ ~Loop!Stall /\ ~Loop!Return /\ ~Loop!Break
        /\ ~Loop!Fail /\ ~Loop!Panic
    BY <1>2 DEF Loop!HandleInterrupt, Loop!Stall, Loop!Return, Loop!Break, Loop!Fail,
                Loop!Panic, Loop!Fetching
  <2>2. \A extra : ~Loop!Transfer(FetchedOp, extra, m'.pc)
    BY <1>3 DEF Loop!Transfer
  <2>3. /\ \A r \in Requests : ~Loop!Raise(r[1])
        /\ \A b \in Budgets : ~Loop!Call(b)
        /\ ~Loop!Place(m'.pc) /\ ~Loop!ClockPanic
    BY <1>2 DEF Loop!Raise, Loop!Call, Loop!Place, Loop!ClockPanic, Loop!Resting, Loop!Fetching
  <2>4. QED
    BY <1>1, <2>1, <2>2, <2>3 DEF LoopStep
<1>5. Loop!Retire(FetchedOp, FetchedOp.cycles + extra, Loop!AfterFetch)
  BY <1>4 DEF Loop!Straight
<1>6. \/ cpu_cycles' = 0 /\ m'.pc = Loop!AfterFetch
      \/ m'.pc = Loop!Following(FetchedOp)
  BY <1>5 DEF Loop!Retire
<1>7. Loop!AfterFetch = Fetched.pc /\ Loop!Following(FetchedOp) = Wrap16(m.pc + Op.len)
  BY <1>3, FetchedType DEF Loop!Following, Wrap16, TypeOK
<1>8. QED
  BY <1>6, <1>7

(* The two bytes after the opcode are the address or the pointer of a line *)
(* that has three.                                                         *)
LEMMA WordNamed ==
  ASSUME TypeOK, Op.len = 3
  PROVE  /\ Word16 = ReadWord(Fetched, Fetched.pc) /\ Word16 = ReadWord(m, Fetched.pc)
         /\ Word16 \in Word
<1>1. Word16 = ReadWord(Fetched, Fetched.pc)
  BY DumpIs DEF Word16, ReadWord
<1>2. ReadWord(Fetched, Fetched.pc) = ReadWord(m, Fetched.pc)
  BY FetchedSame DEF ReadWord
<1>3. QED
  BY <1>1, <1>2, FetchedSame, ReadWordType

(* The target of the line of a JMP through a pointer is that of the code,  *)
(* at the end of a page too.                                               *)
LEMMA PointeeNamed ==
  ASSUME TypeOK, Op.len = 3
  PROVE  /\ JumpIndirect(Fetched).pc = IndirectTarget
         /\ IndirectTarget \in Word
<1> DEFINE pointer == ReadWord(Fetched, Fetched.pc)
           target  == IF Lo(pointer) = 255 THEN Pointee(Fetched) ELSE ReadWord(Fetched, pointer)
<1>1. Fetched \in Machine /\ Word16 = pointer /\ \A addr : Read(Fetched, addr) = Read(m, addr)
  BY WordNamed, FetchedSame
<1>2. target \in Word
  BY <1>1, ReadWordType DEF Pointee
<1>3. JumpIndirect(Fetched).pc = target
  BY <1>1, <1>2, JumpType DEF JumpIndirect
<1>4. Pointee(Fetched) = ReadWordInPage(Fetched, pointer)
  BY DEF Pointee
<1> HIDE DEF pointer
<1>5. CASE Lo(pointer) = 255
  <2>1. Wrap8(Lo(pointer) + 1) = 0
    BY <1>5, Widths DEF Wrap8
  <2>2. ReadWordInPage(Fetched, pointer) = Join(Read(m, pointer), Read(m, Join(0, Hi(pointer))))
    BY <1>1, <2>1 DEF ReadWordInPage
  <2>3. QED
    BY <1>1, <1>2, <1>3, <1>4, <1>5, <2>2 DEF IndirectTarget
<1>6. CASE Lo(pointer) # 255
  <2>1. ReadWord(Fetched, pointer) = ReadWord(m, pointer)
    BY <1>1 DEF ReadWord
  <2>2. QED
    BY <1>1, <1>2, <1>3, <1>6, <2>1 DEF IndirectTarget
<1>7. QED
  BY <1>5, <1>6

(* JSR goes where its operand says, unless it has pushed over it.          *)
LEMMA CallGoes ==
  ASSUME TypeOK, Op.mnemonic = "JSR", ~CallsOverItself
  PROVE  CallSubroutine(Fetched).pc = Word16
<1> DEFINE w == Wrap16(Fetched.pc + 1)
           pushed == PushWord(Fetched, w)
<1>1. Fetched \in Machine /\ w \in Word /\ CallFrame.sp = Fetched.sp /\ CallFrame.kind = "call"
  <2>1. Fetched \in Machine
    BY FetchedSame
  <2>2. QED
    BY <2>1, CounterType, FetchedSame, FramesAre
<1>2. Slots(CallFrame) = {Slot(CallFrame, 0), Slot(CallFrame, 1)}
  BY <1>1, SlotsAre
<1> HIDE DEF w
<1>3. pushed \in Machine /\ Touches(Fetched, pushed, Slots(CallFrame))
  BY <1>1, <1>2, PushWordIs
<1> HIDE DEF pushed
<1>4. Read(pushed, Fetched.pc) = Read(Fetched, Fetched.pc) /\ Read(pushed, w) = Read(Fetched, w)
  BY <1>3 DEF Touches, CallsOverItself, w
<1>5. ReadWord(pushed, Fetched.pc) = ReadWord(Fetched, Fetched.pc)
  BY <1>4 DEF ReadWord, w
<1>6. CallSubroutine(Fetched) = Jump(pushed, ReadWord(pushed, Fetched.pc))
  BY DEF CallSubroutine, pushed, w
<1>7. CallSubroutine(Fetched).pc = ReadWord(pushed, Fetched.pc)
  BY <1>3, <1>6, ReadWordType, JumpType
<1>8. QED
  BY <1>5, <1>7, RowOf, WordNamed

(* An instruction with a target that goes elsewhere than on goes there.    *)
LEMMA TargetNamed ==
  ASSUME TypeOK, Next, Targets, Instruction, ~CallsOverItself,
         m'.pc \notin {Fetched.pc, Wrap16(Begin + Len(HexDump))}
  PROVE  m'.pc = Wrap16(NamedTarget)
<1>1. m'.pc # Fetched.pc /\ m'.pc # Wrap16(m.pc + Op.len) /\ Loop!Fetching
  BY DumpIs DEF Begin, Instruction
<1>2. Op.mnemonic \in {"JMP", "JSR"} \cup Branches
  <2>1. Op.mnemonic \in Jumps
    BY <1>1, GoesOn
  <2>2. Op.mnemonic \notin {"RTS", "RTI"}
    BY RowOf DEF Targets
  <2>3. QED
    BY <2>1, <2>2 DEF Jumps, Branches
<1>3. HexDump[1] = Read(m, m.pc) /\ \A w \in Word : Wrap16(w) = w
  BY DumpIs, WrapType, WordIs
<1>4. CASE Op.mnemonic \in Branches
  <2>1. Op.len = 2
    BY <1>4, RowOf
  <2>2. m'.pc = Wrap16(m.pc + 2 + Offset)
    BY <1>1, <1>4, <2>1, BranchesGo DEF Branched, Executes
  <2>3. HexDump[2] = Read(m, Wrap16(m.pc + 1))
    BY <2>1, DumpIs, FetchedSame
  <2>4. NamedTarget = m.pc + 2 + Offset
    BY <2>1, <2>3 DEF NamedTarget, Begin, Offset
  <2>5. QED
    BY <2>2, <2>4
<1>5. ASSUME NEW name, NEW result \in Machine, Does(name, result, 0)
      PROVE  m'.pc = result.pc
  BY <1>1, <1>5, DoesEnds
<1>6. CASE Op.mnemonic = "JMP"
  <2> DEFINE direct == Jump(Fetched, ReadWord(m, Fetched.pc))
             result == IF Read(m, m.pc) = \h4C THEN direct ELSE JumpIndirect(Fetched)
  <2>1. Op.len = 3 /\ Read(m, m.pc) \in {\h4C, \h6C}
    BY <1>6, RowOf
  <2>2. Does("JMP", result, 0)
    BY <1>6, ActionOfName DEF JMP
  <2>3. /\ direct \in Machine /\ direct.pc = Word16 /\ Word16 \in Word
        /\ JumpIndirect(Fetched) \in Machine
    BY <2>1, WordNamed, FetchedSame, JumpType, JumpIndirectType
  <2>4. result \in Machine
    BY <2>3
  <2>5. m'.pc = result.pc
    BY <1>5, <2>2, <2>4
  <2> HIDE DEF direct
  <2>6. CASE Read(m, m.pc) = \h4C
    <3>1. NamedTarget = Word16
      BY <1>3, <2>1, <2>6 DEF NamedTarget
    <3>2. QED
      BY <1>3, <2>3, <2>5, <2>6, <3>1
  <2>7. CASE Read(m, m.pc) = \h6C
    <3>1. NamedTarget = IndirectTarget
      BY <1>3, <2>1, <2>7 DEF NamedTarget
    <3>2. JumpIndirect(Fetched).pc = IndirectTarget /\ IndirectTarget \in Word
      BY <2>1, PointeeNamed
    <3>3. QED
      BY <1>3, <2>5, <2>7, <3>1, <3>2
  <2>8. QED
    BY <2>1, <2>6, <2>7
<1>7. CASE Op.mnemonic = "JSR"
  <2>1. Op.len = 3 /\ Read(m, m.pc) # \h6C
    BY <1>7, RowOf
  <2>2. Does("JSR", CallSubroutine(Fetched), 0)
    BY <1>7, ActionOfName DEF JSR
  <2>3. CallSubroutine(Fetched) \in Machine
    BY FetchedSame, CallType
  <2>4. m'.pc = CallSubroutine(Fetched).pc
    BY <1>5, <2>2, <2>3
  <2>5. CallSubroutine(Fetched).pc = Word16 /\ Word16 \in Word
    BY <1>7, <2>1, CallGoes, WordNamed
  <2>6. NamedTarget = Word16
    BY <1>3, <2>1 DEF NamedTarget
  <2>7. QED
    BY <1>3, <2>4, <2>5, <2>6
<1>8. QED
  BY <1>2, <1>4, <1>6, <1>7

(* The one row without a handler ends the call.                            *)
LEMMA Unhandled ==
  ASSUME Official \/ Unofficial, Op.mnemonic = "*SHY" PROVE phase' = "failed"
<1>1. \A name, result, extra : Does(name, result, extra) => Op.mnemonic = name
  BY DEF Does
<1>2. ~(\/ BRK \/ NOP \/ ADC \/ SBC \/ AND \/ EOR \/ ORA \/ ASL \/ LSR \/ ROL \/ ROR
        \/ INC \/ DEC \/ INX \/ INY \/ DEX \/ DEY \/ CMP \/ CPX \/ CPY \/ BIT)
  BY <1>1 DEF BRK, NOP, ADC, SBC, AND, EOR, ORA, ASL, LSR, ROL, ROR,
              INC, DEC, INX, INY, DEX, DEY, CMP, CPX, CPY, BIT
<1>3. ~(\/ JMP \/ JSR \/ RTS \/ RTI \/ BCC \/ BCS \/ BNE \/ BEQ \/ BPL \/ BMI \/ BVC \/ BVS
        \/ LDA \/ LDX \/ LDY \/ STA \/ STX \/ STY)
  BY <1>1 DEF JMP, JSR, RTS, RTI, BranchIf, BCC, BCS, BNE, BEQ, BPL, BMI, BVC, BVS,
              LDA, LDX, LDY, STA, STX, STY
<1>4. ~(\/ CLC \/ CLD \/ CLI \/ CLV \/ SEC \/ SED \/ SEI
        \/ TAX \/ TAY \/ TSX \/ TXA \/ TYA \/ TXS \/ PHA \/ PHP \/ PLA \/ PLP)
  BY <1>1 DEF CLC, CLD, CLI, CLV, SEC, SED, SEI, TAX, TAY, TSX, TXA, TYA, TXS, PHA, PHP, PLA, PLP
<1>5. ~(\/ NOPs \/ SBCx \/ SLO \/ RLA \/ SRE \/ RRA \/ DCP \/ ISC \/ ANC \/ ALR \/ ARR
        \/ AXS \/ LAX \/ SAX \/ LXA \/ XAA \/ LAS \/ TAS \/ AHX \/ SHX)
  BY <1>1 DEF NOPs, SBCx, SLO, RLA, SRE, RRA, DCP, ISC, ANC, ALR, ARR,
              AXS, LAX, SAX, LXA, XAA, LAS, TAS, AHX, SHX
<1>6. SHY
  BY <1>2, <1>3, <1>4, <1>5 DEF Official, Unofficial
<1>7. QED
  BY <1>6 DEF SHY

(* Where the trace panics the instruction panics or is refused.            *)
LEMMA PanicsAlike ==
  ASSUME TypeOK, Next, Loop!Fetching, TracePanics
  PROVE  phase' \in {"panicked", "failed"}
<1>1. SumPanic \/ (Fetch /\ (Official \/ Unofficial))
  <2>1. interrupt = NoInterrupt
    BY PendingType DEF Loop!Fetching, Loop!External
  <2>2. ~HandleInterrupt /\ ~Stall /\ ~Return
    BY <2>1 DEF HandleInterrupt, Stall, Return, Loop!Stall, Loop!Return, Loop!Fetching
  <2>3. ~Between
    BY DEF Between, Call, Raise, Reset, ClockPanic, Loop!Fetching,
           Loop!Call, Loop!ClockPanic, Loop!Resting
  <2>4. QED
    BY <2>2, <2>3 DEF Next, Iteration
<1>2. SumPanic => phase' = "panicked"
  BY DEF SumPanic, Unwind
<1>3. CASE Op.mnemonic = "*SHY"
  BY <1>1, <1>2, <1>3, Unhandled
<1>4. CASE Op.mnemonic # "*SHY"
  <2>1. overflow_checks /\ TraceOverflows
    BY <1>4, RowOf DEF TracePanics
  <2>2. m.pc \in Int /\ 0 <= m.pc /\ m.pc <= 65535 /\ Fetched.pc = Wrap16(m.pc + 1)
    BY AfterOpcode
  <2>3. m.pc = 65535 \/ (m.pc = 65534 /\ Op.len = 3)
    BY <2>1, <2>2 DEF TraceOverflows, Begin
  <2>4. m.pc = 65534 => Fetched.pc = 65535
    BY <2>2, WrapType, WordIs, Widths
  <2>5. SumOverflows
    BY <1>4, <2>3, <2>4 DEF SumOverflows
  <2>6. ~Fetch
    BY <2>1, <2>5 DEF Fetch
  <2>7. QED
    BY <1>1, <1>2, <2>6
<1>5. QED
  BY <1>3, <1>4

(* In every program the line of a jump, a call or a branch names where it  *)
(* goes, any other line ends where the next one starts, and no line that   *)
(* can be written is missing.                                              *)
THEOREM TargetsAreNamed == HSpec => TraceNamesTarget
<1> DEFINE Names ==
      /\ /\ Targets /\ Instruction /\ ~CallsOverItself
         /\ m'.pc \notin {Fetched.pc, Wrap16(Begin + Len(HexDump))}
         => m'.pc = Wrap16(NamedTarget)
      /\ ~Targets /\ Instruction /\ ~Executes(Jumps) /\ cpu_cycles' > 0 =>
           m'.pc = Wrap16(Begin + Len(HexDump))
      /\ Loop!Fetching /\ TracePanics => phase' \in {"panicked", "failed"}
<1>1. ASSUME TypeOK, Next PROVE Names
  <2>1. ASSUME Instruction, ~Executes(Jumps), cpu_cycles' > 0
        PROVE  m'.pc = Wrap16(Begin + Len(HexDump))
    BY <1>1, <2>1, GoesOn, DumpIs DEF Executes, Begin
  <2>2. QED
    BY <1>1, <2>1, TargetNamed, PanicsAlike
<1>2. TypeOK /\ [HNext]_hvars => [Names]_hvars
  BY <1>1 DEF HNext, HIteration, HBetween, Next
<1>3. QED
  BY <1>2, HistoryTypes, PTL DEF HSpec, TraceNamesTarget
=============================================================================
