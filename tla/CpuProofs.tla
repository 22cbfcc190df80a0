----------------------------- MODULE CpuProofs -----------------------------
(***************************************************************************)
(* The CPU keeps its types and implements the loop, for every opcode       *)
(* table with rows of the right shape, every memory, every program in it,  *)
(* every host and both build profiles.                                     *)
(***************************************************************************)
EXTENDS CpuHistory, MachineProofs

(* What every step has to show.                                            *)
StepOK == TypeOK' /\ LoopStep

----------------------------------------------------------------------------
(* The fetch.                                                              *)

(* The fetch finds a row of the right shape, and the loop knows it.        *)
LEMMA OpType ==
  ASSUME m \in Machine
  PROVE  /\ Op.len \in 1 .. 3 /\ Op.cycles \in 1 .. 8 /\ Op.mode \in AddressingMode
         /\ FetchedOp \in LoopOps
         /\ FetchedOp.len = Op.len /\ FetchedOp.cycles = Op.cycles
         /\ FetchedOp.jumps = (Op.mnemonic \in Jumps)
<1>1. Read(m, m.pc) \in Byte
  BY ReadType
<1>2. QED
  BY <1>1, TableAssumption
     DEF Op, FetchedOp, LoopOp, LoopOps, Loop!MaxLen, Loop!MaxCycles

(* The fetch only moves the counter.                                       *)
LEMMA FetchedType ==
  ASSUME m \in Machine
  PROVE  /\ Fetched \in Machine /\ Fetched.pc = Loop!AfterFetch
         /\ Fetched.mem = m.mem
<1>1. Wrap16(m.pc + 1) \in Word
  BY CounterType
<1>2. Fetched \in Machine /\ Fetched.pc = Wrap16(m.pc + 1)
  BY <1>1, JumpType DEF Fetched
<1>3. QED
  BY <1>2 DEF Loop!AfterFetch, Wrap16, Fetched, Jump, Machine

(* What the handlers take.                                                 *)
LEMMA OperandsType ==
  ASSUME m \in Machine
  PROVE  /\ Follows(Fetched, Fetched) /\ Fetched \in Machine
         /\ Val \in Byte /\ Penalty \in 0 .. 2
         /\ m.a \in Byte /\ m.x \in Byte /\ m.y \in Byte /\ m.sp \in Byte
         /\ m.p \in SUBSET Bit
<1>1. Fetched \in Machine
  BY FetchedType
<1>2. Val \in Byte
  BY <1>1, OperandType DEF Val
<1>3. QED
  BY <1>1, <1>2 DEF Follows, Penalty, Machine

----------------------------------------------------------------------------
(* The end of an iteration.                                                *)

(* A panic is a Panic of the loop, whatever was written before it.         *)
LEMMA UnwindStep ==
  ASSUME TypeOK, Loop!Fetching \/ (phase = "running" /\ interrupt.kind # "none"),
         NEW r \in Machine, Unwind(r.mem)
  PROVE  StepOK
<1>1. m' \in Machine /\ m'.pc = m.pc
  BY DEF TypeOK, Unwind, Machine
<1>2. phase' = "panicked" /\ UNCHANGED <<interrupt, cpu_cycles, stall_cycles, overflow_checks>>
  BY DEF Unwind
<1>3. Loop!Panic
  BY <1>1, <1>2 DEF Loop!Panic
<1>4. TypeOK'
  BY <1>1, <1>2 DEF TypeOK, Loop!TypeOK, Loop!Phase, Machine
<1>5. QED
  BY <1>3, <1>4 DEF StepOK, LoopStep

(* What is left of a budget is a budget.                                   *)
LEMMA BudgetType ==
  ASSUME TypeOK, NEW k \in Int
  PROVE  (cpu_cycles - k) % CycleSpace \in 0 .. CycleSpace - 1 /\ 0 \in 0 .. CycleSpace - 1
<1>1. CycleSpace \in Nat /\ CycleSpace > 0
  BY CycleAssumption DEF Loop!MaxCost, Loop!MaxCycles, Loop!MaxExtra
<1>2. cpu_cycles - k \in Int
  BY <1>1 DEF TypeOK, Loop!TypeOK
<1>3. QED
  BY <1>1, <1>2

(* An instruction that does not jump is a Straight step of the loop, one   *)
(* that does a Transfer to where it leaves the counter.                    *)
LEMMA RetireStep ==
  ASSUME TypeOK, Loop!Fetching, NEW after \in Machine, NEW extra \in 0 .. 2,
         after.pc = Fetched.pc \/ Op.mnemonic \in Jumps,
         Retire(after, Op.cycles + extra)
  PROVE  StepOK
<1> DEFINE k == Op.cycles + extra
<1>0. m \in Machine /\ m.pc \in Word /\ m.pc \in Int
  BY WordIs DEF TypeOK, Machine
<1>1. /\ Op.len \in Int /\ k \in Int /\ FetchedOp.cycles + extra = k
      /\ FetchedOp.len = Op.len
      /\ FetchedOp.jumps = (Op.mnemonic \in Jumps)
  BY <1>0, OpType
<1>2. /\ UNCHANGED <<interrupt, phase, stall_cycles, overflow_checks>>
      /\ IF Loop!Overdrawn(cpu_cycles, k)
           THEN cpu_cycles' = 0 /\ m' = after
           ELSE cpu_cycles' = (cpu_cycles - k) % CycleSpace /\ m' = Advance(after)
  BY DEF Retire
<1> HIDE DEF k
<1>3. Wrap16(m.pc + Op.len) \in Word /\ Wrap16(m.pc + Op.len) = Loop!Following(FetchedOp)
  BY <1>0, <1>1, CounterType DEF Loop!Following, Wrap16
<1>4. Advance(after) \in Machine
      /\ Advance(after).pc = IF after.pc = Fetched.pc THEN Loop!Following(FetchedOp)
                                                      ELSE after.pc
  BY <1>3, JumpType DEF Advance
<1>5. Fetched.pc = Loop!AfterFetch
  BY <1>0, FetchedType
<1>6. TypeOK'
  <2>1. m' \in Machine /\ m'.pc \in Word
    BY <1>2, <1>4 DEF Machine
  <2>2. cpu_cycles' \in 0 .. CycleSpace - 1
    BY <1>1, <1>2, BudgetType
  <2>3. Word = Loop!Addr
    BY Widths DEF Word, Loop!Addr
  <2>4. QED
    BY <1>2, <2>1, <2>2, <2>3 DEF TypeOK, Loop!TypeOK
<1>7. CASE after.pc = Fetched.pc
  <2>1. Loop!Retire(FetchedOp, k, Loop!AfterFetch)
    BY <1>2, <1>4, <1>5, <1>7 DEF Loop!Retire
  <2>2. Loop!Straight(FetchedOp, extra)
    BY <1>1, <1>2, <2>1 DEF Loop!Straight
  <2>3. QED
    BY <1>6, <2>2 DEF StepOK, LoopStep, Loop!MaxExtra
<1>8. CASE after.pc # Fetched.pc /\ Op.mnemonic \in Jumps
  <2>1. Loop!Retire(FetchedOp, k, m'.pc)
    BY <1>2, <1>4, <1>5, <1>8 DEF Loop!Retire
  <2>2. Loop!Transfer(FetchedOp, extra, m'.pc)
    BY <1>1, <1>2, <1>8, <2>1 DEF Loop!Transfer
  <2>3. QED
    BY <1>6, <2>2 DEF StepOK, LoopStep, Loop!MaxExtra
<1>9. QED
  BY <1>7, <1>8

(* What a handler leaves, retired or unwound, is a step of the loop.       *)
LEMMA DoesStep ==
  ASSUME TypeOK, Loop!Fetching, NEW name, NEW result, NEW extra \in 0 .. 2,
         Does(name, result, extra),
         Follows(Fetched, result) \/ (result \in Machine /\ name \in Jumps)
  PROVE  StepOK
<1>1. Op.mnemonic = name /\ Finish(result, Op.cycles + extra)
  BY DEF Does
<1>2. result \in Machine /\ (result.pc = Fetched.pc \/ Op.mnemonic \in Jumps)
  BY <1>1 DEF Follows
<1>3. CASE Unwind(result.mem)
  BY <1>2, <1>3, UnwindStep
<1>4. CASE Retire(result, Op.cycles + extra)
  BY <1>2, <1>4, RetireStep
<1>5. QED
  BY <1>1, <1>3, <1>4 DEF Finish

----------------------------------------------------------------------------
(* The instructions.                                                       *)

(* Each of them is a step of the loop; BRK is its Break.                   *)
LEMMA OfficialStep ==
  ASSUME TypeOK, Loop!Fetching, Official PROVE StepOK
<1>0. /\ Follows(Fetched, Fetched) /\ Fetched \in Machine
      /\ Val \in Byte /\ Penalty \in 0 .. 2 /\ 0 \in 0 .. 2
      /\ m.a \in Byte /\ m.x \in Byte /\ m.y \in Byte /\ m.sp \in Byte
      /\ m.p \in SUBSET Bit
  BY OperandsType DEF TypeOK
<1>1. ASSUME BRK PROVE StepOK
  <2>1. m' = Fetched /\ interrupt' = BrkRequest
        /\ UNCHANGED <<phase, cpu_cycles, stall_cycles, overflow_checks>>
    BY <1>1 DEF BRK
  <2>2. m' \in Machine /\ m'.pc = Loop!AfterFetch /\ m'.pc \in Word
    BY <1>0, <2>1, FetchedType DEF TypeOK, Machine
  <2>3. interrupt'.kind = "BRK"
    BY <2>1 DEF BrkRequest
  <2>4. Loop!Break
    BY <2>1, <2>2, <2>3 DEF Loop!Break
  <2>5. Word = Loop!Addr
    BY Widths DEF Word, Loop!Addr
  <2>6. TypeOK'
    BY <2>1, <2>2, <2>3, <2>5 DEF TypeOK, Loop!TypeOK, Loop!Pending
  <2>7. QED
    BY <2>4, <2>6 DEF StepOK, LoopStep
<1>2. ASSUME NOP PROVE StepOK
  BY <1>0, <1>2, DoesStep DEF NOP
<1>3. ASSUME ADC \/ SBC PROVE StepOK
  BY <1>0, <1>3, SumType, DoesStep DEF ADC, SBC
<1>4. ASSUME AND \/ EOR \/ ORA PROVE StepOK
  BY <1>0, <1>4, AndAType, DoesStep DEF AND, EOR, ORA
<1>5. ASSUME ASL \/ LSR \/ ROL \/ ROR PROVE StepOK
  BY <1>0, <1>5, ShiftType, DoesStep DEF ASL, LSR, ROL, ROR
<1>6. ASSUME INC \/ DEC PROVE StepOK
  BY <1>0, <1>6, IncType, DoesStep DEF INC, DEC
<1>7. ASSUME INX \/ INY \/ DEX \/ DEY PROVE StepOK
  <2>1. /\ Wrap8(m.x + 1) \in Byte /\ Wrap8(m.x - 1) \in Byte
        /\ Wrap8(m.y + 1) \in Byte /\ Wrap8(m.y - 1) \in Byte
    BY <1>0, ByteIs, WrapType
  <2>2. QED
    BY <1>0, <1>7, <2>1, LoadType, DoesStep DEF INX, INY, DEX, DEY
<1>8. ASSUME CMP \/ CPX \/ CPY PROVE StepOK
  BY <1>0, <1>8, CompareType, DoesStep DEF CMP, CPX, CPY
<1>9. ASSUME BIT PROVE StepOK
  BY <1>0, <1>9, BitTestType, DoesStep DEF BIT
<1>10. ASSUME JMP PROVE StepOK
  <2> DEFINE result == IF Read(m, m.pc) = \h4C THEN Jump(Fetched, ReadWord(m, Fetched.pc))
                                               ELSE JumpIndirect(Fetched)
  <2>1. result \in Machine
    BY <1>0, ReadWordType, JumpType, JumpIndirectType DEF TypeOK
  <2>2. Does("JMP", result, 0)
    BY <1>10 DEF JMP
  <2> HIDE DEF result
  <2>3. QED
    BY <1>0, <2>1, <2>2, DoesStep DEF Jumps
<1>11. ASSUME JSR \/ RTS \/ RTI PROVE StepOK
  BY <1>0, <1>11, CallType, ReturnType, ReturnFromInterruptType, DoesStep
     DEF JSR, RTS, RTI, Jumps
<1>12. ASSUME NEW name, NEW taken, BranchIf(name, taken), name \in Jumps PROVE StepOK
  BY <1>0, <1>12, BranchType, DoesStep DEF BranchIf
<1>13. ASSUME BCC \/ BCS \/ BNE \/ BEQ \/ BPL \/ BMI \/ BVC \/ BVS PROVE StepOK
  BY <1>12, <1>13 DEF BCC, BCS, BNE, BEQ, BPL, BMI, BVC, BVS, Jumps
<1>14. ASSUME LDA \/ LDX \/ LDY PROVE StepOK
  BY <1>0, <1>14, LoadType, DoesStep DEF LDA, LDX, LDY
<1>15. ASSUME STA \/ STX \/ STY PROVE StepOK
  BY <1>0, <1>15, StoreType, DoesStep DEF STA, STX, STY
<1>16. ASSUME CLC \/ CLD \/ CLI \/ CLV \/ SEC \/ SED \/ SEI PROVE StepOK
  BY <1>0, <1>16, SetFlagType, FlagNumbers, DoesStep DEF CLC, CLD, CLI, CLV, SEC, SED, SEI
<1>17. ASSUME TAX \/ TAY \/ TSX \/ TXA \/ TYA PROVE StepOK
  BY <1>0, <1>17, LoadType, DoesStep DEF TAX, TAY, TSX, TXA, TYA
<1>18. ASSUME TXS PROVE StepOK
  BY <1>0, <1>18, RegisterType, DoesStep DEF TXS
<1>19. ASSUME PHA \/ PHP PROVE StepOK
  <2>1. FromBits(m.p) \in Byte
    BY FromBitsType
  <2>2. Follows(Fetched, Push(Fetched, m.a)) /\ Follows(Fetched, Push(Fetched, FromBits(m.p)))
    BY <1>0, <2>1, PushType DEF Follows
  <2>3. QED
    BY <1>0, <1>19, <2>2, DoesStep DEF PHA, PHP
<1>20. ASSUME PLA PROVE StepOK
  <2>1. Follows(Fetched, Popped(Fetched)) /\ Top(Fetched) \in Byte
    BY <1>0, PullType DEF Follows
  <2>2. QED
    BY <1>0, <1>20, <2>1, LoadType, DoesStep DEF PLA
<1>21. ASSUME PLP PROVE StepOK
  BY <1>0, <1>21, PullStatusType, DoesStep DEF PLP
<1>22. QED
  BY <1>1, <1>2, <1>3, <1>4, <1>5, <1>6, <1>7, <1>8, <1>9, <1>10, <1>11, <1>13, <1>14,
     <1>15, <1>16, <1>17, <1>18, <1>19, <1>20, <1>21 DEF Official

(* The unofficial ones: only *SHY is not like the others.                  *)
LEMMA UnofficialStep ==
  ASSUME TypeOK, Loop!Fetching, Unofficial PROVE StepOK
<1>0. /\ Follows(Fetched, Fetched) /\ Fetched \in Machine
      /\ Val \in Byte /\ Penalty \in 0 .. 2 /\ 0 \in 0 .. 2
  BY OperandsType DEF TypeOK
<1>1. ASSUME NOPs PROVE StepOK
  BY <1>0, <1>1, DoesStep DEF NOPs
<1>2. ASSUME SBCx PROVE StepOK
  BY <1>0, <1>2, SumType, DoesStep DEF SBCx
<1>3. ASSUME SLO \/ RLA \/ SRE \/ RRA PROVE StepOK
  BY <1>0, <1>3, UnofficialType, DoesStep DEF SLO, RLA, SRE, RRA
<1>4. ASSUME DCP \/ ISC \/ ANC \/ ALR \/ ARR PROVE StepOK
  BY <1>0, <1>4, UnofficialType, DoesStep DEF DCP, ISC, ANC, ALR, ARR
<1>5. ASSUME AXS \/ LAX \/ LXA \/ XAA \/ LAS PROVE StepOK
  BY <1>0, <1>5, UnofficialType, DoesStep DEF AXS, LAX, LXA, XAA, LAS
<1>6. ASSUME SAX PROVE StepOK
  BY <1>0, <1>6, StoreType, LogicType, DoesStep DEF SAX
<1>7. ASSUME TAS \/ AHX \/ SHX PROVE StepOK
  BY <1>0, <1>7, UnstableType, DoesStep DEF TAS, AHX, SHX
<1>8. ASSUME SHY PROVE StepOK
  <2>1. m' = Fetched /\ phase' = "failed" /\ cpu_cycles' = 0
        /\ UNCHANGED <<interrupt, stall_cycles, overflow_checks>>
    BY <1>8 DEF SHY
  <2>2. m' \in Machine /\ m'.pc = Loop!AfterFetch /\ m'.pc \in Word
    BY <1>0, <2>1, FetchedType DEF TypeOK, Machine
  <2>3. Loop!Fail
    BY <2>1, <2>2 DEF Loop!Fail
  <2>4. Word = Loop!Addr
    BY Widths DEF Word, Loop!Addr
  <2>5. cpu_cycles' \in 0 .. CycleSpace - 1
    BY <2>1, BudgetType
  <2>6. TypeOK'
    BY <2>1, <2>2, <2>4, <2>5 DEF TypeOK, Loop!TypeOK, Loop!Phase
  <2>7. QED
    BY <2>3, <2>6 DEF StepOK, LoopStep
<1>9. QED
  BY <1>1, <1>2, <1>3, <1>4, <1>5, <1>6, <1>7, <1>8 DEF Unofficial

----------------------------------------------------------------------------
(* The interrupts.                                                         *)

(* What is pending has a kind the loop knows, and stores bytes.            *)
LEMMA PendingType ==
  ASSUME TypeOK
  PROVE  /\ interrupt # NoInterrupt => interrupt.kind \in Loop!External \cup {"BRK"}
         /\ interrupt = NoInterrupt => interrupt.kind = "none"
         /\ \A addr \in DOMAIN interrupt.handler : interrupt.handler[addr] \in Byte
<1>1. CASE interrupt \in {NoInterrupt, BrkRequest}
  BY <1>1 DEF NoInterrupt, BrkRequest, NoHandler
<1>2. CASE interrupt \in {[kind |-> r[1], handler |-> r[2]] : r \in Requests}
  <2>1. PICK r \in Requests : interrupt = [kind |-> r[1], handler |-> r[2]]
    BY <1>2
  <2>2. interrupt.kind \in Loop!External
        /\ \A addr \in DOMAIN interrupt.handler : interrupt.handler[addr] \in Byte
    BY <2>1, HostAssumption
  <2>3. QED
    BY <2>2 DEF NoInterrupt, Loop!External
<1>3. QED
  BY <1>1, <1>2 DEF TypeOK

(* Each kind of interrupt leaves a machine.                                *)
LEMMA ServicedType ==
  ASSUME TypeOK, interrupt # NoInterrupt PROVE Serviced \in Machine
<1>1. m \in Machine
  BY DEF TypeOK
<1>2. \A status, vector : Enter(m, status, interrupt.handler, vector) \in Machine
  BY <1>1, EnterType, PendingType
<1>3. ResetMachine(m) \in Machine
  BY <1>1, ResetType
<1>4. interrupt.kind \in {"NMI", "IRQ", "RESET", "BRK"}
  BY PendingType DEF Loop!External
<1>5. QED
  BY <1>2, <1>3, <1>4 DEF Serviced

(* An interrupt, served or panicking, is a step of the loop.               *)
LEMMA InterruptStep ==
  ASSUME TypeOK, HandleInterrupt PROVE StepOK
<1>1. phase = "running" /\ interrupt # NoInterrupt
  BY DEF HandleInterrupt
<1>2. interrupt.kind # "none"
  BY <1>1, PendingType DEF Loop!External
<1>3. Serviced \in Machine
  BY <1>1, ServicedType
<1>4. CASE Unwind(Serviced.mem)
  BY <1>1, <1>2, <1>3, <1>4, UnwindStep
<1>5. CASE /\ m' = Serviced
           /\ interrupt' = NoInterrupt
           /\ cpu_cycles' = 0
           /\ stall_cycles' = Loop!InterruptCycles(interrupt.kind)
           /\ UNCHANGED <<phase, overflow_checks>>
  <2>1. m' \in Machine /\ m'.pc \in Word
    BY <1>3, <1>5 DEF Machine
  <2>2. interrupt'.kind = "none"
    BY <1>5 DEF NoInterrupt
  <2>3. Loop!HandleInterrupt(m'.pc)
    BY <1>1, <1>2, <1>5, <2>2 DEF Loop!HandleInterrupt
  <2>4. Word = Loop!Addr
    BY Widths DEF Word, Loop!Addr
  <2>5. cpu_cycles' \in 0 .. CycleSpace - 1
    BY <1>5, BudgetType
  <2>6. stall_cycles' \in 0 .. Loop!MaxStall
    BY <1>5 DEF Loop!InterruptCycles, Loop!MaxStall
  <2>7. TypeOK'
    BY <1>5, <2>1, <2>2, <2>4, <2>5, <2>6 DEF TypeOK, Loop!TypeOK, Loop!Pending
  <2>8. QED
    BY <2>3, <2>7 DEF StepOK, LoopStep
<1>6. QED
  BY <1>4, <1>5 DEF HandleInterrupt

----------------------------------------------------------------------------
(* The loop around them, and the host.                                     *)

(* A panic of the fetch leaves the memory as it was.                       *)
LEMMA IterationStep ==
  ASSUME TypeOK, Iteration PROVE StepOK
<1>0. Word = Loop!Addr /\ m \in Machine
  BY Widths DEF Word, Loop!Addr, TypeOK
<1>1. ASSUME Stall PROVE StepOK
  <2>1. Loop!Stall /\ UNCHANGED <<m, interrupt, overflow_checks>>
    BY <1>1 DEF Stall
  <2>2. TypeOK'
    BY <2>1 DEF Loop!Stall, TypeOK, Loop!TypeOK, Loop!MaxStall
  <2>3. QED
    BY <2>1, <2>2 DEF StepOK, LoopStep
<1>2. ASSUME Return PROVE StepOK
  <2>1. Loop!Return /\ UNCHANGED <<m, interrupt, overflow_checks>>
    BY <1>2 DEF Return
  <2>2. TypeOK'
    BY <2>1 DEF Loop!Return, TypeOK, Loop!TypeOK, Loop!Phase
  <2>3. QED
    BY <2>1, <2>2 DEF StepOK, LoopStep
<1>3. ASSUME SumPanic PROVE StepOK
  BY <1>0, <1>3, UnwindStep DEF SumPanic
<1>4. ASSUME Fetch, Official \/ Unofficial PROVE StepOK
  BY <1>4, OfficialStep, UnofficialStep DEF Fetch
<1>5. QED
  BY <1>1, <1>2, <1>3, <1>4, InterruptStep DEF Iteration

(* What the owner does between two calls is a step of the loop.            *)
LEMMA HostStep ==
  ASSUME TypeOK, Between PROVE StepOK
<1>1. ASSUME NEW b \in Budgets, Call(b) PROVE StepOK
  <2>1. Loop!Call(b) /\ UNCHANGED <<m, interrupt, overflow_checks>>
    BY <1>1 DEF Call
  <2>2. cpu_cycles' \in 0 .. CycleSpace - 1 /\ stall_cycles' \in 0 .. Loop!MaxStall
    BY <1>1, <2>1, CycleAssumption DEF Loop!Call, Loop!MaxStall
  <2>3. TypeOK'
    BY <2>1, <2>2 DEF Loop!Call, TypeOK, Loop!TypeOK, Loop!Phase
  <2>4. QED
    BY <1>1, <2>1, <2>3 DEF StepOK, LoopStep
<1>2. ASSUME ClockPanic PROVE StepOK
  <2>1. Loop!ClockPanic /\ UNCHANGED <<m, interrupt, overflow_checks>>
    BY <1>2 DEF ClockPanic
  <2>2. TypeOK'
    BY <2>1 DEF Loop!ClockPanic, TypeOK, Loop!TypeOK, Loop!Phase
  <2>3. QED
    BY <2>1, <2>2 DEF StepOK, LoopStep
<1>3. ASSUME NEW r \in Requests, Raise(r[1], r[2]) PROVE StepOK
  <2>1. /\ Loop!Resting /\ interrupt' = [kind |-> r[1], handler |-> r[2]]
        /\ UNCHANGED <<m, phase, cpu_cycles, stall_cycles, overflow_checks>>
    BY <1>3 DEF Raise
  <2>2. interrupt'.kind = r[1] /\ r[1] \in Loop!External
    BY <2>1, HostAssumption
  <2>3. Loop!Raise(r[1])
    BY <2>1, <2>2 DEF Loop!Raise
  <2>4. interrupt' \in {[kind |-> q[1], handler |-> q[2]] : q \in Requests}
    BY <2>1
  <2>5. TypeOK'
    BY <2>1, <2>2, <2>4 DEF TypeOK, Loop!TypeOK, Loop!Pending
  <2>6. QED
    BY <2>3, <2>5 DEF StepOK, LoopStep
<1>4. ASSUME Reset PROVE StepOK
  <2>1. /\ Loop!Resting /\ m' = ResetMachine(m)
        /\ UNCHANGED <<interrupt, phase, cpu_cycles, stall_cycles, overflow_checks>>
    BY <1>4 DEF Reset
  <2>2. m' \in Machine /\ m'.pc \in Word
    BY <2>1, ResetType DEF TypeOK, Machine
  <2>3. Loop!Place(m'.pc)
    BY <2>1 DEF Loop!Place
  <2>4. Word = Loop!Addr
    BY Widths DEF Word, Loop!Addr
  <2>5. TypeOK'
    BY <2>1, <2>2, <2>4 DEF TypeOK, Loop!TypeOK
  <2>6. QED
    BY <2>3, <2>5 DEF StepOK, LoopStep
<1>5. QED
  BY <1>1, <1>2, <1>3, <1>4 DEF Between

(* The CPU starts as the loop does.                                        *)
LEMMA InitOK == Init => TypeOK /\ Loop!Init
<1> SUFFICES ASSUME Init PROVE TypeOK /\ Loop!Init
  OBVIOUS
<1>1. m \in Machine /\ m.pc \in Word
  BY HostAssumption DEF Init, Machine
<1>2. interrupt = NoInterrupt /\ interrupt.kind = "none"
  BY DEF Init, NoInterrupt
<1>3. Word = Loop!Addr
  BY Widths DEF Word, Loop!Addr
<1>4. 0 \in 0 .. CycleSpace - 1 /\ 0 \in 0 .. Loop!MaxStall
  BY CycleAssumption DEF Loop!MaxCost, Loop!MaxCycles, Loop!MaxExtra, Loop!MaxStall
<1>5. QED
  BY <1>1, <1>2, <1>3, <1>4
     DEF Init, TypeOK, Loop!TypeOK, Loop!Init, Loop!Pending, Loop!Phase

(* One step keeps the types and is a step of the loop, or a stutter.       *)
LEMMA StepStep == TypeOK /\ [Next]_vars => TypeOK' /\ [LoopStep]_(Loop!vars)
<1>1. ASSUME TypeOK, Next PROVE StepOK
  BY <1>1, IterationStep, HostStep DEF Next
<1>2. ASSUME TypeOK, UNCHANGED vars PROVE TypeOK' /\ UNCHANGED Loop!vars
  BY <1>2 DEF vars, TypeOK, Loop!TypeOK, Loop!vars
<1>3. QED
  BY <1>1, <1>2 DEF StepOK

----------------------------------------------------------------------------
(* Whatever a program does, the registers, the memory and the status keep  *)
(* their widths, and the locals of execute their ranges.                   *)
THEOREM TypeCorrect == Spec => []TypeOK
<1>1. Init => TypeOK
  BY InitOK
<1>2. TypeOK /\ [Next]_vars => TypeOK'
  BY StepStep
<1>3. QED
  BY <1>1, <1>2, PTL DEF Spec

(* Every step of the CPU, on every program, is the step of ExecuteLoop     *)
(* that the row of the fetched opcode and the counter it left say.         *)
THEOREM CpuImplementsLoop == Spec => ImplementsLoop
<1>1. Init => Loop!Init
  BY InitOK
<1>2. TypeOK /\ [Next]_vars => [LoopStep]_(Loop!vars)
  BY StepStep
<1>3. QED
  BY <1>1, <1>2, TypeCorrect, PTL DEF Spec, ImplementsLoop

(* So the CPU is an implementation of ExecuteLoop, whatever its program.   *)
THEOREM CpuRefinesLoop == Spec => Loop!Spec
<1>1. TypeOK /\ TypeOK' /\ LoopStep => Loop!Next
  <2> SUFFICES ASSUME TypeOK, TypeOK', LoopStep PROVE Loop!Next
    OBVIOUS
  <2>1. m'.pc \in Loop!Addr
    BY DEF TypeOK, Loop!TypeOK
  <2>2. FetchedOp \in LoopOps
    BY OpType DEF TypeOK
  <2>3. \A r \in Requests : r[1] \in Loop!External
    BY HostAssumption
  <2>4. QED
    BY <2>1, <2>2, <2>3 DEF LoopStep, Loop!Next, Loop!Iteration, Loop!Between
<1>2. TypeOK /\ TypeOK' /\ [LoopStep]_(Loop!vars) => [Loop!Next]_(Loop!vars)
  BY <1>1
<1>3. QED
  BY <1>2, TypeCorrect, CpuImplementsLoop, PTL DEF ImplementsLoop, Loop!Spec

(* A machine that has Break only if the machine k has it.                  *)
NoBreak(k, r) == r \in Machine /\ (Break \in r.p => Break \in k.p)

Both == {Zero, Negative}

(* And that has Zero and Negative together only if k has.                  *)
Keeps(k, r) == NoBreak(k, r) /\ (Both \subseteq r.p => Both \subseteq k.p)

----------------------------------------------------------------------------
(* The parts of the handlers.                                              *)

(* A machine with the status of one that is kept.                          *)
LEMMA SameKeeps ==
  ASSUME NEW k, NEW r, Keeps(k, r), NEW s \in Machine, s.p = r.p
  PROVE  Keeps(k, s)
BY DEF Keeps, NoBreak

(* Stores and pushes leave the status.                                     *)
LEMMA StoreStatus ==
  ASSUME NEW r \in Machine, NEW addr, NEW data \in Byte
  PROVE  /\ Write(r, addr, data) \in Machine /\ Write(r, addr, data).p = r.p
         /\ Push(r, data) \in Machine /\ Push(r, data).p = r.p
<1>1. \A b \in Byte : Write(r, b, data) \in Machine
  BY WriteType
<1>2. \A b : Write(r, b, data) \in Machine /\ Write(r, b, data).p = r.p
  BY WriteType DEF Write, Machine
<1>3. /\ Push(r, data) \in Machine
      /\ Push(r, data) = [Write(r, StackAddr(r), data) EXCEPT
                            !.sp = Wrap8(Write(r, StackAddr(r), data).sp + 1)]
  BY PushType DEF Push
<1>4. ASSUME NEW w \in Machine, NEW b PROVE [w EXCEPT !.sp = b].p = w.p
  BY DEF Machine
<1>5. QED
  BY <1>2, <1>3, <1>4

(* A push keeps the two.                                                  *)
LEMMA PushKeeps ==
  ASSUME NEW r \in Machine, NEW data \in Byte
  PROVE  Keeps(r, Push(r, data))
BY StoreStatus DEF Keeps, NoBreak

(* And so does a pull, but for what is made of the byte.                   *)
LEMMA PoppedStatus ==
  ASSUME NEW r \in Machine
  PROVE  Popped(r) \in Machine /\ Popped(r).p = r.p
BY PullType DEF Popped, Machine

(* The flags are eight different bits.                                     *)
LEMMA FlagsDiffer ==
  /\ Break \notin {Carry, Zero, Interrupt, Decimal, UNK, Overflow, Negative}
  /\ {Zero, Negative} \cap {Carry, Interrupt, Decimal, UNK, Overflow} = {}
  /\ Zero # Negative
BY DEF Carry, Zero, Interrupt, Decimal, Break, UNK, Overflow, Negative

(* What is in a status after one flag was set or cleared.                  *)
LEMMA FlagStatus ==
  ASSUME NEW r \in Machine, NEW flag \in Bit, NEW on
  PROVE  /\ Flag(r, flag, on) \in Machine
         /\ on => Flag(r, flag, on).p = r.p \cup {flag}
         /\ ~on => Flag(r, flag, on).p = r.p \ {flag}
<1>1. Flag(r, flag, on) \in Machine
  BY FlagType
<1>2. /\ [r EXCEPT !.p = r.p \cup {flag}].p = r.p \cup {flag}
      /\ [r EXCEPT !.p = r.p \ {flag}].p = r.p \ {flag}
  BY DEF Machine
<1>3. CASE on
  BY <1>1, <1>2, <1>3 DEF Flag
<1>4. CASE ~on
  BY <1>1, <1>2, <1>4 DEF Flag
<1>5. QED
  BY <1>3, <1>4

(* A flag is what it was set to.                                           *)
LEMMA FlagIs ==
  ASSUME NEW r \in Machine, NEW flag \in Bit, NEW on
  PROVE  flag \in Flag(r, flag, on).p <=> on
<1>1. CASE on
  <2>1. Flag(r, flag, on).p = r.p \cup {flag}
    BY <1>1, FlagStatus
  <2>2. QED
    BY <1>1, <2>1
<1>2. CASE ~on
  <2>1. Flag(r, flag, on).p = r.p \ {flag}
    BY <1>2, FlagStatus
  <2>2. QED
    BY <1>2, <2>1
<1>3. QED
  BY <1>1, <1>2

(* And what is not.                                                        *)
LEMMA FlagAlone ==
  ASSUME NEW r \in Machine, NEW flag \in Bit, NEW on
  PROVE  /\ \A f : f # flag /\ f \in Flag(r, flag, on).p => f \in r.p
         /\ ~on => flag \notin Flag(r, flag, on).p
<1>1. Flag(r, flag, on).p \subseteq r.p \cup {flag}
  BY FlagType
<1>2. CASE ~on
  BY <1>2, FlagStatus
<1>3. QED
  BY <1>1, <1>2

(* A flag other than the three can be set.                                 *)
LEMMA FlagKeeps ==
  ASSUME NEW k, NEW r, Keeps(k, r), NEW on,
         NEW flag \in {Carry, Interrupt, Decimal, UNK, Overflow}
  PROVE  Keeps(k, Flag(r, flag, on))
<1>1. flag \in Bit /\ r \in Machine
  BY FlagNumbers DEF Keeps, NoBreak
<1>2. /\ Flag(r, flag, on) \in Machine
      /\ \A f \in {Break, Zero, Negative} : f \in Flag(r, flag, on).p => f \in r.p
  BY <1>1, FlagStatus, FlagAlone, FlagsDiffer
<1>3. QED
  BY <1>2 DEF Keeps, NoBreak, Both

(* Zero and Negative are never set together from one value.                *)
LEMMA UpdateKeeps ==
  ASSUME NEW k, NEW r, NoBreak(k, r), NEW value
  PROVE  Keeps(k, UpdateZeroNegative(r, value))
<1> DEFINE z == Flag(r, Zero, value = 0)
           n == Flag(z, Negative, Bit7(value))
<1>1. Zero \in Bit /\ Negative \in Bit /\ r \in Machine
  BY FlagNumbers DEF NoBreak
<1>2. /\ z \in Machine
      /\ Break \in z.p => Break \in r.p
      /\ value # 0 => Zero \notin z.p
  BY <1>1, FlagStatus, FlagAlone, FlagsDiffer
<1> HIDE DEF z
<1>3. /\ n \in Machine
      /\ Break \in n.p => Break \in z.p
      /\ Zero \in n.p => Zero \in z.p
      /\ ~Bit7(value) => Negative \notin n.p
  BY <1>1, <1>2, FlagStatus, FlagAlone, FlagsDiffer
<1>4. value = 0 => ~Bit7(value)
  BY DEF Bit7
<1>5. UpdateZeroNegative(r, value) = n
  BY DEF UpdateZeroNegative, z
<1> HIDE DEF n
<1>6. ~(Both \subseteq n.p)
  BY <1>2, <1>3, <1>4 DEF Both
<1>7. QED
  BY <1>2, <1>3, <1>5, <1>6 DEF Keeps, NoBreak

----------------------------------------------------------------------------
(* The handlers.                                                           *)

(* Loads, and a load after a handler.                                      *)
LEMMA LoadKeeps ==
  ASSUME NEW k, NEW r, Keeps(k, r), NEW v \in Byte
  PROVE  Keeps(k, LoadA(r, v)) /\ Keeps(k, LoadX(r, v)) /\ Keeps(k, LoadY(r, v))
<1>1. r \in Machine
  BY DEF Keeps, NoBreak
<1>2. /\ [r EXCEPT !.a = v] \in Machine /\ [r EXCEPT !.a = v].p = r.p
      /\ [r EXCEPT !.x = v] \in Machine /\ [r EXCEPT !.x = v].p = r.p
      /\ [r EXCEPT !.y = v] \in Machine /\ [r EXCEPT !.y = v].p = r.p
  BY <1>1 DEF Machine
<1>3. /\ NoBreak(k, [r EXCEPT !.a = v]) /\ NoBreak(k, [r EXCEPT !.x = v])
      /\ NoBreak(k, [r EXCEPT !.y = v])
  BY <1>2 DEF Keeps, NoBreak
<1>4. QED
  BY <1>3, UpdateKeeps DEF LoadA, LoadX, LoadY

(* AND, EOR and ORA.                                                       *)
LEMMA AndAKeeps ==
  ASSUME NEW k, NEW r, Keeps(k, r), NEW v
  PROVE  Keeps(k, AndA(r, v)) /\ Keeps(k, EorA(r, v)) /\ Keeps(k, OraA(r, v))
BY LoadKeeps, LogicType DEF AndA, EorA, OraA

(* ADC and SBC.                                                            *)
LEMMA SumKeeps ==
  ASSUME NEW k, NEW r, Keeps(k, r), NEW v \in Byte
  PROVE  Keeps(k, AddToAccumulator(r, v)) /\ Keeps(k, SubFromAccumulator(r, v))
<1>1. ASSUME NEW sum \in Byte PROVE Keeps(k, SetSum(r, v, sum))
  BY <1>1, FlagKeeps, LoadKeeps DEF SetSum
<1>2. r.a \in Byte /\ CarryIn(r) \in {0, 1}
  BY CarryInType DEF Keeps, NoBreak, Machine
<1>3. r.a + v + CarryIn(r) \in Int /\ r.a - v - (1 - CarryIn(r)) \in Int
  BY <1>2, ByteIs
<1>4. QED
  BY <1>1, <1>3, WrapType DEF AddToAccumulator, SubFromAccumulator

(* A comparison sets Negative only for different bytes.                    *)
LEMMA CompareKeeps ==
  ASSUME NEW k, NEW r, Keeps(k, r), NEW target, NEW data
  PROVE  Keeps(k, Compare(r, target, data))
<1> DEFINE c == Flag(r, Carry, target >= data)
           z == Flag(c, Zero, target = data)
           on == target # data /\ Bit7(Wrap8(target - data))
           n == Flag(z, Negative, on)
<1>1. Zero \in Bit /\ Negative \in Bit /\ Carry \in Bit /\ r \in Machine
  BY FlagNumbers DEF Keeps, NoBreak
<1>2. Keeps(k, c) /\ c \in Machine
  BY <1>1, FlagKeeps, FlagStatus
<1> HIDE DEF c
<1>3. /\ z \in Machine
      /\ Break \in z.p => Break \in c.p
      /\ target # data => Zero \notin z.p
  BY <1>1, <1>2, FlagStatus, FlagAlone, FlagsDiffer
<1>4. on => target # data
  OBVIOUS
<1> HIDE DEF z, on
<1>5. /\ n \in Machine
      /\ Break \in n.p => Break \in z.p
      /\ Zero \in n.p => Zero \in z.p
      /\ ~on => Negative \notin n.p
  BY <1>1, <1>3, FlagStatus, FlagAlone, FlagsDiffer
<1>6. Compare(r, target, data) = n
  BY DEF Compare, c, z, on
<1> HIDE DEF n
<1>7. ~(Both \subseteq n.p)
  BY <1>3, <1>4, <1>5 DEF Both
<1>8. QED
  BY <1>2, <1>3, <1>5, <1>6, <1>7 DEF Keeps, NoBreak

(* BIT takes Negative from memory and Zero from the accumulator.           *)
LEMMA BitTestStatus ==
  ASSUME NEW k, NEW r, Keeps(k, r), NEW mask
  PROVE  NoBreak(k, BitTest(r, mask))
<1>1. ASSUME NEW s, NoBreak(k, s), NEW flag \in {Zero, Negative, Overflow}, NEW on
      PROVE  NoBreak(k, Flag(s, flag, on))
  <2>1. flag \in Bit
    BY FlagNumbers
  <2>2. QED
    BY <1>1, <2>1, FlagStatus, FlagAlone, FlagsDiffer DEF NoBreak
<1>2. NoBreak(k, r)
  BY DEF Keeps
<1>3. QED
  BY <1>1, <1>2 DEF BitTest

(* The shifts, whatever they move.                                         *)
LEMMA ShiftKeeps ==
  ASSUME NEW k, NEW r, Keeps(k, r), NEW mode
  PROVE  /\ Keeps(k, Asl(r, mode)) /\ Keeps(k, Lsr(r, mode))
         /\ Keeps(k, Rol(r, mode)) /\ Keeps(k, Ror(r, mode))
<1>1. r \in Machine /\ Follows(r, r)
  BY DEF Keeps, NoBreak, Follows
<1>2. /\ AslData(r, mode) \in Byte /\ LsrData(r, mode) \in Byte
      /\ RolData(r, mode) \in Byte /\ RorData(r, mode) \in Byte
  BY <1>1, ShiftType
<1>3. ASSUME NEW data \in Byte, NEW carry PROVE Keeps(k, Shift(r, mode, data, carry))
  <2>1. [r EXCEPT !.a = data] \in Machine /\ [r EXCEPT !.a = data].p = r.p
    BY <1>1 DEF Machine
  <2>2. Keeps(k, [r EXCEPT !.a = data]) /\ Keeps(k, Write(r, Address(r, mode), data))
    <3>1. Keeps(k, [r EXCEPT !.a = data])
      BY <2>1, SameKeeps
    <3>2. /\ Write(r, Address(r, mode), data) \in Machine
          /\ Write(r, Address(r, mode), data).p = r.p
      BY <1>1, <1>3, StoreStatus
    <3>3. Keeps(k, Write(r, Address(r, mode), data))
      BY <3>2, SameKeeps
    <3>4. QED
      BY <3>1, <3>3
  <2>3. \A s : Keeps(k, s) => NoBreak(k, Flag(s, Carry, carry))
    BY FlagKeeps DEF Keeps
  <2>4. QED
    BY <2>2, <2>3, UpdateKeeps DEF Shift
<1>4. QED
  BY <1>2, <1>3 DEF Asl, Lsr, Rol, Ror

(* INC and DEC.                                                            *)
LEMMA IncKeeps ==
  ASSUME NEW k, NEW r, Keeps(k, r), NEW mode
  PROVE  Keeps(k, Inc(r, mode)) /\ Keeps(k, Dec(r, mode))
<1>1. r \in Machine
  BY DEF Keeps, NoBreak
<1>2. Operand(r, mode) + 1 \in Int /\ Operand(r, mode) - 1 \in Int
  BY <1>1, OperandType, ByteIs
<1>3. ASSUME NEW n \in Int PROVE Keeps(k, StoreAndTest(r, mode, Wrap8(n)))
  <2>1. Wrap8(n) \in Byte
    BY WrapType
  <2>2. Keeps(k, Store(r, mode, Wrap8(n)))
    BY <1>1, <2>1, StoreStatus, SameKeeps DEF Store
  <2>3. QED
    BY <2>2, UpdateKeeps DEF StoreAndTest, Keeps
<1>4. QED
  BY <1>2, <1>3 DEF Inc, Dec

(* A jump leaves the status.                                               *)
LEMMA JumpStatus ==
  ASSUME NEW r \in Machine, NEW s \in Machine, NEW target, s = Jump(r, target)
  PROVE  s.p = r.p
BY DEF Jump, Machine

(* JMP.                                                                    *)
LEMMA JumpKeeps ==
  ASSUME NEW k, NEW r, Keeps(k, r), NEW target \in Word
  PROVE  Keeps(k, Jump(r, target))
<1>1. r \in Machine /\ Jump(r, target) \in Machine
  BY JumpType DEF Keeps, NoBreak
<1>2. QED
  BY <1>1, JumpStatus, SameKeeps

(* JSR, RTS and the branches.                                              *)
LEMMA CallKeeps ==
  ASSUME NEW k, NEW r, Keeps(k, r)
  PROVE  /\ Keeps(k, JumpIndirect(r)) /\ Keeps(k, CallSubroutine(r))
         /\ Keeps(k, ReturnFromSubroutine(r)) /\ \A taken : Keeps(k, Branch(r, taken))
<1>0. r \in Machine
  BY DEF Keeps, NoBreak
<1>1. JumpIndirect(r) \in Machine
  BY <1>0, JumpIndirectType
<1>2. Keeps(k, JumpIndirect(r))
  BY <1>0, <1>1, JumpStatus, SameKeeps DEF JumpIndirect
<1>3. Keeps(k, CallSubroutine(r))
  <2>1. Wrap16(r.pc + 1) \in Word
    BY <1>0, CounterType
  <2>2. Lo(Wrap16(r.pc + 1)) \in Byte /\ Hi(Wrap16(r.pc + 1)) \in Byte
    BY <2>1, HalvesType
  <2>3. Keeps(k, PushWord(r, Wrap16(r.pc + 1))) /\ PushWord(r, Wrap16(r.pc + 1)) \in Machine
    BY <1>0, <2>2, StoreStatus, SameKeeps DEF PushWord
  <2>4. QED
    BY <2>3, ReadWordType, JumpKeeps DEF CallSubroutine
<1>4. Keeps(k, ReturnFromSubroutine(r))
  <2>1. Keeps(k, Popped(r)) /\ Popped(r) \in Machine
    BY <1>0, PoppedStatus, SameKeeps
  <2>2. Keeps(k, Popped(Popped(r)))
    BY <2>1, PoppedStatus, SameKeeps
  <2>3. TopWord(r) + 1 \in Int
    BY <1>0, PullType, WordIs
  <2>4. QED
    BY <2>2, <2>3, WrapType, JumpKeeps DEF ReturnFromSubroutine
<1>5. ASSUME NEW taken PROVE Keeps(k, Branch(r, taken))
  <2>1. Branch(r, taken) \in Machine
    BY <1>0, BranchType
  <2>2. QED
    BY <1>0, <2>1, JumpStatus, SameKeeps DEF Branch
<1>6. QED
  BY <1>2, <1>3, <1>4, <1>5

(* RTI takes Break out of what it pulls.                                   *)
LEMMA ReturnStatus ==
  ASSUME NEW k, NEW r \in Machine
  PROVE  NoBreak(k, ReturnFromInterrupt(r))
<1> DEFINE pulled == PullStatus(r)
           status == [pulled EXCEPT !.p = (@ \ {Break}) \cup {UNK}]
<1>1. pulled \in Machine
  BY PullStatusType DEF Follows
<1>2. ReturnFromInterrupt(r) = Jump(Popped(Popped(status)), TopWord(status))
  BY DEF ReturnFromInterrupt
<1> HIDE DEF pulled
<1>3. status \in Machine /\ status.p = (pulled.p \ {Break}) \cup {UNK}
  BY <1>1, FlagNumbers DEF Machine
<1> HIDE DEF status
<1>4. Break \notin status.p
  BY <1>3, FlagsDiffer
<1>5. Popped(status) \in Machine /\ Popped(status).p = status.p
  BY <1>3, PoppedStatus
<1>6. Popped(Popped(status)) \in Machine /\ Popped(Popped(status)).p = status.p
  BY <1>5, PoppedStatus
<1>7. ReturnFromInterrupt(r) \in Machine
  BY ReturnFromInterruptType
<1>8. QED
  BY <1>2, <1>4, <1>6, <1>7, JumpStatus DEF NoBreak

(* The unofficial instructions.                                            *)
LEMMA UnofficialKeeps ==
  ASSUME NEW k, NEW r, Keeps(k, r), NEW mode
  PROVE  /\ Keeps(k, Dcp(r, mode)) /\ Keeps(k, Rla(r, mode)) /\ Keeps(k, Slo(r, mode))
         /\ Keeps(k, Sre(r, mode)) /\ Keeps(k, Rra(r, mode)) /\ Keeps(k, Isc(r, mode))
         /\ Keeps(k, Arr(r, mode)) /\ Keeps(k, Alr(r, mode)) /\ Keeps(k, Anc(r, mode))
         /\ Keeps(k, Axs(r, mode)) /\ Keeps(k, Lax(r, mode)) /\ Keeps(k, Lxa(r, mode))
         /\ Keeps(k, Xaa(r, mode)) /\ Keeps(k, Las(r, mode))
<1>0. r \in Machine /\ Follows(r, r) /\ Operand(r, mode) \in Byte
      /\ r.x \in Byte /\ r.a \in Byte
  BY OperandType DEF Keeps, NoBreak, Follows, Machine
<1>1. ASSUME NEW a \in Byte, NEW b \in Byte PROVE Wrap8(a - b) \in Byte
  <2>1. a - b \in Int
    BY ByteIs
  <2>2. QED
    BY <2>1, WrapType
<1>2. Keeps(k, Dcp(r, mode))
  <2> DEFINE data == Wrap8(Operand(r, mode) - 1)
             stored == Store(r, mode, data)
             carried == IF data <= r.a THEN Flag(stored, Carry, TRUE) ELSE stored
  <2>1. data \in Byte
    BY <1>0, IncType
  <2> HIDE DEF data
  <2>2. Keeps(k, stored)
    BY <1>0, <2>1, StoreStatus, SameKeeps DEF Store
  <2> HIDE DEF stored
  <2>3. Keeps(k, carried)
    BY <2>2, FlagKeeps
  <2> HIDE DEF carried
  <2>4. Keeps(k, UpdateZeroNegative(carried, Wrap8(r.a - data)))
    BY <2>3, UpdateKeeps DEF Keeps
  <2>5. QED
    BY <2>4 DEF Dcp, carried, stored, data
<1>3. /\ Keeps(k, Rla(r, mode)) /\ Keeps(k, Slo(r, mode)) /\ Keeps(k, Sre(r, mode))
      /\ Keeps(k, Rra(r, mode))
  <2>1. RorData(r, mode) \in Byte
    BY <1>0, ShiftType
  <2>2. QED
    BY <2>1, ShiftKeeps, LoadKeeps, LogicType, SumKeeps DEF Rla, Slo, Sre, Rra, EorA
<1>4. Keeps(k, Isc(r, mode))
  <2>1. Keeps(k, Inc(r, mode))
    BY IncKeeps
  <2>2. Operand(Inc(r, mode), mode) \in Byte
    BY <2>1, OperandType DEF Keeps, NoBreak
  <2>3. QED
    BY <2>1, <2>2, SumKeeps DEF Isc
<1>5. Keeps(k, Arr(r, mode)) /\ Keeps(k, Alr(r, mode)) /\ Keeps(k, Anc(r, mode))
  <2>1. Keeps(k, AndA(r, Operand(r, mode)))
    BY AndAKeeps
  <2>2. QED
    BY <2>1, ShiftKeeps, FlagKeeps DEF Arr, Alr, Anc
<1>6. Keeps(k, Axs(r, mode))
  <2> DEFINE both == And(r.x, r.a)
             data == Operand(r, mode)
             carried == IF data <= both THEN Flag(r, Carry, TRUE) ELSE r
  <2>1. Keeps(k, carried)
    BY FlagKeeps
  <2>2. Wrap8(both - data) \in Byte
    BY <1>0, <1>1, LogicType
  <2> HIDE DEF carried
  <2>3. Keeps(k, LoadX(carried, Wrap8(both - data)))
    BY <2>1, <2>2, LoadKeeps
  <2>4. QED
    BY <2>3 DEF Axs, carried
<1>7. Keeps(k, Lax(r, mode)) /\ Keeps(k, Lxa(r, mode)) /\ Keeps(k, Xaa(r, mode))
  <2> DEFINE loaded == LoadA(r, Operand(r, mode))
  <2>1. Keeps(k, loaded) /\ loaded \in Machine
    BY <1>0, LoadKeeps DEF Keeps, NoBreak
  <2> HIDE DEF loaded
  <2>2. /\ loaded.a \in Byte
        /\ [loaded EXCEPT !.a = r.x] \in Machine /\ [loaded EXCEPT !.a = r.x].p = loaded.p
    BY <1>0, <2>1 DEF Machine
  <2>3. Keeps(k, [loaded EXCEPT !.a = r.x]) /\ Keeps(k, LoadX(loaded, loaded.a))
    BY <2>1, <2>2, SameKeeps, LoadKeeps
  <2>4. Keeps(k, Lax(r, mode)) /\ Keeps(k, Lxa(r, mode))
    BY <2>3 DEF Lax, Lxa, loaded
  <2>5. QED
    BY <2>4, LoadKeeps, LogicType DEF Xaa
<1>8. Keeps(k, Las(r, mode))
  <2> DEFINE data == And(Operand(r, mode), r.sp)
             s == [r EXCEPT !.a = data, !.x = data, !.sp = data]
  <2>1. data \in Byte
    BY LogicType
  <2> HIDE DEF data
  <2>2. s \in Machine /\ s.p = r.p
    BY <1>0, <2>1 DEF Machine
  <2> HIDE DEF s
  <2>3. Keeps(k, UpdateZeroNegative(s, data))
    BY <2>2, SameKeeps, UpdateKeeps DEF Keeps
  <2>4. QED
    BY <2>3 DEF Las, s, data
<1>9. QED
  BY <1>2, <1>3, <1>4, <1>5, <1>6, <1>7, <1>8

(* *TAS, *AHX and *SHX.                                                    *)
LEMMA UnstableKeeps ==
  ASSUME NEW k, NEW r, Keeps(k, r), NEW mode
  PROVE  Keeps(k, Tas(r, mode)) /\ Keeps(k, Ahx(r, mode)) /\ Keeps(k, Shx(r, mode))
<1>1. r \in Machine /\ \A a, b : And(a, b) \in Byte
  BY LogicType DEF Keeps, NoBreak
<1>2. \A s \in Byte : [r EXCEPT !.sp = s] \in Machine /\ [r EXCEPT !.sp = s].p = r.p
  BY <1>1 DEF Machine
<1>3. \A s \in Byte : Keeps(k, [r EXCEPT !.sp = s])
  BY <1>2, SameKeeps
<1>4. ASSUME NEW s, Keeps(k, s), NEW addr, NEW data \in Byte
      PROVE  Keeps(k, Write(s, addr, data))
  BY <1>4, StoreStatus, SameKeeps DEF Keeps, NoBreak
<1>5. QED
  BY <1>1, <1>3, <1>4 DEF Tas, Ahx, Shx

----------------------------------------------------------------------------
(* The steps.                                                              *)

(* What the three properties say of one step.                              *)
BreakStep == Break \in m'.p /\ Break \notin m.p => Executes({"PLP"})
SignStep  == Both \subseteq m'.p /\ ~(Both \subseteq m.p) => Executes({"PLP", "RTI", "BIT"})
SlipStep  == Instruction /\ Op.len > 1 /\ m'.pc = Fetched.pc => cpu_cycles' = 0

Tame == BreakStep /\ SignStep /\ SlipStep

(* A step that is no instruction and keeps the status is tame.             *)
LEMMA OtherStep ==
  ASSUME TypeOK, m'.p = m.p \/ Keeps(m, m'), ~Instruction PROVE Tame
BY DEF Tame, BreakStep, SignStep, SlipStep, Keeps, NoBreak, TypeOK

(* Past an instruction of two or three bytes the counter is not at its     *)
(* first operand byte.                                                     *)
LEMMA AdvanceIsNoSlip ==
  ASSUME m \in Machine, Op.len > 1 PROVE Wrap16(m.pc + Op.len) # Wrap16(m.pc + 1)
<1>1. m.pc \in Int /\ 0 <= m.pc /\ m.pc <= MaxWord /\ Op.len \in {2, 3}
  BY WordIs, OpType DEF Machine
<1>2. ASSUME NEW k \in Nat, k > 3, NEW n \in 0 .. k, NEW l \in {2, 3}
      PROVE  (n + l) % (k + 1) # (n + 1) % (k + 1)
  <2>1. /\ n + l <= k => (n + l) % (k + 1) = n + l
        /\ n + l > k => (n + l) % (k + 1) = n + l - (k + 1)
    BY <1>2
  <2>2. /\ n + 1 <= k => (n + 1) % (k + 1) = n + 1
        /\ n + 1 > k => (n + 1) % (k + 1) = n + 1 - (k + 1)
    BY <1>2
  <2>3. QED
    BY <1>2, <2>1, <2>2
<1>3. MaxWord \in Nat /\ MaxWord > 3
  BY Widths
<1>4. m.pc \in 0 .. MaxWord
  BY DEF Machine, Word
<1>5. (m.pc + Op.len) % (MaxWord + 1) # (m.pc + 1) % (MaxWord + 1)
  BY <1>1, <1>2, <1>3, <1>4
<1>6. QED
  BY <1>5 DEF Wrap16

(* The end of an iteration keeps the status and moves past the operands.   *)
LEMMA DoesTame ==
  ASSUME TypeOK, Loop!Fetching, NEW name, NEW result, NEW extra,
         Does(name, result, extra),
         \/ Keeps(Fetched, result)
         \/ NoBreak(Fetched, result) /\ name \in {"RTI", "BIT"}
         \/ result \in Machine /\ name = "PLP"
  PROVE  Tame
<1>1. m \in Machine /\ Fetched \in Machine /\ Fetched.p = m.p /\ result \in Machine
  BY OperandsType, JumpStatus DEF TypeOK, Fetched, Keeps, NoBreak
<1>2. Op.mnemonic = name /\ Finish(result, Op.cycles + extra)
  BY DEF Does
<1>3. CASE Unwind(result.mem)
  <2>1. m'.p = m.p /\ ~Instruction
    BY <1>1, <1>3 DEF Unwind, Machine, Instruction
  <2>2. QED
    BY <2>1, OtherStep
<1>4. CASE Retire(result, Op.cycles + extra)
  <2>1. interrupt = NoInterrupt /\ phase = "running"
    BY PendingType DEF Loop!Fetching, Loop!External
  <2>2. Instruction
    BY <1>4, <2>1 DEF Retire, Instruction
  <2>3. Wrap16(m.pc + Op.len) \in Word
    BY <1>1, OpType, CounterType
  <2>4. /\ Advance(result) \in Machine /\ Advance(result).p = result.p
        /\ Advance(result).pc = IF result.pc = Fetched.pc THEN Wrap16(m.pc + Op.len)
                                                          ELSE result.pc
    BY <1>1, <2>3, JumpType, JumpStatus DEF Advance
  <2>5. m'.p = result.p
    BY <1>4, <2>4 DEF Retire
  <2>6. BreakStep /\ SignStep
    BY <1>1, <1>2, <2>2, <2>5 DEF BreakStep, SignStep, Executes, Keeps, NoBreak
  <2>7. SlipStep
    <3>1. Fetched.pc = Wrap16(m.pc + 1)
      BY <1>1, FetchedType, Widths DEF Loop!AfterFetch, Wrap16
    <3>2. Op.len > 1 => Advance(result).pc # Fetched.pc
      BY <1>1, <2>4, <3>1, AdvanceIsNoSlip
    <3>3. cpu_cycles' = 0 \/ m' = Advance(result)
      BY <1>4 DEF Retire
    <3>4. QED
      BY <3>2, <3>3 DEF SlipStep
  <2>8. QED
    BY <2>6, <2>7 DEF Tame
<1>5. QED
  BY <1>2, <1>3, <1>4 DEF Finish

(* The official instructions.                                              *)
LEMMA OfficialTame == ASSUME TypeOK, Loop!Fetching, Official PROVE Tame
<1>0. /\ Fetched \in Machine /\ Keeps(Fetched, Fetched) /\ m \in Machine
      /\ Val \in Byte /\ m.a \in Byte /\ m.x \in Byte /\ m.y \in Byte /\ m.sp \in Byte
  BY OperandsType DEF Keeps, NoBreak, TypeOK
<1>1. ASSUME BRK PROVE Tame
  <2>1. m' = Fetched /\ interrupt' = BrkRequest
    BY <1>1 DEF BRK
  <2>2. m'.p = m.p
    BY <1>0, <2>1, JumpStatus DEF Fetched
  <2>3. ~Instruction
    BY <2>1 DEF Instruction, BrkRequest, NoInterrupt
  <2>4. QED
    BY <2>2, <2>3, OtherStep
<1>2. ASSUME NOP PROVE Tame
  BY <1>0, <1>2, DoesTame DEF NOP
<1>3. ASSUME ADC \/ SBC PROVE Tame
  BY <1>0, <1>3, SumKeeps, DoesTame DEF ADC, SBC
<1>4. ASSUME AND \/ EOR \/ ORA PROVE Tame
  BY <1>0, <1>4, AndAKeeps, DoesTame DEF AND, EOR, ORA
<1>5. ASSUME ASL \/ LSR \/ ROL \/ ROR PROVE Tame
  BY <1>0, <1>5, ShiftKeeps, DoesTame DEF ASL, LSR, ROL, ROR
<1>6. ASSUME INC \/ DEC PROVE Tame
  BY <1>0, <1>6, IncKeeps, DoesTame DEF INC, DEC
<1>7. ASSUME INX \/ INY \/ DEX \/ DEY PROVE Tame
  <2>1. /\ Wrap8(m.x + 1) \in Byte /\ Wrap8(m.x - 1) \in Byte
        /\ Wrap8(m.y + 1) \in Byte /\ Wrap8(m.y - 1) \in Byte
    BY <1>0, ByteIs, WrapType
  <2>2. QED
    BY <1>0, <1>7, <2>1, LoadKeeps, DoesTame DEF INX, INY, DEX, DEY
<1>8. ASSUME CMP \/ CPX \/ CPY PROVE Tame
  BY <1>0, <1>8, CompareKeeps, DoesTame DEF CMP, CPX, CPY
<1>9. ASSUME BIT PROVE Tame
  BY <1>0, <1>9, BitTestStatus, DoesTame DEF BIT
<1>10. ASSUME JMP PROVE Tame
  <2> DEFINE result == IF Read(m, m.pc) = \h4C THEN Jump(Fetched, ReadWord(m, Fetched.pc))
                                               ELSE JumpIndirect(Fetched)
  <2>1. Keeps(Fetched, result)
    BY <1>0, ReadWordType, JumpKeeps, CallKeeps
  <2>2. Does("JMP", result, 0)
    BY <1>10 DEF JMP
  <2> HIDE DEF result
  <2>3. QED
    BY <2>1, <2>2, DoesTame
<1>11. ASSUME JSR \/ RTS PROVE Tame
  BY <1>0, <1>11, CallKeeps, DoesTame DEF JSR, RTS
<1>12. ASSUME RTI PROVE Tame
  BY <1>0, <1>12, ReturnStatus, DoesTame DEF RTI
<1>13. ASSUME NEW name, NEW taken, BranchIf(name, taken) PROVE Tame
  BY <1>0, <1>13, CallKeeps, DoesTame DEF BranchIf
<1>14. ASSUME BCC \/ BCS \/ BNE \/ BEQ \/ BPL \/ BMI \/ BVC \/ BVS PROVE Tame
  BY <1>13, <1>14 DEF BCC, BCS, BNE, BEQ, BPL, BMI, BVC, BVS
<1>15. ASSUME LDA \/ LDX \/ LDY PROVE Tame
  BY <1>0, <1>15, LoadKeeps, DoesTame DEF LDA, LDX, LDY
<1>16. ASSUME STA \/ STX \/ STY PROVE Tame
  BY <1>0, <1>16, StoreStatus, SameKeeps, DoesTame DEF STA, STX, STY
<1>17. ASSUME CLC \/ CLD \/ CLI \/ CLV \/ SEC \/ SED \/ SEI PROVE Tame
  BY <1>0, <1>17, FlagKeeps, DoesTame DEF CLC, CLD, CLI, CLV, SEC, SED, SEI
<1>18. ASSUME TAX \/ TAY \/ TSX \/ TXA \/ TYA PROVE Tame
  BY <1>0, <1>18, LoadKeeps, DoesTame DEF TAX, TAY, TSX, TXA, TYA
<1>19. ASSUME TXS PROVE Tame
  <2>1. [Fetched EXCEPT !.sp = m.x] \in Machine /\ [Fetched EXCEPT !.sp = m.x].p = Fetched.p
    BY <1>0 DEF Machine
  <2>2. QED
    BY <1>0, <1>19, <2>1, SameKeeps, DoesTame DEF TXS
<1>20. ASSUME PHA \/ PHP PROVE Tame
  <2>1. CASE PHA
    BY <1>0, <2>1, PushKeeps, DoesTame DEF PHA
  <2>2. CASE PHP
    BY <1>0, <2>2, FromBitsType, PushKeeps, DoesTame DEF PHP
  <2>3. QED
    BY <1>20, <2>1, <2>2
<1>21. ASSUME PLA PROVE Tame
  <2>1. Keeps(Fetched, Popped(Fetched)) /\ Top(Fetched) \in Byte
    BY <1>0, PullType, PoppedStatus, SameKeeps
  <2>2. QED
    BY <1>21, <2>1, LoadKeeps, DoesTame DEF PLA
<1>22. ASSUME PLP PROVE Tame
  BY <1>0, <1>22, PullStatusType, DoesTame DEF PLP, Follows
<1>23. QED
  BY <1>1, <1>2, <1>3, <1>4, <1>5, <1>6, <1>7, <1>8, <1>9, <1>10, <1>11, <1>12, <1>14,
     <1>15, <1>16, <1>17, <1>18, <1>19, <1>20, <1>21, <1>22 DEF Official

(* The unofficial ones: *SHY fails.                                        *)
LEMMA UnofficialTame == ASSUME TypeOK, Loop!Fetching, Unofficial PROVE Tame
<1>0. /\ Fetched \in Machine /\ Keeps(Fetched, Fetched) /\ m \in Machine /\ Val \in Byte
  BY OperandsType DEF Keeps, NoBreak, TypeOK
<1>1. ASSUME NOPs PROVE Tame
  BY <1>0, <1>1, DoesTame DEF NOPs
<1>2. ASSUME SBCx PROVE Tame
  BY <1>0, <1>2, SumKeeps, DoesTame DEF SBCx
<1>3. ASSUME SLO \/ RLA \/ SRE \/ RRA PROVE Tame
  BY <1>0, <1>3, UnofficialKeeps, DoesTame DEF SLO, RLA, SRE, RRA
<1>4. ASSUME DCP \/ ISC \/ ANC \/ ALR \/ ARR PROVE Tame
  BY <1>0, <1>4, UnofficialKeeps, DoesTame DEF DCP, ISC, ANC, ALR, ARR
<1>5. ASSUME AXS \/ LAX \/ LXA \/ XAA \/ LAS PROVE Tame
  BY <1>0, <1>5, UnofficialKeeps, DoesTame DEF AXS, LAX, LXA, XAA, LAS
<1>6. ASSUME SAX PROVE Tame
  BY <1>0, <1>6, LogicType, StoreStatus, SameKeeps, DoesTame DEF SAX
<1>7. ASSUME TAS \/ AHX \/ SHX PROVE Tame
  BY <1>0, <1>7, UnstableKeeps, DoesTame DEF TAS, AHX, SHX
<1>8. ASSUME SHY PROVE Tame
  <2>1. m' = Fetched /\ phase' = "failed"
    BY <1>8 DEF SHY
  <2>2. m'.p = m.p /\ ~Instruction
    BY <1>0, <2>1, JumpStatus DEF Fetched, Instruction
  <2>3. QED
    BY <2>2, OtherStep
<1>9. QED
  BY <1>1, <1>2, <1>3, <1>4, <1>5, <1>6, <1>7, <1>8 DEF Unofficial

(* A reset makes a status without Break.                                   *)
LEMMA ResetKeeps == ASSUME NEW r \in Machine PROVE Keeps(r, ResetMachine(r))
<1> DEFINE vector == ReadWord(r, 65532)
           reset(b, sp, w) == [r EXCEPT !.sp = sp, !.p = DefaultStatus, !.x = b, !.y = b,
                                        !.a = b, !.pc = w]
<1>1. \A b, sp, w : reset(b, sp, w).p = DefaultStatus
  BY DEF Machine
<1> HIDE DEF vector
<1>2. ResetMachine(r) = reset(0, 253, vector)
  BY SMT DEF ResetMachine, vector
<1> HIDE DEF reset
<1>3. ResetMachine(r) \in Machine /\ ResetMachine(r).p = DefaultStatus
  BY <1>1, <1>2, ResetType
<1>4. QED
  BY <1>3, FlagsDiffer DEF DefaultStatus, Keeps, NoBreak, Both

(* An interrupt pushes the status and sets the Interrupt flag.             *)
LEMMA ServicedKeeps ==
  ASSUME TypeOK, interrupt # NoInterrupt PROVE Keeps(m, Serviced)
<1>0. m \in Machine /\ Keeps(m, m)
  BY DEF TypeOK, Keeps, NoBreak
<1>1. Keeps(m, ResetMachine(m))
  BY <1>0, ResetKeeps
<1>2. ASSUME NEW status, NEW vector PROVE Keeps(m, Enter(m, status, interrupt.handler, vector))
  <2> DEFINE pushed == Push(PushWord(m, m.pc), FromBits(status))
             handled == Handle(pushed, interrupt.handler)
  <2>1. Lo(m.pc) \in Byte /\ Hi(m.pc) \in Byte /\ FromBits(status) \in Byte
    BY <1>0, HalvesType, FromBitsType DEF Machine
  <2>2. pushed \in Machine /\ pushed.p = m.p
    BY <1>0, <2>1, StoreStatus DEF PushWord
  <2> HIDE DEF pushed
  <2>3. handled.p = pushed.p
    BY <2>2 DEF Handle, Machine
  <2>4. Enter(m, status, interrupt.handler, vector) \in Machine
    BY <1>0, EnterType, PendingType
  <2>5. Enter(m, status, interrupt.handler, vector)
          = [handled EXCEPT !.pc = ReadWord(handled, vector), !.p = handled.p \cup {Interrupt}]
    BY DEF Enter, pushed
  <2> HIDE DEF handled
  <2>6. Enter(m, status, interrupt.handler, vector).p = m.p \cup {Interrupt}
    BY <2>2, <2>3, <2>4, <2>5 DEF Machine
  <2>7. QED
    BY <2>4, <2>6, FlagsDiffer DEF Keeps, NoBreak, Both
<1>3. interrupt.kind \in {"NMI", "IRQ", "RESET", "BRK"}
  BY PendingType DEF Loop!External
<1>4. QED
  BY <1>1, <1>2, <1>3 DEF Serviced

(* Every step is tame.                                                     *)
LEMMA StepTame == ASSUME TypeOK, Next PROVE Tame
<1>0. m \in Machine /\ (interrupt = NoInterrupt <=> interrupt.kind = "none")
  BY PendingType DEF TypeOK, Loop!External
<1>1. ASSUME HandleInterrupt PROVE Tame
  <2>1. interrupt # NoInterrupt /\ Serviced \in Machine /\ Keeps(m, Serviced)
    BY <1>1, ServicedType, ServicedKeeps DEF HandleInterrupt
  <2>2. ~Instruction
    BY <1>0, <2>1 DEF Instruction, Loop!Fetching
  <2>3. m'.p = m.p \/ Keeps(m, m')
    BY <1>0, <1>1, <2>1 DEF HandleInterrupt, Unwind, Machine
  <2>4. QED
    BY <2>2, <2>3, OtherStep
<1>2. ASSUME Stall \/ Return PROVE Tame
  BY <1>2, OtherStep DEF Stall, Return, Loop!Stall, Loop!Return, Instruction, Loop!Fetching
<1>3. ASSUME SumPanic PROVE Tame
  BY <1>0, <1>3, OtherStep DEF SumPanic, Unwind, Instruction, Machine
<1>4. ASSUME Fetch, Official \/ Unofficial PROVE Tame
  BY <1>4, OfficialTame, UnofficialTame DEF Fetch
<1>5. ASSUME Between PROVE Tame
  <2>1. ~Instruction
    BY <1>5 DEF Between, Call, Raise, Reset, ClockPanic, Instruction, Loop!Fetching,
                Loop!Call, Loop!ClockPanic, Loop!Resting
  <2>2. m'.p = m.p \/ Keeps(m, m')
    BY <1>0, <1>5, ResetKeeps DEF Between, Call, Raise, Reset, ClockPanic
  <2>3. QED
    BY <2>1, <2>2, OtherStep
<1>6. QED
  BY <1>1, <1>2, <1>3, <1>4, <1>5 DEF Next, Iteration

----------------------------------------------------------------------------
(* The types hold with the history as they do without.                     *)
LEMMA HistoryTypes == HSpec => []TypeOK
<1>1. HInit => TypeOK
  BY InitOK DEF HInit
<1>2. TypeOK /\ [HNext]_hvars => TypeOK'
  BY StepStep DEF HNext, HIteration, HBetween, Next, hvars
<1>3. QED
  BY <1>1, <1>2, PTL DEF HSpec

(* Every step with history is tame, and so is a stutter.                   *)
LEMMA HistoryTame == TypeOK /\ [HNext]_hvars => [Tame]_hvars
BY StepTame DEF HNext, HIteration, HBetween, Next

(* The Break flag, by which main stops, gets into the status by PLP alone, *)
(* in every program and under every host.                                  *)
THEOREM BreakOnlyByPulls == HSpec => BreakOnlyByPull
<1>1. TypeOK /\ [HNext]_hvars =>
        [(Break \in m'.p /\ Break \notin m.p) => Executes({"PLP"})]_hvars
  BY HistoryTame DEF Tame, BreakStep
<1>2. QED
  BY <1>1, HistoryTypes, PTL DEF HSpec, BreakOnlyByPull

(* No instruction of any program sets Zero and Negative together, but for  *)
(* the three that load the flags from memory.                              *)
THEOREM SignsAreOfOneByte == HSpec => OneSign
<1>1. TypeOK /\ [HNext]_hvars =>
        [({Zero, Negative} \subseteq m'.p /\ ~({Zero, Negative} \subseteq m.p))
           => Executes({"PLP", "RTI", "BIT"})]_hvars
  BY HistoryTame DEF Tame, SignStep, Both
<1>2. QED
  BY <1>1, HistoryTypes, PTL DEF HSpec, OneSign

(* As long as a call goes on the counter is not at an operand of the       *)
(* instruction before.                                                     *)
THEOREM SlipsEndTheBudget == HSpec => SlipsOverdrawn
<1>1. TypeOK /\ Next /\ Refuses => cpu_cycles' = 0
  <2> SUFFICES ASSUME TypeOK, Next, Refuses PROVE cpu_cycles' = 0
    OBVIOUS
  <2>1. LoopStep
    BY IterationStep, HostStep DEF Next, StepOK
  <2>2. QED
    BY <2>1 DEF Refuses, LoopStep, Loop!Fetching, Loop!HandleInterrupt, Loop!Stall,
                Loop!Return, Loop!Break, Loop!Straight, Loop!Transfer, Loop!Fail,
                Loop!Panic, Loop!Raise, Loop!Call, Loop!Place, Loop!ClockPanic,
                Loop!Resting
<1>2. TypeOK /\ [HNext]_hvars => [Slips => cpu_cycles' = 0]_hvars
  BY <1>1, HistoryTame DEF Tame, SlipStep, Slips, HNext, HIteration, HBetween, Next
<1>3. QED
  BY <1>2, HistoryTypes, PTL DEF HSpec, SlipsOverdrawn

----------------------------------------------------------------------------
(* The results.                                                            *)

(* The mnemonics whose results are stated below.                           *)
Named ==
  {"CMP", "CPX", "CPY", "ADC", "SBC", "*SBC", "ASL", "LSR", "ROR", "INC", "DEC",
   "LDA", "LDX", "LDY", "STA", "STX", "STY", "*SAX", "JMP", "JSR"} \cup Branches

(* An action is the one of its mnemonic.                                   *)
LEMMA ActionOfName ==
  ASSUME TypeOK, Next, Instruction
  PROVE  /\ Loop!Fetching
         /\ (Op.mnemonic = "CMP" => CMP)  /\ (Op.mnemonic = "CPX" => CPX)
         /\ (Op.mnemonic = "CPY" => CPY)  /\ (Op.mnemonic = "ADC" => ADC)
         /\ (Op.mnemonic = "SBC" => SBC)  /\ (Op.mnemonic = "*SBC" => SBCx)
         /\ (Op.mnemonic = "ASL" => ASL)  /\ (Op.mnemonic = "LSR" => LSR)
         /\ (Op.mnemonic = "ROR" => ROR)  /\ (Op.mnemonic = "INC" => INC)
         /\ (Op.mnemonic = "DEC" => DEC)  /\ (Op.mnemonic = "LDA" => LDA)
         /\ (Op.mnemonic = "LDX" => LDX)  /\ (Op.mnemonic = "LDY" => LDY)
         /\ (Op.mnemonic = "STA" => STA)  /\ (Op.mnemonic = "STX" => STX)
         /\ (Op.mnemonic = "STY" => STY)  /\ (Op.mnemonic = "*SAX" => SAX)
         /\ (Op.mnemonic = "JMP" => JMP)  /\ (Op.mnemonic = "JSR" => JSR)
         /\ (Op.mnemonic = "BCC" => BCC)  /\ (Op.mnemonic = "BCS" => BCS)
         /\ (Op.mnemonic = "BNE" => BNE)  /\ (Op.mnemonic = "BEQ" => BEQ)
         /\ (Op.mnemonic = "BPL" => BPL)  /\ (Op.mnemonic = "BMI" => BMI)
         /\ (Op.mnemonic = "BVC" => BVC)  /\ (Op.mnemonic = "BVS" => BVS)
<1>1. \A name, result, extra : Does(name, result, extra) => Op.mnemonic = name
  BY DEF Does
<1>2. Fetch /\ (Official \/ Unofficial)
  <2>1. interrupt = NoInterrupt
    BY PendingType DEF Instruction, Loop!Fetching, Loop!External
  <2>2. ~HandleInterrupt /\ ~Stall /\ ~Return /\ ~SumPanic
    BY <2>1 DEF HandleInterrupt, Stall, Return, SumPanic, Unwind, Instruction,
                Loop!Stall, Loop!Return, Loop!Fetching
  <2>3. ~Between
    BY DEF Between, Call, Raise, Reset, ClockPanic, Instruction, Loop!Fetching,
           Loop!Call, Loop!ClockPanic, Loop!Resting
  <2>4. QED
    BY <2>2, <2>3 DEF Next, Iteration
<1> DEFINE Others == Op.mnemonic \notin Named
<1>3. BRK \/ NOP \/ AND \/ EOR \/ ORA \/ ROL \/ INX \/ INY \/ DEX \/ DEY \/ BIT => Others
  BY <1>1 DEF BRK, NOP, AND, EOR, ORA, ROL, INX, INY, DEX, DEY, BIT, Named, Branches
<1>4. RTS \/ RTI \/ CLC \/ CLD \/ CLI \/ CLV \/ SEC \/ SED \/ SEI => Others
  BY <1>1 DEF RTS, RTI, CLC, CLD, CLI, CLV, SEC, SED, SEI, Named, Branches
<1>5. TAX \/ TAY \/ TSX \/ TXA \/ TYA \/ TXS \/ PHA \/ PHP \/ PLA \/ PLP => Others
  BY <1>1 DEF TAX, TAY, TSX, TXA, TYA, TXS, PHA, PHP, PLA, PLP, Named, Branches
<1>6. NOPs \/ SLO \/ RLA \/ SRE \/ RRA \/ DCP \/ ISC \/ ANC \/ ALR \/ ARR => Others
  BY <1>1 DEF NOPs, SLO, RLA, SRE, RRA, DCP, ISC, ANC, ALR, ARR, Named, Branches
<1>7. AXS \/ LAX \/ LXA \/ XAA \/ LAS \/ TAS \/ AHX \/ SHX \/ SHY => Others
  BY <1>1 DEF AXS, LAX, LXA, XAA, LAS, TAS, AHX, SHX, SHY, Named, Branches
<1>8. /\ (CMP => Op.mnemonic = "CMP")  /\ (CPX => Op.mnemonic = "CPX")
      /\ (CPY => Op.mnemonic = "CPY")  /\ (ADC => Op.mnemonic = "ADC")
      /\ (SBC => Op.mnemonic = "SBC")  /\ (SBCx => Op.mnemonic = "*SBC")
      /\ (ASL => Op.mnemonic = "ASL")  /\ (LSR => Op.mnemonic = "LSR")
      /\ (ROR => Op.mnemonic = "ROR")  /\ (INC => Op.mnemonic = "INC")
      /\ (DEC => Op.mnemonic = "DEC")  /\ (LDA => Op.mnemonic = "LDA")
      /\ (LDX => Op.mnemonic = "LDX")  /\ (LDY => Op.mnemonic = "LDY")
      /\ (STA => Op.mnemonic = "STA")  /\ (STX => Op.mnemonic = "STX")
      /\ (STY => Op.mnemonic = "STY")  /\ (SAX => Op.mnemonic = "*SAX")
      /\ (JMP => Op.mnemonic = "JMP")  /\ (JSR => Op.mnemonic = "JSR")
      /\ (BCC => Op.mnemonic = "BCC")  /\ (BCS => Op.mnemonic = "BCS")
      /\ (BNE => Op.mnemonic = "BNE")  /\ (BEQ => Op.mnemonic = "BEQ")
      /\ (BPL => Op.mnemonic = "BPL")  /\ (BMI => Op.mnemonic = "BMI")
      /\ (BVC => Op.mnemonic = "BVC")  /\ (BVS => Op.mnemonic = "BVS")
  BY <1>1 DEF CMP, CPX, CPY, ADC, SBC, SBCx, ASL, LSR, ROR, INC, DEC, LDA, LDX, LDY,
              STA, STX, STY, SAX, JMP, JSR, BranchIf, BCC, BCS, BNE, BEQ, BPL, BMI, BVC, BVS
<1>9. \/ CMP \/ CPX \/ CPY \/ ADC \/ SBC \/ SBCx \/ ASL \/ LSR \/ ROR \/ INC \/ DEC
      \/ LDA \/ LDX \/ LDY \/ STA \/ STX \/ STY \/ SAX \/ JMP \/ JSR
      \/ BCC \/ BCS \/ BNE \/ BEQ \/ BPL \/ BMI \/ BVC \/ BVS \/ Others
  BY <1>2, <1>3, <1>4, <1>5, <1>6, <1>7 DEF Official, Unofficial
<1>10. Loop!Fetching
  BY DEF Instruction
<1>11. QED
  BY <1>8, <1>9, <1>10 DEF Named, Branches

(* What an instruction that ends well leaves is what its handler made.     *)
LEMMA DoesResult ==
  ASSUME TypeOK, Instruction, NEW name, NEW result \in Machine, NEW extra,
         Does(name, result, extra)
  PROVE  /\ m'.a = result.a /\ m'.x = result.x /\ m'.y = result.y
         /\ m'.p = result.p /\ m'.mem = result.mem /\ ~result.fault
<1>1. m \in Machine /\ Finish(result, Op.cycles + extra)
  BY DEF TypeOK, Does
<1>2. ~Unwind(result.mem)
  BY DEF Unwind, Instruction
<1>3. Retire(result, Op.cycles + extra) /\ ~result.fault
  BY <1>1, <1>2 DEF Finish
<1>4. ASSUME NEW w
      PROVE  /\ [result EXCEPT !.pc = w].a = result.a /\ [result EXCEPT !.pc = w].p = result.p
             /\ [result EXCEPT !.pc = w].x = result.x /\ [result EXCEPT !.pc = w].y = result.y
             /\ [result EXCEPT !.pc = w].mem = result.mem
  BY DEF Machine
<1>5. m' = result \/ m' = Advance(result)
  BY <1>3 DEF Retire
<1>6. QED
  BY <1>3, <1>4, <1>5 DEF Advance, Jump

(* The three flags of a comparison of any two bytes.                       *)
LEMMA ComparedFlags ==
  ASSUME NEW r \in Machine, NEW t \in Byte, NEW d \in Byte
  PROVE  /\ Compare(r, t, d) \in Machine
         /\ Carry \in Compare(r, t, d).p <=> t >= d
         /\ Zero \in Compare(r, t, d).p <=> t = d
         /\ Negative \in Compare(r, t, d).p <=> (t - d) % 256 \in 128 .. 255
<1> DEFINE c == Flag(r, Carry, t >= d)
           z == Flag(c, Zero, t = d)
           on == t # d /\ Bit7(Wrap8(t - d))
           n == Flag(z, Negative, on)
<1>0. /\ Carry \in Bit /\ Zero \in Bit /\ Negative \in Bit
      /\ Carry # Zero /\ Carry # Negative /\ Zero # Negative
  BY FlagNumbers, FlagsDiffer DEF Carry, Zero, Negative
<1>1. ASSUME NEW s \in Machine, NEW flag \in Bit, NEW cond
      PROVE  /\ Flag(s, flag, cond) \in Machine
             /\ flag \in Flag(s, flag, cond).p <=> cond
             /\ \A f : f # flag => (f \in Flag(s, flag, cond).p <=> f \in s.p)
  <2>1. Flag(s, flag, cond) \in Machine
    BY FlagStatus
  <2>2. CASE cond
    <3>1. Flag(s, flag, cond).p = s.p \cup {flag}
      BY <2>2, FlagStatus
    <3>2. QED
      BY <2>1, <2>2, <3>1
  <2>3. CASE ~cond
    <3>1. Flag(s, flag, cond).p = s.p \ {flag}
      BY <2>3, FlagStatus
    <3>2. QED
      BY <2>1, <2>3, <3>1
  <2>4. QED
    BY <2>2, <2>3
<1>2. c \in Machine /\ (Carry \in c.p <=> t >= d)
  BY <1>0, <1>1
<1> HIDE DEF c
<1>3. z \in Machine /\ (Carry \in z.p <=> t >= d) /\ (Zero \in z.p <=> t = d)
  BY <1>0, <1>1, <1>2
<1> HIDE DEF z, on
<1>4. /\ n \in Machine /\ (Carry \in n.p <=> t >= d) /\ (Zero \in n.p <=> t = d)
      /\ Negative \in n.p <=> on
  BY <1>0, <1>1, <1>3
<1> HIDE DEF n
<1>5. Compare(r, t, d) = n
  BY DEF Compare, c, z, on, n
<1>6. on <=> (t - d) % 256 \in 128 .. 255
  <2>1. t \in Int /\ d \in Int /\ Wrap8(t - d) = (t - d) % 256
    BY ByteIs, Widths DEF Wrap8
  <2>2. /\ (t - d) % 256 \in Int /\ (t - d) % 256 >= 0 /\ (t - d) % 256 < 256
        /\ t = d => (t - d) % 256 = 0
    BY <2>1
  <2>3. QED
    BY <2>1, <2>2 DEF on, Bit7
<1>7. QED
  BY <1>4, <1>5, <1>6

(* Every comparison of every program orders its two bytes.                 *)
THEOREM ComparisonsOrder == HSpec => CompareOrders
<1> DEFINE Ordered ==
      \A c \in {<<"CMP", m.a>>, <<"CPX", m.x>>, <<"CPY", m.y>>} :
        Executes({c[1]}) =>
          /\ (Carry \in m'.p) = (c[2] >= Val)
          /\ (Zero \in m'.p) = (c[2] = Val)
          /\ (Negative \in m'.p) = ((c[2] - Val) % 256 \in 128 .. 255)
<1>1. ASSUME TypeOK, Next PROVE Ordered
  <2>0. /\ Fetched \in Machine /\ Val \in Byte
        /\ m.a \in Byte /\ m.x \in Byte /\ m.y \in Byte
    BY <1>1, OperandsType DEF TypeOK
  <2>1. ASSUME NEW name, NEW t \in Byte, NEW extra, Instruction,
               Does(name, Compare(Fetched, t, Val), extra)
        PROVE  /\ (Carry \in m'.p) = (t >= Val)
               /\ (Zero \in m'.p) = (t = Val)
               /\ (Negative \in m'.p) = ((t - Val) % 256 \in 128 .. 255)
    <3>1. Compare(Fetched, t, Val) \in Machine
      BY <2>0, ComparedFlags
    <3>2. m'.p = Compare(Fetched, t, Val).p
      BY <1>1, <2>1, <3>1, DoesResult
    <3>3. /\ Carry \in m'.p <=> t >= Val
          /\ Zero \in m'.p <=> t = Val
          /\ Negative \in m'.p <=> (t - Val) % 256 \in 128 .. 255
      BY <2>0, <3>2, ComparedFlags
    <3>4. /\ (Carry \in m'.p) \in BOOLEAN /\ (t >= Val) \in BOOLEAN
          /\ (Zero \in m'.p) \in BOOLEAN /\ (t = Val) \in BOOLEAN
          /\ (Negative \in m'.p) \in BOOLEAN
          /\ ((t - Val) % 256 \in 128 .. 255) \in BOOLEAN
      OBVIOUS
    <3>5. QED
      BY <3>3, <3>4
  <2>2. Executes({"CMP"}) => Does("CMP", Compare(Fetched, m.a, Val), Penalty)
    BY <1>1, ActionOfName DEF Executes, CMP
  <2>3. Executes({"CPX"}) => Does("CPX", Compare(Fetched, m.x, Val), Penalty)
    BY <1>1, ActionOfName DEF Executes, CPX
  <2>4. Executes({"CPY"}) => Does("CPY", Compare(Fetched, m.y, Val), Penalty)
    BY <1>1, ActionOfName DEF Executes, CPY
  <2>5. \A names : Executes(names) => Instruction
    BY DEF Executes
  <2>6. SUFFICES ASSUME NEW c \in {<<"CMP", m.a>>, <<"CPX", m.x>>, <<"CPY", m.y>>},
                        Executes({c[1]})
                 PROVE  /\ (Carry \in m'.p) = (c[2] >= Val)
                        /\ (Zero \in m'.p) = (c[2] = Val)
                        /\ (Negative \in m'.p) = ((c[2] - Val) % 256 \in 128 .. 255)
    OBVIOUS
  <2>7. c[2] \in Byte /\ \E name, extra : Does(name, Compare(Fetched, c[2], Val), extra)
    BY <2>0, <2>2, <2>3, <2>4, <2>6
  <2>8. QED
    BY <2>1, <2>5, <2>6, <2>7
<1>2. TypeOK /\ [HNext]_hvars => [Ordered]_hvars
  BY <1>1 DEF HNext, HIteration, HBetween, Next
<1>3. QED
  BY <1>2, HistoryTypes, PTL DEF HSpec, CompareOrders

(* A sum that wraps is right modulo 256.                                   *)
LEMMA WrapIsModulo == ASSUME NEW n \in Int PROVE (Wrap8(n) - n) % 256 = 0
<1>1. Wrap8(n) = n % 256
  BY Widths DEF Wrap8
<1>2. ASSUME NEW q \in Int, NEW r \in 0 .. 255, n = 256 * q + r
      PROVE  n % 256 = r /\ (r - n) % 256 = 0
  BY <1>2
<1>3. PICK q \in Int, r \in 0 .. 255 : n = 256 * q + r
  <2>1. n \div 256 \in Int /\ n % 256 \in 0 .. 255
    OBVIOUS
  <2>2. n = 256 * (n \div 256) + (n % 256)
    OBVIOUS
  <2>3. QED
    BY <2>1, <2>2
<1>4. QED
  BY <1>1, <1>2, <1>3

(* What is loaded into the accumulator is there.                           *)
LEMMA LoadedA ==
  ASSUME NEW r \in Machine, NEW v \in Byte PROVE LoadA(r, v).a = v
<1> DEFINE s == [r EXCEPT !.a = v]
           z == Flag(s, Zero, v = 0)
<1>1. s \in Machine /\ s.a = v
  BY DEF Machine
<1> HIDE DEF s
<1>2. z \in Machine /\ z.a = v
  BY <1>1, FlagType, FlagNumbers
<1> HIDE DEF z
<1>3. Flag(z, Negative, Bit7(v)).a = v
  BY <1>2, FlagType, FlagNumbers
<1>4. QED
  BY <1>3 DEF LoadA, UpdateZeroNegative, z, s

(* The accumulator after a sum.                                            *)
LEMMA SumIs ==
  ASSUME NEW r \in Machine, NEW v, NEW sum \in Byte PROVE SetSum(r, v, sum).a = sum
<1> DEFINE signs == Flag(r, Overflow, Bit7(v) # Bit7(sum) /\ Bit7(sum) # Bit7(r.a))
           c == Flag(signs, Carry, Bit7(sum))
<1>1. signs \in Machine
  BY FlagType, FlagNumbers
<1> HIDE DEF signs
<1>2. c \in Machine
  BY <1>1, FlagType, FlagNumbers
<1> HIDE DEF c
<1>3. LoadA(c, sum).a = sum
  BY <1>2, LoadedA
<1>4. QED
  BY <1>3 DEF SetSum, c, signs

(* Every sum and difference of every program is right modulo 256.          *)
THEOREM SumsAreModulo == HSpec => SumModulo
<1> DEFINE Right ==
      /\ Executes({"ADC"}) => (m'.a - (m.a + Val + CarryIn(m))) % 256 = 0
      /\ Executes({"SBC", "*SBC"}) => (m'.a - (m.a - Val - 1 + CarryIn(m))) % 256 = 0
<1>1. ASSUME TypeOK, Next PROVE Right
  <2>0. /\ Fetched \in Machine /\ Val \in Byte /\ m \in Machine
        /\ Fetched.a = m.a /\ CarryIn(Fetched) = CarryIn(m)
    <3>1. m \in Machine /\ Fetched \in Machine /\ Val \in Byte
      BY <1>1, OperandsType DEF TypeOK
    <3>2. Fetched.a = m.a /\ Fetched.p = m.p
      BY <3>1 DEF Fetched, Jump, Machine
    <3>3. QED
      BY <3>1, <3>2 DEF CarryIn
  <2>1. m.a \in Int /\ Val \in Int /\ CarryIn(m) \in Int
    <3>1. m.a \in Byte /\ CarryIn(m) \in {0, 1}
      BY <2>0, CarryInType DEF Machine
    <3>2. QED
      BY <2>0, <3>1, ByteIs
  <2>2. /\ AddToAccumulator(Fetched, Val) \in Machine
        /\ SubFromAccumulator(Fetched, Val) \in Machine
    BY <2>0, SumKeeps DEF Keeps, NoBreak
  <2>3. AddToAccumulator(Fetched, Val).a = Wrap8(m.a + Val + CarryIn(m))
    <3>1. Wrap8(m.a + Val + CarryIn(m)) \in Byte
      BY <2>1, WrapType
    <3>2. QED
      BY <2>0, <3>1, SumIs DEF AddToAccumulator
  <2>4. SubFromAccumulator(Fetched, Val).a = Wrap8(m.a - Val - (1 - CarryIn(m)))
    <3>1. Wrap8(m.a - Val - (1 - CarryIn(m))) \in Byte
      BY <2>1, WrapType
    <3>2. QED
      BY <2>0, <3>1, SumIs DEF SubFromAccumulator
  <2>5. ASSUME Executes({"ADC"}) PROVE m'.a = AddToAccumulator(Fetched, Val).a
    BY <1>1, <2>2, <2>5, ActionOfName, DoesResult DEF Executes, ADC
  <2>6. ASSUME Executes({"SBC", "*SBC"}) PROVE m'.a = SubFromAccumulator(Fetched, Val).a
    BY <1>1, <2>2, <2>6, ActionOfName, DoesResult DEF Executes, SBC, SBCx
  <2>7. m.a - Val - (1 - CarryIn(m)) = m.a - Val - 1 + CarryIn(m)
    BY <2>1
  <2>8. /\ (Wrap8(m.a + Val + CarryIn(m)) - (m.a + Val + CarryIn(m))) % 256 = 0
        /\ (Wrap8(m.a - Val - 1 + CarryIn(m)) - (m.a - Val - 1 + CarryIn(m))) % 256 = 0
    BY <2>1, WrapIsModulo
  <2>9. QED
    BY <2>3, <2>4, <2>5, <2>6, <2>7, <2>8
<1>2. TypeOK /\ [HNext]_hvars => [Right]_hvars
  BY <1>1 DEF HNext, HIteration, HBetween, Next
<1>3. QED
  BY <1>2, HistoryTypes, PTL DEF HSpec, SumModulo

(* Setting a flag or testing a byte leaves the accumulator and the memory. *)
LEMMA FlagLeaves ==
  ASSUME NEW r \in Machine, NEW flag \in Bit, NEW on
  PROVE  /\ Flag(r, flag, on) \in Machine /\ Flag(r, flag, on).a = r.a
         /\ Flag(r, flag, on).mem = r.mem /\ Flag(r, flag, on).fault = r.fault
<1>1. ASSUME NEW S
      PROVE [r EXCEPT !.p = S].mem = r.mem /\ [r EXCEPT !.p = S].fault = r.fault
  BY DEF Machine
<1>2. QED
  BY <1>1, FlagType DEF Flag

(* Where a shift puts its byte, and what becomes of the carry.             *)
LEMMA ShiftIs ==
  ASSUME NEW r \in Machine, NEW mode, NEW data \in Byte, NEW carry,
         ~Shift(r, mode, data, carry).fault
  PROVE  /\ Shift(r, mode, data, carry) \in Machine
         /\ Carry \in Shift(r, mode, data, carry).p <=> carry
         /\ Address(r, mode) = 0 => Shift(r, mode, data, carry).a = data
         /\ Address(r, mode) # 0 /\ Address(r, mode) \in RAM =>
              Read(Shift(r, mode, data, carry), Address(r, mode)) = data
<1> DEFINE addr  == Address(r, mode)
           moved == IF addr = 0 THEN [r EXCEPT !.a = data] ELSE Write(r, addr, data)
           c == Flag(moved, Carry, carry)
           z == Flag(c, Zero, data = 0)
           n == Flag(z, Negative, Bit7(data))
<1>0. /\ Carry \in Bit /\ Zero \in Bit /\ Negative \in Bit
      /\ Carry # Zero /\ Carry # Negative
  BY FlagNumbers DEF Carry, Zero, Negative
<1>1. Shift(r, mode, data, carry) = n
  BY DEF Shift, UpdateZeroNegative
<1>2. /\ moved \in Machine
      /\ addr = 0 => moved.a = data
      /\ addr # 0 /\ addr \in RAM /\ ~moved.fault => Read(moved, addr) = data
  <2>1. [r EXCEPT !.a = data] \in Machine /\ [r EXCEPT !.a = data].a = data
    BY DEF Machine
  <2>2. Write(r, addr, data) \in Machine
    BY StoreStatus
  <2>3. ASSUME addr \in RAM, ~Write(r, addr, data).fault
        PROVE  Read(Write(r, addr, data), addr) = data
    <3>1. ~r.fault /\ addr \notin ROM
      <4>1. r.fault => Write(r, addr, data) = r
        BY DEF Write
      <4>2. addr \notin ROM
        BY <2>3, MemoryAssumption
      <4>3. QED
        BY <2>3, <4>1, <4>2
    <3>2. Write(r, addr, data) = [r EXCEPT !.mem[addr] = data]
      BY <2>3, <3>1 DEF Write
    <3>3. [r EXCEPT !.mem[addr] = data].mem = [r.mem EXCEPT ![addr] = data]
          /\ addr \in DOMAIN r.mem
      BY <2>3 DEF Machine
    <3>4. QED
      BY <3>2, <3>3 DEF Read
  <2>4. QED
    BY <2>1, <2>2, <2>3
<1> HIDE DEF moved
<1>3. /\ c \in Machine /\ c.a = moved.a /\ c.mem = moved.mem /\ c.fault = moved.fault
      /\ Carry \in c.p <=> carry
  <2>1. /\ c \in Machine /\ c.a = moved.a /\ c.mem = moved.mem /\ c.fault = moved.fault
    BY <1>0, <1>2, FlagLeaves
  <2>2. Carry \in c.p <=> carry
    BY <1>0, <1>2, FlagIs
  <2>3. QED
    BY <2>1, <2>2
<1> HIDE DEF c
<1>4. ASSUME NEW s \in Machine, NEW flag \in {Zero, Negative}, NEW on
      PROVE  Carry \in Flag(s, flag, on).p <=> Carry \in s.p
  <2>1. flag \in Bit /\ Carry # flag
    BY <1>0
  <2>2. CASE on
    <3>1. Flag(s, flag, on).p = s.p \cup {flag}
      BY <2>1, <2>2, FlagStatus
    <3>2. QED
      BY <2>1, <3>1
  <2>3. CASE ~on
    <3>1. Flag(s, flag, on).p = s.p \ {flag}
      BY <2>1, <2>3, FlagStatus
    <3>2. QED
      BY <2>1, <3>1
  <2>4. QED
    BY <2>2, <2>3
<1>5. /\ z \in Machine /\ z.a = c.a /\ z.mem = c.mem /\ z.fault = c.fault
      /\ Carry \in z.p <=> Carry \in c.p
  BY <1>0, <1>3, <1>4, FlagLeaves
<1> HIDE DEF z
<1>6. /\ n \in Machine /\ n.a = z.a /\ n.mem = z.mem /\ n.fault = z.fault
      /\ Carry \in n.p <=> Carry \in z.p
  BY <1>0, <1>4, <1>5, FlagLeaves
<1> HIDE DEF n
<1>7. Read(n, addr) = Read(moved, addr)
  BY <1>3, <1>5, <1>6 DEF Read
<1>8. QED
  BY <1>1, <1>2, <1>3, <1>5, <1>6, <1>7

(* A number is its half twice and its lowest bit.                          *)
LEMMA Halves ==
  ASSUME NEW n \in Int
  PROVE  n % 2 \in {0, 1} /\ n \div 2 \in Int /\ n = 2 * (n \div 2) + (n % 2)
<1>1. n \div 2 \in Int /\ n % 2 \in {0, 1}
  OBVIOUS
<1>2. n = 2 * (n \div 2) + (n % 2)
  OBVIOUS
<1>3. QED
  BY <1>1, <1>2

(* Every shift of every program, with its carry, keeps the bits.           *)
THEOREM ShiftsKeepAllBits == HSpec => ShiftsKeepBits
<1> DEFINE before == Source(Fetched, Op.mode)
           BitsKept ==
             /\ Shifts("ASL") => ShiftedByte + 256 * CarryOut = 2 * before
             /\ Shifts("LSR") => 2 * ShiftedByte + CarryOut = before
             /\ Shifts("ROR") => 2 * ShiftedByte + CarryOut = before + 256 * CarryIn(m)
<1>1. ASSUME TypeOK, Next PROVE BitsKept
  <2>0. /\ Fetched \in Machine /\ m \in Machine /\ before \in Byte
        /\ CarryIn(Fetched) = CarryIn(m) /\ CarryIn(m) \in {0, 1}
    <3>1. m \in Machine /\ Fetched \in Machine
      BY <1>1, OperandsType DEF TypeOK
    <3>2. Fetched.p = m.p
      BY <3>1, JumpStatus DEF Fetched
    <3>3. before \in Byte
      BY <3>1, OperandType
    <3>4. QED
      BY <3>1, <3>2, <3>3, CarryInType DEF CarryIn
  <2> HIDE DEF before
  <2>1. before \in Int /\ 0 <= before /\ before <= 255
    BY <2>0, ByteIs, Widths
  <2>2. ASSUME NEW name, NEW data \in Byte, NEW carry, Shifts(name),
               Does(name, Shift(Fetched, Op.mode, data, carry), 0)
        PROVE  ShiftedByte = data /\ (Carry \in m'.p <=> carry)
    <3> DEFINE result == Shift(Fetched, Op.mode, data, carry)
    <3>1. Instruction /\ (At = 0 \/ At \in RAM)
      BY <2>2 DEF Shifts, Executes
    <3>2. result \in Machine
      <4>1. [Fetched EXCEPT !.a = data] \in Machine
        BY <2>0 DEF Machine
      <4>2. Write(Fetched, Address(Fetched, Op.mode), data) \in Machine
        BY <2>0, StoreStatus
      <4>3. \A s \in Machine : UpdateZeroNegative(Flag(s, Carry, carry), data) \in Machine
        BY FlagLeaves, FlagNumbers DEF UpdateZeroNegative
      <4>4. QED
        BY <4>1, <4>2, <4>3 DEF Shift
    <3>3. /\ m'.a = result.a /\ m'.p = result.p /\ m'.mem = result.mem /\ ~result.fault
      BY <1>1, <2>2, <3>1, <3>2, DoesResult
    <3>4. Read(m', At) = Read(result, At)
      BY <3>3 DEF Read
    <3>5. /\ Carry \in result.p <=> carry
          /\ At = 0 => result.a = data
          /\ At # 0 /\ At \in RAM => Read(result, At) = data
      BY <2>0, <3>3, ShiftIs DEF At
    <3> HIDE DEF result
    <3>6. QED
      BY <3>1, <3>3, <3>4, <3>5 DEF ShiftedByte
  <2>3. \A name : Shifts(name) => Instruction /\ Op.mnemonic = name
    BY DEF Shifts, Executes
  <2>4. ASSUME Shifts("ASL") PROVE ShiftedByte + 256 * CarryOut = 2 * before
    <3>1. Does("ASL", Shift(Fetched, Op.mode, Wrap8(2 * before), Bit7(before)), 0)
      BY <1>1, <2>3, <2>4, ActionOfName DEF ASL, Asl, AslData, before
    <3>2. Wrap8(2 * before) \in Byte /\ Wrap8(2 * before) = (2 * before) % 256
      BY <2>0, ShiftedType, Widths DEF Wrap8
    <3>3. ShiftedByte = Wrap8(2 * before) /\ (Carry \in m'.p <=> Bit7(before))
      BY <2>2, <2>4, <3>1, <3>2
    <3>4. CASE before >= 128
      <4>1. CarryOut = 1
        BY <3>3, <3>4 DEF CarryOut, Bit7
      <4>2. (2 * before) % 256 = 2 * before - 256
        BY <2>1, <3>4
      <4>3. QED
        BY <2>1, <3>2, <3>3, <4>1, <4>2
    <3>5. CASE ~(before >= 128)
      <4>1. CarryOut = 0
        BY <3>3, <3>5 DEF CarryOut, Bit7
      <4>2. (2 * before) % 256 = 2 * before
        BY <2>1, <3>5
      <4>3. QED
        BY <2>1, <3>2, <3>3, <4>1, <4>2
    <3>6. QED
      BY <3>4, <3>5
  <2>5. /\ before % 2 \in {0, 1} /\ before \div 2 \in Int
        /\ before = 2 * (before \div 2) + (before % 2)
    BY <2>1, Halves
  <2>6. ASSUME Shifts("LSR") PROVE 2 * ShiftedByte + CarryOut = before
    <3>1. Does("LSR", Shift(Fetched, Op.mode, before \div 2, Bit0(before)), 0)
      BY <1>1, <2>3, <2>6, ActionOfName DEF LSR, Lsr, LsrData, before
    <3>2. before \div 2 \in Byte
      BY <2>0, ShiftedType
    <3>3. ShiftedByte = before \div 2 /\ (Carry \in m'.p <=> Bit0(before))
      BY <2>2, <2>6, <3>1, <3>2
    <3>4. CarryOut = before % 2
      BY <2>5, <3>3 DEF CarryOut, Bit0
    <3>5. 2 * ShiftedByte + CarryOut = 2 * (before \div 2) + (before % 2)
      BY <3>3, <3>4
    <3>6. QED
      BY <2>5, <3>5
  <2>7. ASSUME Shifts("ROR")
        PROVE  2 * ShiftedByte + CarryOut = before + 256 * CarryIn(m)
    <3>1. Does("ROR", Shift(Fetched, Op.mode, before \div 2 + 128 * CarryIn(m), Bit0(before)), 0)
      BY <1>1, <2>0, <2>3, <2>7, ActionOfName DEF ROR, Ror, RorData, before
    <3>2. before \div 2 + 128 * CarryIn(m) \in Byte
      BY <2>0, ShiftedType
    <3>3. /\ ShiftedByte = before \div 2 + 128 * CarryIn(m)
          /\ Carry \in m'.p <=> Bit0(before)
      BY <2>2, <2>7, <3>1, <3>2
    <3>4. CarryOut = before % 2
      BY <2>5, <3>3 DEF CarryOut, Bit0
    <3>5. CarryIn(m) \in Int /\ ShiftedByte \in Int /\ CarryOut \in Int
      BY <2>0, <2>5, <3>3, <3>4
    <3>6. QED
      BY <2>1, <2>5, <3>3, <3>4, <3>5
  <2>8. QED
    BY <2>4, <2>6, <2>7
<1>2. TypeOK /\ [HNext]_hvars => [BitsKept]_hvars
  BY <1>1 DEF HNext, HIteration, HBetween, Next
<1>3. QED
  BY <1>2, HistoryTypes, PTL DEF HSpec, ShiftsKeepBits
=============================================================================
