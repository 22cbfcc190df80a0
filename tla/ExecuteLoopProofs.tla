------------------------- MODULE ExecuteLoopProofs -------------------------
(***************************************************************************)
(* What the loop of Mos6502::execute keeps for every size of the address   *)
(* space and of cpu_cycles, every opcode table and every set of budgets    *)
(* that satisfy the assumptions of ExecuteLoop.                            *)
(*                                                                         *)
(* LoopInv is the inductive invariant.  The properties only speak of calls *)
(* that have ended, or of what was spent; LoopInv adds what the loop keeps *)
(* while a call is running: the budget granted is what was spent and what  *)
(* is left, until the one overdraft.                                       *)
(***************************************************************************)
EXTENDS LoopHistory, TLAPS

----------------------------------------------------------------------------
(* Arithmetic.                                                             *)

(* Half is the number of non-negative values of an i32.                    *)
LEMMA HalfFacts == /\ Half \in Nat
                   /\ CycleSpace = 2 * Half
                   /\ Half > MaxCost
  BY CycleAssumption DEF Half, MaxCost, MaxCycles, MaxExtra

(* The operands of the instruction at p are what lies ahead once its first *)
(* byte is fetched, also where the address wraps.                          *)
LEMMA OperandsAhead ==
  ASSUME NEW p \in Addr, NEW n \in 1 .. MaxLen
  PROVE  /\ n = 1 => (p + n) % AddrSpace = (p + 1) % AddrSpace
         /\ n > 1 => (p + n) % AddrSpace \in Ahead((p + 1) % AddrSpace)
<1>1. p \in Nat /\ p < AddrSpace /\ AddrSpace \in Nat /\ AddrSpace > 3 /\ n \in Nat /\ n <= 3
  BY AddrAssumption DEF Addr, MaxLen
<1>2. ASSUME n > 1 PROVE (p + n) % AddrSpace = (((p + 1) % AddrSpace) + (n - 1)) % AddrSpace
  <2>1. CASE p + 1 < AddrSpace
    <3>1. (p + 1) % AddrSpace = p + 1
      BY <1>1, <2>1
    <3>2. QED
      BY <1>1, <3>1
  <2>2. CASE p + 1 = AddrSpace
    <3>1. (p + 1) % AddrSpace = 0
      BY <1>1, <2>2
    <3>2. (AddrSpace + (n - 1)) % AddrSpace = n - 1 /\ (n - 1) % AddrSpace = n - 1
      BY <1>1, <1>2
    <3>3. p + n = AddrSpace + (n - 1) /\ 0 + (n - 1) = n - 1
      BY <1>1, <2>2
    <3>4. QED
      BY <3>1, <3>2, <3>3
  <2>3. QED
    BY <1>1, <2>1, <2>2
<1>3. ASSUME n > 1 PROVE n - 1 \in 1 .. MaxLen - 1
  BY <1>1, <1>3 DEF MaxLen
<1>4. QED
  BY <1>2, <1>3 DEF Ahead

(* A wrapped address is an address.                                        *)
LEMMA WrappedAddr == ASSUME NEW a \in Nat PROVE a % AddrSpace \in Addr
  BY AddrAssumption DEF Addr, MaxLen

(* Reducing a value that is already in range changes nothing.              *)
LEMMA SmallMod ==
  ASSUME NEW n \in Nat, NEW a \in 0 .. n - 1 PROVE a % n = a
  OBVIOUS

(* Ten times less is less.                                                 *)
LEMMA TenTimes ==
  ASSUME NEW a \in Nat, NEW b \in Nat, a < b PROVE 10 * a < 10 * b
  OBVIOUS

(* The cost of an instruction is positive and at most MaxCost.             *)
LEMMA CostRange ==
  ASSUME NEW op \in Ops, NEW e \in 0 .. MaxExtra
  PROVE  /\ op.cycles + e \in 1 .. MaxCost
         /\ op.len \in 1 .. MaxLen
  BY OpsAssumption DEF MaxExtra, MaxCost, MaxCycles, MaxLen

(* The test in i32 guards the subtraction in u32: an instruction that does *)
(* not overdraw costs at most what is left, for budgets of either sign.    *)
LEMMA NoUnderflow ==
  ASSUME NEW c \in 0 .. CycleSpace - 1, NEW k \in 1 .. MaxCost, ~Overdrawn(c, k)
  PROVE  /\ k <= c
         /\ (c - k) % CycleSpace = c - k
<1>1. k <= c
  BY HalfFacts DEF Overdrawn, SignedDiff, AsSigned, MaxCost, MaxCycles, MaxExtra
<1>2. CycleSpace \in Nat /\ c - k \in 0 .. CycleSpace - 1
  BY <1>1, CycleAssumption DEF MaxCost, MaxCycles, MaxExtra
<1>3. QED
  BY <1>1, <1>2, SmallMod

(* Below Half the two tests, signed and unsigned, agree.                   *)
LEMMA PositiveBudget ==
  ASSUME NEW c \in 0 .. Half - 1, NEW k \in 1 .. MaxCost
  PROVE  Overdrawn(c, k) <=> c < k
  BY HalfFacts DEF Overdrawn, SignedDiff, AsSigned, MaxCost, MaxCycles, MaxExtra

(* A budget that stays negative after the subtraction is always overdrawn. *)
LEMMA HugeBudget ==
  ASSUME NEW c \in Half + MaxCost .. CycleSpace - 1, NEW k \in 1 .. MaxCost
  PROVE  Overdrawn(c, k)
  BY HalfFacts DEF Overdrawn, SignedDiff, AsSigned, MaxCost, MaxCycles, MaxExtra

----------------------------------------------------------------------------
(* One instruction.                                                        *)

(* What the end of an instruction's iteration does to the budget: it is    *)
(* charged in full, or it is overdrawn and gone, and always lower.         *)
LEMMA RetireCharges ==
  ASSUME LoopInv, Fetching,
         NEW op \in Ops, NEW e \in 0 .. MaxExtra, NEW t \in Addr,
         Retire(op, op.cycles + e, t)
  PROVE  /\ pc' \in Addr
         /\ cpu_cycles' \in 0 .. CycleSpace - 1
         /\ cpu_cycles' < cpu_cycles
         /\ ~served
         /\ granted < Half =>
              /\ spent + cpu_cycles = granted
              /\ \/ spent + (op.cycles + e) + cpu_cycles' = granted
                 \/ /\ cpu_cycles' = 0
                    /\ granted < spent + (op.cycles + e)
                    /\ spent + (op.cycles + e) < granted + MaxCost
         /\ granted >= Half + MaxCost => spent = 0 /\ cpu_cycles' = 0
<1> DEFINE k == op.cycles + e
<1>1. k \in 1 .. MaxCost /\ op.len \in 1 .. MaxLen
  BY CostRange
<1>2. /\ ~served
      /\ cpu_cycles \in 1 .. CycleSpace - 1
      /\ spent \in Nat
      /\ granted \in 0 .. CycleSpace - 1
      /\ pc \in Addr
  BY DEF LoopInv, TypeOK, HistoryTypeOK, NothingLeft, Fetching
<1>3. granted < Half => spent + cpu_cycles = granted
  BY <1>2 DEF LoopInv, Accounted, Fetching
<1>4. granted >= Half + MaxCost => spent = 0 /\ cpu_cycles = granted
  BY <1>2 DEF LoopInv, HugeAccounted, Fetching
<1>5. CASE Overdrawn(cpu_cycles, k)
  <2>1. cpu_cycles' = 0 /\ pc' = t
    BY <1>5 DEF Retire
  <2>2. granted < Half => cpu_cycles < k
    BY <1>1, <1>2, <1>3, <1>5, HalfFacts, PositiveBudget
  <2>3. QED
    BY <2>1, <2>2, <1>1, <1>2, <1>3, <1>4, CycleAssumption
       DEF MaxCost, MaxCycles, MaxExtra
<1>6. CASE ~Overdrawn(cpu_cycles, k)
  <2>1. k <= cpu_cycles /\ cpu_cycles' = cpu_cycles - k
    BY <1>1, <1>2, <1>6, NoUnderflow DEF Retire
  <2>2. pc + op.len \in Nat
    BY <1>1, <1>2, AddrAssumption DEF Addr, MaxLen
  <2>3. pc' \in Addr
    BY <1>6, <2>2, WrappedAddr DEF Retire, Following
  <2>4. ~(granted >= Half + MaxCost)
    BY <1>1, <1>2, <1>4, <1>6, HalfFacts, HugeBudget
  <2>5. QED
    BY <2>1, <2>3, <2>4, <1>1, <1>2, <1>3, CycleAssumption
       DEF MaxCost, MaxCycles, MaxExtra
<1>7. QED
  BY <1>5, <1>6

(* The account is kept by an instruction, whether it falls through or      *)
(* jumps: every part of LoopInv but InStep.                                *)
LEMMA ChargeKeepsAccount ==
  ASSUME LoopInv, Fetching,
         NEW op \in Ops, NEW e \in 0 .. MaxExtra, NEW t \in Addr,
         Retire(op, op.cycles + e, t),
         UNCHANGED <<interrupt, phase, stall_cycles, granted, served>>,
         spent' = spent + op.cycles + e
  PROVE  /\ TypeOK'
         /\ spent' \in Nat
         /\ NothingLeft'
         /\ Accounted'
         /\ HugeAccounted'
         /\ BudgetUsed'
         /\ HugeBudgetLost'
         /\ BreakServedInCall'
<1>1. op.cycles + e \in 1 .. MaxCost /\ op.cycles \in Nat /\ e \in Nat
  BY CostRange, OpsAssumption DEF MaxExtra, MaxCycles
<1>2. /\ spent \in Nat
      /\ spent' = spent + (op.cycles + e)
      /\ granted' = granted
      /\ granted \in 0 .. CycleSpace - 1
  BY <1>1 DEF LoopInv, HistoryTypeOK
<1>3. /\ phase' = "running"
      /\ interrupt' = "none"
      /\ stall_cycles' = 0
      /\ served' = served
  BY DEF Fetching
<1>4. TypeOK'
  BY <1>3, RetireCharges DEF TypeOK, Pending, Phase, MaxStall
<1>5. NothingLeft' /\ BreakServedInCall' /\ BudgetUsed'
  BY <1>3, RetireCharges DEF NothingLeft, BreakServedInCall, BudgetUsed
<1>6. Accounted'
  BY <1>1, <1>2, RetireCharges DEF Accounted
<1>7. HugeAccounted' /\ HugeBudgetLost'
  <2>1. granted >= Half + MaxCost => spent' <= MaxCost /\ cpu_cycles' = 0
    BY <1>1, <1>2, RetireCharges DEF MaxCost, MaxCycles, MaxExtra
  <2>2. QED
    BY <1>2, <2>1 DEF HugeAccounted, HugeBudgetLost
<1>8. QED
  BY <1>1, <1>2, <1>4, <1>5, <1>6, <1>7

(* An instruction that falls through leaves the program counter after its  *)
(* operands, or has overdrawn the budget.                                  *)
LEMMA StraightInStep ==
  ASSUME LoopInv, NEW op \in Ops, NEW e \in 0 .. MaxExtra, HStraight(op, e)
  PROVE  LoopInv'
<1> DEFINE k == op.cycles + e
<1>1. /\ k \in 1 .. MaxCost
      /\ op.len \in 1 .. MaxLen
      /\ op.cycles \in Nat /\ e \in Nat
  BY CostRange, OpsAssumption DEF MaxExtra, MaxCycles
<1>2. /\ Fetching
      /\ Retire(op, k, AfterFetch)
      /\ UNCHANGED <<interrupt, phase, stall_cycles, granted, served>>
      /\ spent' = spent + op.cycles + e
      /\ due' = Following(op)
      /\ cause' = "none"
  BY DEF HStraight, Straight
<1>3. /\ AfterFetch \in Addr
      /\ Following(op) \in Addr
  BY <1>1, WrappedAddr DEF LoopInv, TypeOK, Addr, AfterFetch, Following, MaxLen
<1>4. /\ TypeOK' /\ spent' \in Nat
      /\ NothingLeft' /\ Accounted' /\ HugeAccounted'
      /\ BudgetUsed' /\ HugeBudgetLost' /\ BreakServedInCall'
  BY <1>2, <1>3, ChargeKeepsAccount
<1>5. HistoryTypeOK'
  BY <1>2, <1>3, <1>4 DEF LoopInv, HistoryTypeOK, Cause
<1>6. InStep'
  <2>1. CASE Overdrawn(cpu_cycles, k)
    <3>1. /\ cpu_cycles \in 1 .. CycleSpace - 1
          /\ spent \in Nat
          /\ granted \in 0 .. CycleSpace - 1
          /\ ~served
          /\ granted' = granted
      BY <1>2 DEF LoopInv, TypeOK, HistoryTypeOK, NothingLeft, Fetching
    <3>2. granted < Half => spent + cpu_cycles = granted
      BY <1>2, <3>1 DEF LoopInv, Accounted, Fetching
    <3>3. granted < Half => cpu_cycles < k
      BY <1>1, <2>1, <3>1, <3>2, HalfFacts, PositiveBudget
    <3>4. granted < Half => spent' > granted
      BY <1>1, <1>2, <3>1, <3>2, <3>3 DEF MaxCost, MaxCycles, MaxExtra
    <3>5. pc' = AfterFetch /\ due' = Following(op)
      BY <1>2, <2>1 DEF Retire
    <3>6. pc' # due' => due' \in Ahead(pc')
      BY <1>1, <3>5, OperandsAhead DEF LoopInv, TypeOK, AfterFetch, Following
    <3>7. spent' > granted' \/ granted' >= Half
      BY <3>1, <3>4, HalfFacts
    <3>8. QED
      BY <3>6, <3>7 DEF InStep, Ahead
  <2>2. CASE ~Overdrawn(cpu_cycles, k)
    BY <1>2, <2>2 DEF Retire, InStep
  <2>3. QED
    BY <2>1, <2>2
<1>7. QED
  BY <1>4, <1>5, <1>6 DEF LoopInv

(* A jump leaves the program counter at its target, unless the target is   *)
(* the jump's own second byte.                                             *)
LEMMA TransferInStep ==
  ASSUME LoopInv, NEW op \in Ops, NEW e \in 0 .. MaxExtra, NEW t \in Addr,
         HTransfer(op, e, t)
  PROVE  LoopInv'
<1>1. /\ Fetching
      /\ Retire(op, op.cycles + e, t)
      /\ UNCHANGED <<interrupt, phase, stall_cycles, granted, served>>
      /\ spent' = spent + op.cycles + e
      /\ due' = t
      /\ cause' = IF t = AfterFetch THEN "operandJump" ELSE "none"
  BY DEF HTransfer, Transfer
<1>2. /\ TypeOK' /\ spent' \in Nat
      /\ NothingLeft' /\ Accounted' /\ HugeAccounted'
      /\ BudgetUsed' /\ HugeBudgetLost' /\ BreakServedInCall'
  BY <1>1, ChargeKeepsAccount
<1>3. HistoryTypeOK'
  BY <1>1, <1>2 DEF LoopInv, HistoryTypeOK, Cause
<1>4. InStep'
  <2>1. pc' = t \/ (t = AfterFetch /\ pc' = Following(op))
    BY <1>1 DEF Retire
  <2>2. pc' # due' => cause' = "operandJump" /\ pc' \in Ahead(due')
    BY <1>1, <2>1, CostRange, OperandsAhead DEF LoopInv, TypeOK, AfterFetch, Following
  <2>3. QED
    BY <2>2 DEF InStep, Ahead
<1>5. QED
  BY <1>2, <1>3, <1>4 DEF LoopInv

(* An instruction with no handler leaves the program counter at its        *)
(* operands, and the call with budget left.                                *)
LEMMA FailInStep ==
  ASSUME LoopInv, NEW op \in Ops, HFail(op) PROVE LoopInv'
<1>1. /\ Fetching
      /\ pc' = AfterFetch /\ phase' = "failed" /\ cpu_cycles' = 0
      /\ UNCHANGED <<interrupt, stall_cycles, granted, spent, served>>
      /\ due' = Following(op) /\ cause' = "noHandler"
  BY DEF HFail, Fail
<1>2. /\ interrupt = "none" /\ ~served /\ phase = "running"
      /\ cpu_cycles \in 1 .. CycleSpace - 1
      /\ spent \in Nat /\ granted \in 0 .. CycleSpace - 1 /\ served \in BOOLEAN
  BY <1>1 DEF LoopInv, TypeOK, HistoryTypeOK, NothingLeft, Fetching
<1>3. AfterFetch \in Addr /\ Following(op) \in Addr
  BY CostRange, OpsAssumption, WrappedAddr
     DEF LoopInv, TypeOK, Addr, AfterFetch, Following, MaxLen
<1>4. TypeOK' /\ HistoryTypeOK'
  BY <1>1, <1>2, <1>3, CycleAssumption
     DEF LoopInv, TypeOK, HistoryTypeOK, Phase, Cause, MaxCost, MaxCycles, MaxExtra
<1>5. BudgetUsed'
  <2>1. granted < Half => spent < granted
    BY <1>1, <1>2 DEF LoopInv, Accounted, Fetching
  <2>2. QED
    BY <1>1, <1>2, <2>1 DEF BudgetUsed
<1>6. InStep'
  <2>1. op.len \in 1 .. MaxLen
    BY OpsAssumption
  <2>2. pc' # due' => due' \in Ahead(pc')
    BY <1>1, <2>1, OperandsAhead DEF LoopInv, TypeOK, AfterFetch, Following
  <2>3. QED
    BY <1>1, <2>2 DEF InStep, Ahead
<1>7. QED
  BY <1>1, <1>2, <1>4, <1>5, <1>6
     DEF LoopInv, NothingLeft, Accounted, HugeAccounted, HugeBudgetLost, BreakServedInCall

----------------------------------------------------------------------------
(* The invariant.                                                          *)

(* The initial states satisfy the invariant.                               *)
LEMMA InitInv == HInit => LoopInv
<1> SUFFICES ASSUME HInit PROVE LoopInv
  OBVIOUS
<1>1. CycleSpace \in Nat /\ CycleSpace > 0 /\ MaxCost \in Nat /\ MaxCost > 0
  BY CycleAssumption DEF MaxCost, MaxCycles, MaxExtra
<1>2. TypeOK
  BY <1>1 DEF HInit, Init, TypeOK, Pending, Phase, MaxStall
<1>3. /\ ~served
      /\ served \in BOOLEAN
  BY Zenon DEF HInit
<1>4. HistoryTypeOK
  BY <1>1, <1>2, <1>3 DEF HInit, TypeOK, HistoryTypeOK, Cause
<1>5. QED
  BY <1>1, <1>2, <1>3, <1>4
     DEF HInit, Init, LoopInv, NothingLeft, Accounted, HugeAccounted, BudgetUsed,
         HugeBudgetLost, BreakServedInCall, InStep

(* Every iteration of the loop preserves it.                               *)
LEMMA IterationInv == LoopInv /\ HIteration => LoopInv'
<1> SUFFICES ASSUME LoopInv, HIteration PROVE LoopInv'
  OBVIOUS
<1> USE DEF LoopInv, TypeOK, HistoryTypeOK, NothingLeft, Accounted, HugeAccounted,
            BudgetUsed, HugeBudgetLost, BreakServedInCall, InStep, Ahead, Cause, history
<1>1. CycleSpace \in Nat /\ CycleSpace > 0 /\ Half \in Nat /\ MaxCost \in Nat /\ MaxCost > 0
  BY HalfFacts, CycleAssumption DEF MaxCost, MaxCycles, MaxExtra
<1>2. AfterFetch \in Addr
  BY WrappedAddr DEF Addr, AfterFetch
<1>3. ASSUME NEW v \in Addr, HHandleInterrupt(v) PROVE LoopInv'
  <2>1. InterruptCycles(interrupt) \in 0 .. MaxStall
    BY DEF InterruptCycles, MaxStall
  <2>2. served' /\ served' \in BOOLEAN
    BY <1>3, Zenon DEF HHandleInterrupt
  <2>3. QED
    BY <1>1, <1>3, <2>1, <2>2 DEF HHandleInterrupt, HandleInterrupt, Pending
<1>4. CASE HBreak
  BY <1>1, <1>2, <1>4 DEF HBreak, Break, Fetching, Pending
<1>5. ASSUME NEW op \in Ops, NEW e \in 0 .. MaxExtra, HStraight(op, e) PROVE LoopInv'
  BY <1>5, StraightInStep
<1>6. ASSUME NEW op \in Ops, NEW e \in 0 .. MaxExtra, NEW t \in Addr,
             HTransfer(op, e, t)
      PROVE  LoopInv'
  BY <1>6, TransferInStep
<1>7. ASSUME NEW op \in Ops, HFail(op) PROVE LoopInv'
  BY <1>7, FailInStep
<1>8. CASE HPlain
  <2>1. CASE Stall
    BY <1>1, <1>8, <2>1 DEF HPlain, Stall, MaxStall
  <2>2. CASE Return
    BY <1>1, <1>8, <2>2 DEF HPlain, Return, Phase
  <2>3. CASE Panic
    BY <1>1, <1>8, <2>3 DEF HPlain, Panic, Phase
  <2>4. QED
    BY <1>8, <2>1, <2>2, <2>3 DEF HPlain
<1>9. QED
  BY <1>3, <1>4, <1>5, <1>6, <1>7, <1>8 DEF HIteration

(* So does everything the owner of the CPU does, and a stutter.            *)
LEMMA NextInv == LoopInv /\ [HNext]_hvars => LoopInv'
<1> SUFFICES ASSUME LoopInv, [HNext]_hvars PROVE LoopInv'
  OBVIOUS
<1> USE DEF LoopInv, TypeOK, HistoryTypeOK, NothingLeft, Accounted, HugeAccounted,
            BudgetUsed, HugeBudgetLost, BreakServedInCall, InStep, Ahead, Cause, history
<1>1. CycleSpace \in Nat /\ CycleSpace > 0 /\ Half \in Nat /\ MaxCost \in Nat /\ MaxCost > 0
  BY HalfFacts, CycleAssumption DEF MaxCost, MaxCycles, MaxExtra
<1>2. CASE HIteration
  BY <1>2, IterationInv
<1>3. ASSUME NEW i \in External, HRaise(i) PROVE LoopInv'
  BY <1>1, <1>3 DEF HRaise, Raise, Resting, External, Pending
<1>4. ASSUME NEW b \in Budgets, HCall(b) PROVE LoopInv'
  <2>1. b \in 0 .. CycleSpace - 1
    BY BudgetAssumption
  <2>2. ~served' /\ served' \in BOOLEAN
    BY <1>4, Zenon DEF HCall
  <2>3. QED
    BY <1>1, <1>4, <2>1, <2>2 DEF HCall, Call, Resting, Pending, Phase, MaxStall
<1>5. ASSUME NEW t \in Addr, HPlace(t) PROVE LoopInv'
  BY <1>1, <1>5 DEF HPlace, Place, Resting
<1>6. CASE HClockPanic
  BY <1>1, <1>6 DEF HClockPanic, ClockPanic, Resting, Phase
<1>7. CASE UNCHANGED hvars
  BY <1>1, <1>7 DEF hvars, vars
<1>8. QED
  BY <1>2, <1>3, <1>4, <1>5, <1>6, <1>7 DEF HNext

----------------------------------------------------------------------------
(* The theorems.                                                           *)

(* The loop keeps its account: LoopInv is an invariant.                    *)
THEOREM LoopInvariant == HSpec => []LoopInv
<1>1. HInit => LoopInv
  BY InitInv
<1>2. LoopInv /\ [HNext]_hvars => LoopInv'
  BY NextInv
<1>3. QED
  BY <1>1, <1>2, PTL DEF HSpec

(* The fields and the locals of execute keep their types: cpu_cycles never *)
(* underflows its u32 and the program counter never leaves its u16.        *)
THEOREM TypeCorrect == HSpec => []TypeOK
<1>1. LoopInv => TypeOK
  BY DEF LoopInv
<1>2. QED
  BY <1>1, LoopInvariant, PTL

(* execute returns Ok only with its budget used up, and overdraws it by    *)
(* less than the cost of one instruction; it returns Err only with some of *)
(* its budget left, and without having served an interrupt.                *)
THEOREM BudgetIsUsed == HSpec => []BudgetUsed
<1>1. LoopInv => BudgetUsed
  BY DEF LoopInv
<1>2. QED
  BY <1>1, LoopInvariant, PTL

(* A budget that is negative as an i32 buys at most one instruction.       *)
THEOREM HugeBudgetIsLost == HSpec => []HugeBudgetLost
<1>1. LoopInv => HugeBudgetLost
  BY DEF LoopInv
<1>2. QED
  BY <1>1, LoopInvariant, PTL

(* A call that executed BRK serves it before it returns.                   *)
THEOREM BreakIsServed == HSpec => []BreakServedInCall
<1>1. LoopInv => BreakServedInCall
  BY DEF LoopInv
<1>2. QED
  BY <1>1, LoopInvariant, PTL

(* execute loses the instruction stream in four ways and no other: by an   *)
(* overdraft, by the sign of the budget and by the Err of an opcode with   *)
(* no handler it leaves the program counter at the operands of the last    *)
(* instruction; by a jump to its own operand it comes out after them.      *)
THEOREM StepLostAtOperands == HSpec => []InStep
<1>1. LoopInv => InStep
  BY DEF LoopInv
<1>2. QED
  BY <1>1, LoopInvariant, PTL

(* A call that has served an interrupt runs no instruction any more.       *)
THEOREM BudgetIsForfeited == HSpec => Forfeited
<1> DEFINE Keeps == served /\ phase = "running"
                      => spent' = spent /\ interrupt' = interrupt
<1>1. LoopInv /\ [HNext]_hvars => [Keeps]_hvars
  <2> SUFFICES ASSUME LoopInv, HNext, served, phase = "running"
               PROVE  spent' = spent /\ interrupt' = interrupt
    BY DEF Keeps
  <2>1. cpu_cycles = 0 /\ interrupt = "none"
    BY DEF LoopInv, NothingLeft
  <2>2. ~Fetching
    BY <2>1 DEF Fetching
  <2>3. HPlain
    BY <2>1, <2>2
       DEF HNext, HIteration, HRaise, Raise, HCall, Call, HPlace, Place,
           HClockPanic, ClockPanic, Resting, HHandleInterrupt, HandleInterrupt,
           HBreak, Break, HStraight, Straight, HTransfer, Transfer, HFail, Fail
  <2>4. QED
    BY <2>3 DEF HPlain, Stall, Return, Panic, history
<1>2. QED
  BY <1>1, LoopInvariant, PTL DEF HSpec, Forfeited

(* Every iteration that does not end the call lowers Measure, so a call    *)
(* runs at most as many iterations as Measure has at its start.            *)
THEOREM IterationsDescend == HSpec => Descends
<1> DEFINE Lower == phase = "running" /\ phase' = "running" => Measure' < Measure
<1>1. LoopInv /\ [HNext]_hvars => [Lower]_vars
  <2> SUFFICES ASSUME LoopInv, HNext, phase = "running", phase' = "running"
               PROVE  [Measure' < Measure]_vars
    BY DEF Lower, hvars, vars
  <2>1. /\ cpu_cycles \in Nat
        /\ stall_cycles \in 0 .. MaxStall
    BY CycleAssumption DEF LoopInv, TypeOK, MaxCost, MaxCycles, MaxExtra
  <2>2. ASSUME NEW v \in Addr, HHandleInterrupt(v) PROVE Measure' < Measure
    BY <2>2 DEF HHandleInterrupt, HandleInterrupt, InterruptCycles, Measure, MaxStall
  <2>3. CASE HBreak
    BY <2>1, <2>3 DEF HBreak, Break, Fetching, Measure, MaxStall
  <2>4. ASSUME NEW op \in Ops, NEW e \in 0 .. MaxExtra, NEW t \in Addr, Fetching,
               Retire(op, op.cycles + e, t), UNCHANGED <<interrupt, stall_cycles>>
        PROVE  Measure' < Measure
    <3>1. cpu_cycles' \in Nat /\ cpu_cycles' < cpu_cycles
      BY <2>4, RetireCharges, CycleAssumption DEF MaxCost, MaxCycles, MaxExtra
    <3>2. /\ Measure = 10 * cpu_cycles
          /\ Measure' = 10 * cpu_cycles'
      BY <2>1, <2>4, <3>1 DEF Measure, MaxStall, Fetching
    <3>3. 10 * cpu_cycles' < 10 * cpu_cycles
      BY <2>1, <3>1, TenTimes
    <3>4. QED
      BY <3>2, <3>3, Zenon
  <2>5. ASSUME NEW op \in Ops, NEW e \in 0 .. MaxExtra, HStraight(op, e)
        PROVE  Measure' < Measure
    <3>1. AfterFetch \in Addr
      BY WrappedAddr DEF LoopInv, TypeOK, Addr, AfterFetch
    <3>2. QED
      BY <2>4, <2>5, <3>1 DEF HStraight, Straight
  <2>6. ASSUME NEW op \in Ops, NEW e \in 0 .. MaxExtra, NEW t \in Addr,
               HTransfer(op, e, t)
        PROVE  Measure' < Measure
    BY <2>4, <2>6 DEF HTransfer, Transfer
  <2>7. CASE Stall
    BY <2>1, <2>7 DEF Stall, Measure, MaxStall
  <2>8. QED
    BY <2>2, <2>3, <2>5, <2>6, <2>7
       DEF HNext, HIteration, HRaise, Raise, HCall, Call, HPlace, Place,
           HClockPanic, ClockPanic, Resting, HFail, Fail, HPlain, Return, Panic
<1>2. QED
  BY <1>1, LoopInvariant, PTL DEF HSpec, Descends
=============================================================================
