------------------------------ MODULE Mos6502 ------------------------------
(***************************************************************************)
(* The CPU (src/src/lib.rs): Mos6502::execute with its registers, its      *)
(* memory and the 256 opcodes, one action per mnemonic.  It refines        *)
(* ExecuteLoop, which knows of an instruction only its length, its cost    *)
(* and where it leaves the program counter.                                *)
(***************************************************************************)
EXTENDS Machine

CONSTANTS
  Opcodes,     (* The opcode table: byte -> row, see OpCodes.              *)
  Machines,    (* The machines the owner may have set up before it starts. *)
  Requests,    (* The interrupts <<kind, handler>> the owner raises.       *)
  Budgets,     (* The budgets a call can be granted.                       *)
  CycleSpace,  (* Number of values of cpu_cycles, 2^32 in the code.        *)
  Profiles     (* Build profiles: TRUE if integer overflow is checked.     *)

VARIABLES
  m,                (* registers and memory, see Machine                   *)
  interrupt,        (* self.interrupt                                      *)
  phase,            (* where the caller is, see ExecuteLoop                *)
  cpu_cycles,       (* locals of execute                                   *)
  stall_cycles,
  overflow_checks   (* the profile the program was built with              *)

vars == <<m, interrupt, phase, cpu_cycles, stall_cycles, overflow_checks>>

(* What the loop sees of a row.  Only these handlers set the counter.      *)
Jumps == {"JMP", "JSR", "RTS", "RTI", "BPL", "BMI", "BVC", "BVS", "BCC", "BCS", "BNE", "BEQ"}

LoopOp(row) == [len |-> row.len, cycles |-> row.cycles, jumps |-> row.mnemonic \in Jumps]

LoopOps == {LoopOp(Opcodes[code]) : code \in Byte}

Loop == INSTANCE ExecuteLoop WITH
          AddrSpace <- MaxWord + 1, Ops <- LoopOps, pc <- m.pc, interrupt <- interrupt.kind

(* The table has a row for every byte, and the host stores bytes.          *)
ASSUME TableAssumption ==
  \A code \in Byte : /\ Opcodes[code].len \in 1 .. Loop!MaxLen
                     /\ Opcodes[code].cycles \in 1 .. Loop!MaxCycles
                     /\ Opcodes[code].mode \in AddressingMode

(* The rows of the instructions that set the counter: a return has no      *)
(* operand, a branch its offset, JMP and JSR an address or a pointer.      *)
ASSUME RowAssumption ==
  \A code \in Byte :
    LET row == Opcodes[code] IN
      /\ row.mnemonic \in {"RTS", "RTI"} => row.len = 1
      /\ row.mnemonic \in {"JMP", "JSR"} => row.len = 3
      /\ row.mnemonic = "JMP" <=> code \in {\h4C, \h6C}
      /\ row.mnemonic \in Jumps \ {"RTS", "RTI", "JMP", "JSR"} =>
           row.len = 2 /\ row.cycles = 2

(* A handler that stores to a controller which panics is left out.         *)
ASSUME HostAssumption ==
  /\ Machines \subseteq Machine
  /\ \A r \in Requests : /\ r[1] \in Loop!External
                         /\ DOMAIN r[2] \cap ROM = {}
                         /\ \A addr \in DOMAIN r[2] : r[2][addr] \in Byte

ASSUME CycleAssumption ==
  /\ CycleSpace \in Nat /\ CycleSpace > 2 * Loop!MaxCost
  /\ Budgets \subseteq 0 .. CycleSpace - 1

NoHandler   == << >>
NoInterrupt == [kind |-> "none", handler |-> NoHandler]
BrkRequest  == [kind |-> "BRK", handler |-> NoHandler]

TypeOK ==
  /\ m \in Machine
  /\ interrupt \in {NoInterrupt, BrkRequest}
                     \cup {[kind |-> r[1], handler |-> r[2]] : r \in Requests}
  /\ overflow_checks \in Profiles
  /\ Loop!TypeOK

----------------------------------------------------------------------------
(* The fetch of an instruction.                                            *)

Op      == Opcodes[Read(m, m.pc)]
Fetched == Jump(m, Wrap16(m.pc + 1))
At      == Address(Fetched, Op.mode)
Val     == Operand(Fetched, Op.mode)
Penalty == IF PageCrossed(Fetched, Op.mode) THEN 1 ELSE 0

(* A sum that leaves its type before the handler has changed anything in   *)
(* memory: the fetch, the second byte of an operand, the return addresses  *)
(* of JSR and RTS, and the addresses of *TAS, *AHX and *SHX.               *)
SumOverflows ==
  \/ m.pc = 65535
  \/ Fetched.pc = 65535 /\ Op.len = 3 /\ Op.mnemonic # "*SHY"
  \/ Fetched.pc >= 65534 /\ Op.mnemonic = "JSR"
  \/ TopWord(m) = 65535 /\ Op.mnemonic = "RTS"
  \/ /\ Op.mnemonic \in {"*TAS", "*AHX", "*SHX"}
     /\ UnstableBase(Fetched, Op.mode) + m.y > 65535
  \/ /\ Op.mnemonic \in {"*TAS", "*SHX"}
     /\ Hi(UnstableAddr(Fetched, Op.mode)) = 255

(* The end of the iteration can overflow too, with the handler done.       *)
EndOverflows(after, k) ==
  \/ Loop!AsSigned(cpu_cycles) - k < -Loop!Half
  \/ /\ ~Loop!Overdrawn(cpu_cycles, k)
     /\ after.pc = Fetched.pc
     /\ Fetched.pc + Op.len - 1 > 65535

(* The memory keeps what was written before the panic.  The registers are  *)
(* behind the poisoned mutex of the CPU, and nobody looks at them again.   *)
Unwind(mem) ==
  /\ phase' = "panicked"
  /\ m' = [m EXCEPT !.mem = mem]
  /\ UNCHANGED <<interrupt, cpu_cycles, stall_cycles, overflow_checks>>

Fetch == Loop!Fetching /\ ~(overflow_checks /\ SumOverflows)

SumPanic == Loop!Fetching /\ overflow_checks /\ SumOverflows /\ Unwind(m.mem)

----------------------------------------------------------------------------
(* The end of the iteration of an instruction that cost k and left the     *)
(* machine at `after`.                                                     *)

(* Fault: the program counter is not moved past the operands.              *)
AdvanceNever(after) == after

Advance(after) ==
  IF after.pc = Fetched.pc THEN Jump(after, Wrap16(m.pc + Op.len)) ELSE after

Retire(after, k) ==
  /\ IF Loop!Overdrawn(cpu_cycles, k)
       THEN cpu_cycles' = 0 /\ m' = after
       ELSE cpu_cycles' = (cpu_cycles - k) % CycleSpace /\ m' = Advance(after)
  /\ UNCHANGED <<interrupt, phase, stall_cycles, overflow_checks>>

Finish(after, k) ==
  IF after.fault \/ (overflow_checks /\ EndOverflows(after, k))
    THEN Unwind(after.mem)
    ELSE Retire(after, k)

(* An instruction that costs `extra` above its row and is done at once.    *)
Does(name, result, extra) ==
  /\ Op.mnemonic = name
  /\ \E after \in {result} : Finish(after, Op.cycles + extra)

----------------------------------------------------------------------------
(* The official instructions.                                              *)

BRK ==
  /\ Op.mnemonic = "BRK"
  /\ m' = Fetched
  /\ interrupt' = BrkRequest
  /\ UNCHANGED <<phase, cpu_cycles, stall_cycles, overflow_checks>>

NOP == Does("NOP", Fetched, 0)

ADC == Does("ADC", AddToAccumulator(Fetched, Val), Penalty)
SBC == Does("SBC", SubFromAccumulator(Fetched, Val), Penalty)
AND == Does("AND", AndA(Fetched, Val), Penalty)
EOR == Does("EOR", EorA(Fetched, Val), Penalty)
ORA == Does("ORA", OraA(Fetched, Val), Penalty)

ASL == Does("ASL", Asl(Fetched, Op.mode), 0)
LSR == Does("LSR", Lsr(Fetched, Op.mode), 0)
ROL == Does("ROL", Rol(Fetched, Op.mode), 0)
ROR == Does("ROR", Ror(Fetched, Op.mode), 0)

INC == Does("INC", Inc(Fetched, Op.mode), 0)
DEC == Does("DEC", Dec(Fetched, Op.mode), 0)
INX == Does("INX", LoadX(Fetched, Wrap8(m.x + 1)), 0)
INY == Does("INY", LoadY(Fetched, Wrap8(m.y + 1)), 0)
DEX == Does("DEX", LoadX(Fetched, Wrap8(m.x - 1)), 0)
DEY == Does("DEY", LoadY(Fetched, Wrap8(m.y - 1)), 0)

CMP == Does("CMP", Compare(Fetched, m.a, Val), Penalty)
CPX == Does("CPX", Compare(Fetched, m.x, Val), Penalty)
CPY == Does("CPY", Compare(Fetched, m.y, Val), Penalty)
BIT == Does("BIT", BitTest(Fetched, Val), 0)

JMP == Does("JMP", IF Read(m, m.pc) = \h4C THEN Jump(Fetched, ReadWord(m, Fetched.pc))
                                           ELSE JumpIndirect(Fetched), 0)
JSR == Does("JSR", CallSubroutine(Fetched), 0)
RTS == Does("RTS", ReturnFromSubroutine(Fetched), 0)
RTI == Does("RTI", ReturnFromInterrupt(Fetched), 0)

BranchIf(name, taken) ==
  Does(name, Branch(Fetched, taken), BranchCycles(Fetched, taken))

BCC == BranchIf("BCC", Carry \notin m.p)
BCS == BranchIf("BCS", Carry \in m.p)
BNE == BranchIf("BNE", Zero \notin m.p)
BEQ == BranchIf("BEQ", Zero \in m.p)
BPL == BranchIf("BPL", Negative \notin m.p)
BMI == BranchIf("BMI", Negative \in m.p)
BVC == BranchIf("BVC", Overflow \notin m.p)
BVS == BranchIf("BVS", Overflow \in m.p)

LDA == Does("LDA", LoadA(Fetched, Val), Penalty)
LDX == Does("LDX", LoadX(Fetched, Val), Penalty)
LDY == Does("LDY", LoadY(Fetched, Val), Penalty)
STA == Does("STA", Write(Fetched, At, m.a), 0)
STX == Does("STX", Write(Fetched, At, m.x), 0)
STY == Does("STY", Write(Fetched, At, m.y), 0)

CLC == Does("CLC", Flag(Fetched, Carry, FALSE), 0)
CLD == Does("CLD", Flag(Fetched, Decimal, FALSE), 0)
CLI == Does("CLI", Flag(Fetched, Interrupt, FALSE), 0)
CLV == Does("CLV", Flag(Fetched, Overflow, FALSE), 0)
SEC == Does("SEC", Flag(Fetched, Carry, TRUE), 0)
SED == Does("SED", Flag(Fetched, Decimal, TRUE), 0)
SEI == Does("SEI", Flag(Fetched, Interrupt, TRUE), 0)

TAX == Does("TAX", LoadX(Fetched, m.a), 0)
TAY == Does("TAY", LoadY(Fetched, m.a), 0)
TSX == Does("TSX", LoadX(Fetched, m.sp), 0)
TXA == Does("TXA", LoadA(Fetched, m.x), 0)
TYA == Does("TYA", LoadA(Fetched, m.y), 0)
TXS == Does("TXS", [Fetched EXCEPT !.sp = m.x], 0)

PHA == Does("PHA", Push(Fetched, m.a), 0)
PHP == Does("PHP", Push(Fetched, FromBits(m.p)), 0)
PLA == Does("PLA", LoadA(Popped(Fetched), Top(Fetched)), 0)
PLP == Does("PLP", PullStatus(Fetched), 0)

Official ==
  \/ BRK \/ NOP \/ ADC \/ SBC \/ AND \/ EOR \/ ORA \/ ASL \/ LSR \/ ROL \/ ROR
  \/ INC \/ DEC \/ INX \/ INY \/ DEX \/ DEY \/ CMP \/ CPX \/ CPY \/ BIT
  \/ JMP \/ JSR \/ RTS \/ RTI \/ BCC \/ BCS \/ BNE \/ BEQ \/ BPL \/ BMI \/ BVC \/ BVS
  \/ LDA \/ LDX \/ LDY \/ STA \/ STX \/ STY
  \/ CLC \/ CLD \/ CLI \/ CLV \/ SEC \/ SED \/ SEI
  \/ TAX \/ TAY \/ TSX \/ TXA \/ TYA \/ TXS \/ PHA \/ PHP \/ PLA \/ PLP

----------------------------------------------------------------------------
(* The unofficial ones.                                                    *)

NOPs == Does("*NOP", Fetched, Penalty)

SBCx == Does("*SBC", SubFromAccumulator(Fetched, Val), 0)
SLO == Does("*SLO", Slo(Fetched, Op.mode), 0)
RLA == Does("*RLA", Rla(Fetched, Op.mode), 0)
SRE == Does("*SRE", Sre(Fetched, Op.mode), 0)
RRA == Does("*RRA", Rra(Fetched, Op.mode), 0)
DCP == Does("*DCP", Dcp(Fetched, Op.mode), 0)
ISC == Does("*ISC", Isc(Fetched, Op.mode), 0)
ANC == Does("*ANC", Anc(Fetched, Op.mode), 0)
ALR == Does("*ALR", Alr(Fetched, Op.mode), 0)
ARR == Does("*ARR", Arr(Fetched, Op.mode), 0)
AXS == Does("*AXS", Axs(Fetched, Op.mode), 0)
LAX == Does("*LAX", Lax(Fetched, Op.mode), 0)
SAX == Does("*SAX", Write(Fetched, At, And(m.a, m.x)), 0)
LXA == Does("*LXA", Lxa(Fetched, Op.mode), 0)
XAA == Does("*XAA", Xaa(Fetched, Op.mode), 0)
LAS == Does("*LAS", Las(Fetched, Op.mode), 0)
TAS == Does("*TAS", Tas(Fetched, Op.mode), 0)
AHX == Does("*AHX", Ahx(Fetched, Op.mode), 0)
SHX == Does("*SHX", Shx(Fetched, Op.mode), 0)

(* *SHY is in the table and has no handler: Error::UnhandledOpCode.        *)
SHY ==
  /\ Op.mnemonic = "*SHY"
  /\ m' = Fetched
  /\ phase' = "failed"
  /\ cpu_cycles' = 0
  /\ UNCHANGED <<interrupt, stall_cycles, overflow_checks>>

Unofficial ==
  \/ NOPs \/ SBCx \/ SLO \/ RLA \/ SRE \/ RRA \/ DCP \/ ISC \/ ANC \/ ALR \/ ARR
  \/ AXS \/ LAX \/ SAX \/ LXA \/ XAA \/ LAS \/ TAS \/ AHX \/ SHX \/ SHY

----------------------------------------------------------------------------
(* handle_interrupt: the machine an interrupt leaves.  IRQ pushes the      *)
(* status as it is, and is served whatever the Interrupt flag says.        *)
Serviced ==
  CASE interrupt.kind = "NMI"   -> Enter(m, m.p, interrupt.handler, \hFFFA)
    [] interrupt.kind = "IRQ"   -> Enter(m, m.p, interrupt.handler, \hFFFE)
    [] interrupt.kind = "BRK"   -> Enter(m, m.p \cup {Break}, interrupt.handler, \hFFFE)
    [] interrupt.kind = "RESET" -> ResetMachine(m)

HandleInterrupt ==
  /\ phase = "running"
  /\ interrupt # NoInterrupt
  /\ IF Serviced.fault
       THEN Unwind(Serviced.mem)
       ELSE /\ m' = Serviced
            /\ interrupt' = NoInterrupt
            /\ cpu_cycles' = 0
            /\ stall_cycles' = Loop!InterruptCycles(interrupt.kind)
            /\ UNCHANGED <<phase, overflow_checks>>

Stall  == UNCHANGED <<m, interrupt, overflow_checks>> /\ Loop!Stall
Return == UNCHANGED <<m, interrupt, overflow_checks>> /\ Loop!Return

Iteration ==
  \/ HandleInterrupt
  \/ Stall
  \/ Return
  \/ SumPanic
  \/ Fetch /\ (Official \/ Unofficial)

----------------------------------------------------------------------------
(* What the owner does between two calls.                                  *)

Call(b)    == UNCHANGED <<m, interrupt, overflow_checks>> /\ Loop!Call(b)
ClockPanic == UNCHANGED <<m, interrupt, overflow_checks>> /\ Loop!ClockPanic

Raise(kind, handler) ==
  /\ Loop!Resting
  /\ interrupt' = [kind |-> kind, handler |-> handler]
  /\ UNCHANGED <<m, phase, cpu_cycles, stall_cycles, overflow_checks>>

Reset ==
  /\ Loop!Resting
  /\ m' = ResetMachine(m)
  /\ UNCHANGED <<interrupt, phase, cpu_cycles, stall_cycles, overflow_checks>>

Between ==
  \/ \E b \in Budgets : Call(b)
  \/ \E r \in Requests : Raise(r[1], r[2])
  \/ Reset
  \/ ClockPanic

Next == Iteration \/ Between

Init ==
  /\ m \in Machines
  /\ interrupt = NoInterrupt
  /\ phase = "idle"
  /\ cpu_cycles = 0
  /\ stall_cycles = 0
  /\ overflow_checks \in Profiles

Spec == Init /\ [][Next]_vars

----------------------------------------------------------------------------
(* The step of ExecuteLoop that a step here is, with its witnesses: the    *)
(* row of the opcode that was fetched, and the program counter it left.    *)
FetchedOp == LoopOp(Op)

LoopStep ==
  \/ Loop!HandleInterrupt(m'.pc)
  \/ Loop!Stall
  \/ Loop!Return
  \/ Loop!Break
  \/ \E extra \in 0 .. Loop!MaxExtra : Loop!Straight(FetchedOp, extra)
  \/ \E extra \in 0 .. Loop!MaxExtra : Loop!Transfer(FetchedOp, extra, m'.pc)
  \/ Loop!Fail
  \/ Loop!Panic
  \/ \E r \in Requests : Loop!Raise(r[1])
  \/ \E b \in Budgets : Loop!Call(b)
  \/ Loop!Place(m'.pc)
  \/ Loop!ClockPanic

(* The CPU implements the loop: whatever an instruction does to registers  *)
(* and memory, of the program counter, the interrupt, the budget and the   *)
(* outcome of the call it makes what ExecuteLoop says.                     *)
ImplementsLoop == Loop!Init /\ [][LoopStep]_(Loop!vars)
=============================================================================
