---------------------------- MODULE ExecuteLoop ----------------------------
(***************************************************************************)
(* The loop of Mos6502::execute (src/src/lib.rs), with the instructions    *)
(* reduced to what the loop itself sees of them: their length, their cost  *)
(* and where they leave the program counter.  One call of execute is       *)
(* granted a budget of cycles and runs loop iterations until the budget is *)
(* used up; a pending interrupt comes before everything else.  One action  *)
(* is one iteration of the loop, or one thing the owner of the CPU does    *)
(* between two calls (execute holds `&mut self`, so nothing of the CPU     *)
(* changes under it).                                                      *)
(*                                                                         *)
(* The module is the contract of the scheduler: Mos6502.tla, which has the *)
(* registers, the memory and the real instructions, is checked to          *)
(* implement it.                                                           *)
(***************************************************************************)
EXTENDS Integers

CONSTANTS
  AddrSpace,   (* Number of addresses: 65536, program_counter is a u16.    *)
  CycleSpace,  (* Number of values of cpu_cycles: 2^32, it is a u32.       *)
  Budgets,     (* The budgets a call can be granted.                       *)
  Ops          (* Rows of the opcode table: their length, their cycles and *)
               (* whether their handler can set the program counter.       *)

MaxLen    == 3
MaxCycles == 8
MaxExtra  == 2   (* A page crossing adds 1, a taken branch 1 or 2.         *)
MaxCost   == MaxCycles + MaxExtra
MaxStall  == 8

ASSUME AddrAssumption  == AddrSpace \in Nat /\ AddrSpace > MaxLen
ASSUME CycleAssumption == /\ CycleSpace \in Nat
                          /\ CycleSpace % 2 = 0
                          /\ CycleSpace > 2 * MaxCost
ASSUME BudgetAssumption == Budgets \subseteq 0 .. CycleSpace - 1
ASSUME OpsAssumption ==
  Ops \subseteq [len: 1 .. MaxLen, cycles: 1 .. MaxCycles, jumps: BOOLEAN]

Addr == 0 .. AddrSpace - 1
Half == CycleSpace \div 2

(* The variants of enum Interrupt, and what handle_interrupt returns.  The *)
(* owner could store a BRK too; the model leaves that variant to the       *)
(* instruction it is made for.                                             *)
External  == {"NMI", "IRQ", "RESET"}
Pending   == External \cup {"BRK", "none"}
InterruptCycles(i) == IF i = "RESET" THEN 8 ELSE 7

VARIABLES
  pc,            (* self.program_counter                                   *)
  interrupt,     (* self.interrupt: one slot, "none" for Option::None      *)
  phase,         (* where the caller is: see Phase                         *)
  cpu_cycles,    (* local of execute: what is left of the budget           *)
  stall_cycles   (* local of execute: what is left of an interrupt's cost  *)

vars == <<pc, interrupt, phase, cpu_cycles, stall_cycles>>

(* "idle": no call is running, the last one returned Ok; "failed": the     *)
(* last one returned Err; "panicked": it unwound, and the CPU's mutex is   *)
(* poisoned for good.                                                      *)
Phase == {"idle", "running", "failed", "panicked"}

TypeOK ==
  /\ pc \in Addr
  /\ interrupt \in Pending
  /\ phase \in Phase
  /\ cpu_cycles \in 0 .. CycleSpace - 1
  /\ stall_cycles \in 0 .. MaxStall

----------------------------------------------------------------------------
(* The budget is a u32, and the test for an overdraft is made in i32.      *)

AsSigned(c) == IF c < Half THEN c ELSE c - CycleSpace

(* i32 subtraction, wrapping as it does without overflow checks.           *)
SignedDiff(c, k) ==
  LET d == AsSigned(c) - k IN IF d < -Half THEN d + CycleSpace ELSE d

(* Faults: the test leaves at an exact end, is made unsigned, is missing.  *)
OverdrawnAtZero(c, k)   == SignedDiff(c, k) <= 0
OverdrawnUnsigned(c, k) == c < k
NeverOverdrawn(c, k)    == FALSE

Overdrawn(c, k) == SignedDiff(c, k) < 0

AfterFetch    == (pc + 1) % AddrSpace
(* Fault: the program counter does not wrap.                               *)
FollowingUnwrapped(op) == pc + op.len

Following(op) == (pc + op.len) % AddrSpace

(***************************************************************************)
(* The end of the iteration of an instruction that left the program        *)
(* counter at `after` and cost k.  Two things here decide the rest: an     *)
(* overdraft leaves before the program counter is moved past the operands, *)
(* and an instruction counts as having jumped iff the program counter is   *)
(* not where the fetch had left it.                                        *)
(***************************************************************************)
Retire(op, k, after) ==
  IF Overdrawn(cpu_cycles, k)
    THEN /\ cpu_cycles' = 0
         /\ pc' = after
    ELSE /\ cpu_cycles' = (cpu_cycles - k) % CycleSpace
         /\ pc' = IF after = AfterFetch THEN Following(op) ELSE after

----------------------------------------------------------------------------
(* Between two calls.                                                      *)

Resting == phase \in {"idle", "failed"}

(* The owner of the CPU stores an interrupt in the public field, over      *)
(* whatever was pending.                                                   *)
Raise(i) ==
  /\ Resting
  /\ interrupt' = i
  /\ UNCHANGED <<pc, phase, cpu_cycles, stall_cycles>>

Call(b) ==
  /\ Resting
  /\ phase' = "running"
  /\ cpu_cycles' = b
  /\ stall_cycles' = 0
  /\ UNCHANGED <<pc, interrupt>>

(* The owner moves the program counter: reset(), or a store to the public  *)
(* field, as main does before its first call.                              *)
Place(target) ==
  /\ Resting
  /\ pc' = target
  /\ UNCHANGED <<interrupt, phase, cpu_cycles, stall_cycles>>

(* get_tick_delta unwraps duration_since: a system clock that was stepped  *)
(* back since the last call is a panic.                                    *)
ClockPanic ==
  /\ Resting
  /\ phase' = "panicked"
  /\ UNCHANGED <<pc, interrupt, cpu_cycles, stall_cycles>>

----------------------------------------------------------------------------
(* Iterations of the loop.                                                 *)

(* Faults: the slot is not emptied; the rest of the budget is kept.        *)
HandleWithoutTake(vector) ==
  /\ phase = "running"
  /\ interrupt # "none"
  /\ cpu_cycles' = 0
  /\ stall_cycles' = InterruptCycles(interrupt)
  /\ pc' = vector
  /\ UNCHANGED <<phase, interrupt>>

HandleKeepingBudget(vector) ==
  /\ phase = "running"
  /\ interrupt # "none"
  /\ stall_cycles' = InterruptCycles(interrupt)
  /\ interrupt' = "none"
  /\ pc' = vector
  /\ UNCHANGED <<phase, cpu_cycles>>

HandleInterrupt(vector) ==
  /\ phase = "running"
  /\ interrupt # "none"
  /\ cpu_cycles' = 0
  /\ stall_cycles' = InterruptCycles(interrupt)
  /\ interrupt' = "none"
  /\ pc' = vector
  /\ UNCHANGED phase

(* Fault: the stall is not counted down.                                   *)
StallForever ==
  /\ phase = "running"
  /\ interrupt = "none"
  /\ stall_cycles > 0
  /\ UNCHANGED vars

Stall ==
  /\ phase = "running"
  /\ interrupt = "none"
  /\ stall_cycles > 0
  /\ stall_cycles' = stall_cycles - 1
  /\ UNCHANGED <<pc, interrupt, phase, cpu_cycles>>

(* Fault: the call returns with budget left.                               *)
ReturnEarly ==
  /\ phase = "running"
  /\ interrupt = "none"
  /\ stall_cycles = 0
  /\ phase' = "idle"
  /\ UNCHANGED <<pc, interrupt, cpu_cycles, stall_cycles>>

Return ==
  /\ phase = "running"
  /\ interrupt = "none"
  /\ stall_cycles = 0
  /\ cpu_cycles = 0
  /\ phase' = "idle"
  /\ UNCHANGED <<pc, interrupt, cpu_cycles, stall_cycles>>

(* The second call of handle_interrupt, after these tests, finds no        *)
(* interrupt and returns 0.                                                *)
Fetching ==
  /\ phase = "running"
  /\ interrupt = "none"
  /\ stall_cycles = 0
  /\ cpu_cycles > 0

(* Fault: BRK ends the call, and its interrupt waits for the next one.     *)
BreakAndReturn ==
  /\ Fetching
  /\ pc' = AfterFetch
  /\ interrupt' = "BRK"
  /\ phase' = "idle"
  /\ UNCHANGED <<cpu_cycles, stall_cycles>>

(* BRK only stores its interrupt: the next iteration serves it.            *)
Break ==
  /\ Fetching
  /\ pc' = AfterFetch
  /\ interrupt' = "BRK"
  /\ UNCHANGED <<phase, cpu_cycles, stall_cycles>>

(* An instruction that is followed by the next one in memory, as all are   *)
(* that cannot jump, and a branch that is not taken.                       *)
Straight(op, extra) ==
  /\ Fetching
  /\ Retire(op, op.cycles + extra, AfterFetch)
  /\ UNCHANGED <<interrupt, phase, stall_cycles>>

(* A jump, a call, a return or a taken branch.                             *)
Transfer(op, extra, target) ==
  /\ Fetching
  /\ op.jumps
  /\ Retire(op, op.cycles + extra, target)
  /\ UNCHANGED <<interrupt, phase, stall_cycles>>

(* An opcode with no handler: execute returns Err with the opcode consumed.*)
Fail ==
  /\ Fetching
  /\ pc' = AfterFetch
  /\ phase' = "failed"
  /\ cpu_cycles' = 0
  /\ UNCHANGED <<interrupt, stall_cycles>>

(* An iteration that touches the memory can panic in it: a controller that *)
(* refuses a write, or an overflow in a build that checks for it.  What it *)
(* leaves of the CPU is behind the poisoned mutex and is not described.    *)
Panic ==
  /\ Fetching \/ (phase = "running" /\ interrupt # "none")
  /\ phase' = "panicked"
  /\ UNCHANGED <<pc, interrupt, cpu_cycles, stall_cycles>>

----------------------------------------------------------------------------
Iteration ==
  \/ \E v \in Addr : HandleInterrupt(v)
  \/ Stall
  \/ Return
  \/ Break
  \/ \E op \in Ops, e \in 0 .. MaxExtra : Straight(op, e)
  \/ \E op \in Ops, e \in 0 .. MaxExtra, t \in Addr : Transfer(op, e, t)
  \/ Fail
  \/ Panic

Between ==
  \/ \E i \in External : Raise(i)
  \/ \E b \in Budgets : Call(b)
  \/ \E t \in Addr : Place(t)
  \/ ClockPanic

Next == Iteration \/ Between

(* The fields as Mos6502::new leaves them, and the program counter as the  *)
(* owner placed it.                                                        *)
Init ==
  /\ pc \in Addr
  /\ interrupt = "none"
  /\ phase = "idle"
  /\ cpu_cycles = 0
  /\ stall_cycles = 0

Spec == Init /\ [][Next]_vars
=============================================================================
