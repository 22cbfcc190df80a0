---------------------------- MODULE LoopHistory ----------------------------
(***************************************************************************)
(* ExecuteLoop with the history its properties need: what the current (or, *)
(* at rest, the last) call was granted and has spent, whether it served an *)
(* interrupt, where the program counter should be after the last iteration *)
(* and why it may be elsewhere.  The history changes no behaviour: every   *)
(* action is the action of ExecuteLoop with an update of the history       *)
(* beside it.                                                              *)
(***************************************************************************)
EXTENDS ExecuteLoop

VARIABLES
  granted,      (* budget of the call                                      *)
  spent,        (* cycles of the instructions it has run                   *)
  served,       (* it has served an interrupt                              *)
  due,          (* where the last iteration was to leave the program counter *)
  cause         (* what the last instruction did, see Cause                *)

history == <<granted, spent, served, due, cause>>
hvars   == <<vars, history>>

(* "operandJump": it jumped to its own second byte; "noHandler": execute   *)
(* returned Err for it.                                                    *)
Cause == {"none", "operandJump", "noHandler"}

HistoryTypeOK ==
  /\ granted \in 0 .. CycleSpace - 1
  /\ spent \in Nat
  /\ served \in BOOLEAN
  /\ due \in Addr
  /\ cause \in Cause

HInit ==
  /\ Init
  /\ granted = 0
  /\ spent = 0
  /\ served = FALSE
  /\ due = pc
  /\ cause = "none"

HRaise(i) == Raise(i) /\ UNCHANGED history

HCall(b) ==
  /\ Call(b)
  /\ granted' = b
  /\ spent' = 0
  /\ served' = FALSE
  /\ due' = pc
  /\ cause' = "none"

HPlace(t) ==
  /\ Place(t)
  /\ due' = t
  /\ cause' = "none"
  /\ UNCHANGED <<granted, spent, served>>

HHandleInterrupt(v) ==
  /\ HandleInterrupt(v)
  /\ served' = TRUE
  /\ due' = v
  /\ cause' = "none"
  /\ UNCHANGED <<granted, spent>>

HBreak ==
  /\ Break
  /\ due' = AfterFetch
  /\ cause' = "none"
  /\ UNCHANGED <<granted, spent, served>>

HStraight(op, e) ==
  /\ Straight(op, e)
  /\ spent' = spent + op.cycles + e
  /\ due' = Following(op)
  /\ cause' = "none"
  /\ UNCHANGED <<granted, served>>

HTransfer(op, e, t) ==
  /\ Transfer(op, e, t)
  /\ spent' = spent + op.cycles + e
  /\ due' = t
  /\ cause' = IF t = AfterFetch THEN "operandJump" ELSE "none"
  /\ UNCHANGED <<granted, served>>

(* The instruction that has no handler has operands like any other.        *)
HFail(op) ==
  /\ Fail
  /\ due' = Following(op)
  /\ cause' = "noHandler"
  /\ UNCHANGED <<granted, spent, served>>

HPlain == (Stall \/ Return \/ Panic) /\ UNCHANGED history

HClockPanic == ClockPanic /\ UNCHANGED history

HIteration ==
  \/ \E v \in Addr : HHandleInterrupt(v)
  \/ HBreak
  \/ \E op \in Ops, e \in 0 .. MaxExtra : HStraight(op, e)
  \/ \E op \in Ops, e \in 0 .. MaxExtra, t \in Addr : HTransfer(op, e, t)
  \/ \E op \in Ops : HFail(op)
  \/ HPlain

HNext ==
  \/ HIteration
  \/ \E i \in External : HRaise(i)
  \/ \E b \in Budgets : HCall(b)
  \/ \E t \in Addr : HPlace(t)
  \/ HClockPanic

HSpec == HInit /\ [][HNext]_hvars

(* A running call is a loop on a thread, and main calls execute in a loop: *)
(* both are scheduled.                                                     *)
HFairSpec ==
  /\ HSpec
  /\ WF_hvars(HIteration)
  /\ WF_hvars(\E b \in Budgets : HCall(b))

----------------------------------------------------------------------------
(* The program counter is out of step with the instructions only where     *)
(* execute leaves an iteration before it moves the counter past the        *)
(* operands, and then it is at these operands: the call overdrew its       *)
(* budget, or was granted one that is negative as an i32, or failed at an  *)
(* opcode with no handler, which the owner may call execute after.  Or the *)
(* program jumped to the operand of the jump itself, and the counter was   *)
(* moved past it.                                                          *)
Ahead(a) == {(a + n) % AddrSpace : n \in 1 .. MaxLen - 1}

InStep ==
  pc # due =>
    \/ /\ spent > granted \/ granted >= Half \/ cause = "noHandler"
       /\ due \in Ahead(pc)
    \/ cause = "operandJump" /\ pc \in Ahead(due)

(* The program counter is always where the last instruction was to leave   *)
(* it, as it is in the reference log of nestest.                           *)
StaysInStep == pc = due

(* A call that returned Ok and served no interrupt has used its budget up, *)
(* and overdrawn it by less than the cost of one instruction; a call that  *)
(* returned Err served none and had budget left, which is lost.  Provided  *)
(* the budget is positive as an i32.                                       *)
BudgetUsed ==
  granted < Half =>
    /\ phase = "idle" /\ ~served => granted <= spent /\ spent < granted + MaxCost
    /\ phase = "failed" => ~served /\ spent < granted

(* A budget that is negative as an i32 buys one instruction: the overdraft *)
(* test takes it for an empty one, and the rest of the time is lost.       *)
HugeBudgetLost == granted >= Half + MaxCost => spent <= MaxCost

(* No instruction runs in a call after it has served an interrupt: the     *)
(* rest of the budget is forfeited, and what was spent was spent before.   *)
Forfeited == [][served /\ phase = "running"
                  => spent' = spent /\ interrupt' = interrupt]_hvars

(* The interrupt of a BRK never outlives the call that executed the BRK,   *)
(* so an external interrupt cannot replace it.                             *)
BreakServedInCall == interrupt = "BRK" => phase \in {"running", "panicked"}

(* Once a call has served an interrupt it has no budget and no interrupt   *)
(* to serve: it only stalls and returns.                                   *)
NothingLeft == served => /\ cpu_cycles = 0
                         /\ phase = "running" => interrupt = "none"

(* Until it overdraws, a running call has the budget it was granted in two *)
(* parts, spent and left; afterwards nothing is left.                      *)
Accounted ==
  (phase = "running" /\ ~served /\ granted < Half) =>
    \/ spent + cpu_cycles = granted
    \/ cpu_cycles = 0 /\ granted < spent /\ spent < granted + MaxCost

(* A budget that is negative by more than one instruction is either        *)
(* untouched or gone.                                                      *)
HugeAccounted ==
  (phase = "running" /\ granted >= Half + MaxCost) =>
    \/ spent = 0 /\ cpu_cycles \in {0, granted}
    \/ cpu_cycles = 0

(* What the properties above rest on: the inductive invariant of the loop. *)
LoopInv ==
  /\ TypeOK
  /\ HistoryTypeOK
  /\ NothingLeft
  /\ Accounted
  /\ HugeAccounted
  /\ BudgetUsed
  /\ HugeBudgetLost
  /\ BreakServedInCall
  /\ InStep

(* The iterations left in a call: every iteration lowers this number, so   *)
(* every call ends.                                                        *)
Measure ==
  IF interrupt # "none" THEN MaxStall + 1
                        ELSE (MaxStall + 2) * cpu_cycles + stall_cycles

Descends == [][phase = "running" /\ phase' = "running" => Measure' < Measure]_vars

(* Every call of execute returns, or unwinds.                              *)
CallEnds == phase = "running" ~> phase # "running"

(* An interrupt, once raised, is served if execute keeps being called and  *)
(* does not unwind.                                                        *)
InterruptServed == interrupt # "none" ~> (interrupt = "none" \/ phase = "panicked")
=============================================================================
