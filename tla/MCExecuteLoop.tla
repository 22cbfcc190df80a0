--------------------------- MODULE MCExecuteLoop ---------------------------
(* A small instance of LoopHistory: 5 addresses, budgets of 6 bits.  The   *)
(* signed half starts at 32; the budgets are on both sides of the cost of  *)
(* one instruction, of the sum of two, and of the sign.                    *)
EXTENDS LoopHistory

MCAddrSpace  == 5
MCCycleSpace == 64
MCBudgets    == {0, 1, 2, 7, 31, 32, 34, 45, 63}
MCOps        == {[len |-> 1, cycles |-> 2, jumps |-> FALSE],
                 [len |-> 2, cycles |-> 8, jumps |-> FALSE],
                 [len |-> 2, cycles |-> 2, jumps |-> TRUE],
                 [len |-> 3, cycles |-> 5, jumps |-> TRUE]}
=============================================================================
