----------------------------- MODULE MCProgram -----------------------------
(***************************************************************************)
(* A program with a subroutine, a BRK and two interrupt routines, cut by   *)
(* every schedule of calls, budgets and interrupts the owner can make in   *)
(* MaxActs acts.  IRQ comes with a handler that stores to a counter in RAM *)
(* while the CPU is locked.                                                *)
(***************************************************************************)
EXTENDS CpuHistory, OpCodes

(* Main: count subroutine calls in X, with a BRK in the loop.              *)
Main == << \hA2, \h0A,           \* 8000 LDX #$0A
           \h20, \h10, \h80,     \* 8002 JSR $8010
           \hE8,                 \* 8005 INX
           \h00,                 \* 8006 BRK
           \h4C, \h02, \h80 >>   \* 8007 JMP $8002

(* Subroutine: A and the flags saved and restored around a sum.            *)
Subroutine == << \h48, \h08,     \* 8010 PHA, PHP
                 \h69, \h70,     \* 8012 ADC #$70
                 \h28, \h68,     \* 8014 PLP, PLA
                 \h60 >>         \* 8016 RTS

(* BRK and IRQ: A and X saved, the counter of the handler taken.           *)
IrqRoutine == << \h48, \h8A, \h48,         \* 8020 PHA, TXA, PHA
                 \hA6, \h02,               \* 8023 LDX $02
                 \hE6, \h02,               \* 8025 INC $02
                 \h68, \hAA, \h68, \h40 >> \* 8027 PLA, TAX, PLA, RTI

NmiRoutine == << \hE6, \h02, \h40 >>       \* 8030 INC $02, RTI

Placed(code, at) == [addr \in at .. at + Len(code) - 1 |-> code[addr - at + 1]]

Vectors == \hFFFA :> \h30 @@ \hFFFB :> \h80 @@ \hFFFC :> \h00 @@ \hFFFD :> \h80
           @@ \hFFFE :> \h20 @@ \hFFFF :> \h80

Rom == Placed(Main, \h8000) @@ Placed(Subroutine, \h8010)
       @@ Placed(IrqRoutine, \h8020) @@ Placed(NmiRoutine, \h8030) @@ Vectors

MCROM == DOMAIN Rom
MCRAM == {\h0002} \cup \h0100 .. \h0110 \cup \h01FD .. \h01FF

MCMachines ==
  {[a |-> 17, x |-> 0, y |-> 0, p |-> p, sp |-> \hFD, pc |-> \h8000,
    mem |-> Rom @@ [addr \in MCRAM |-> 0], fault |-> FALSE] :
      p \in {DefaultStatus, DefaultStatus \cup {Carry, Break}}}

MCRequests == {<<"NMI", NoHandler>>, <<"IRQ", \h0002 :> 5>>, <<"RESET", NoHandler>>}
=============================================================================
