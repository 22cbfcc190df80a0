--------------------------- MODULE MCInstructions ---------------------------
(***************************************************************************)
(* Every opcode, from machines chosen for their edges: operands that reach *)
(* the zero page, address 0, the stack, read-only memory and the end of    *)
(* memory; registers and flags at 0, at the sign and at 255; code at the   *)
(* end of a page and at the end of memory.  The owner makes one call.      *)
(***************************************************************************)
EXTENDS Tracer, OpCodes

Code == \h02FD

MCRAM == {Code, Code + 1, Code + 2, \h0000, \h0001, \h0010, \h0011, \h0080, \h00FF,
          \h0100, \h0101, \h01FC, \h01FD, \h01FE, \h01FF, \h80FF}
MCROM == \hFFFA .. \hFFFF

Data == \h0000 :> \h80 @@ \h0001 :> \h01 @@ \h0010 :> \hFF @@ \h0011 :> \h01
        @@ \h0080 :> \h7F @@ \h00FF :> \hFF @@ \h0100 :> \h10 @@ \h0101 :> \hFE
        @@ \h01FC :> \h20 @@ \h01FD :> \h02 @@ \h01FE :> \hFF @@ \h01FF :> \hFF @@ \h80FF :> \h55
        @@ [addr \in MCROM |-> \hEA]

Operands == {<<\h00, \h00>>, <<\h10, \h00>>, <<\hFF, \h01>>, <<\h80, \h02>>, <<\hFF, \hFF>>}

RegisterSets ==
  {[a |-> 0,    x |-> 0,    y |-> 0,    p |-> {UNK},             sp |-> \hFD],
   [a |-> \h80, x |-> 1,    y |-> 1,    p |-> Bit,               sp |-> \hFF],
   [a |-> \hFF, x |-> \hFF, y |-> \hFF, p |-> {Carry, UNK},      sp |-> \h01],
   [a |-> \h7F, x |-> \h80, y |-> \h10, p |-> {Overflow, Zero},  sp |-> \h00]}

MachineWith(r, pc, mem) ==
  [a |-> r.a, x |-> r.x, y |-> r.y, p |-> r.p, sp |-> r.sp, pc |-> pc,
   mem |-> mem, fault |-> FALSE]

InPage ==
  {MachineWith(r, Code, (Code :> code @@ Code + 1 :> o[1] @@ Code + 2 :> o[2]) @@ Data) :
     code \in Byte, r \in RegisterSets, o \in Operands}

(* NOP, LDA # and absolute, JSR, BNE, *SHY and BRK in the last three bytes. *)
AtTheEnd ==
  {MachineWith(r, pc, (Code :> 0 @@ Code + 1 :> 0 @@ Code + 2 :> 0 @@ pc :> code) @@ Data) :
     code \in {\hEA, \hA9, \hAD, \h20, \hD0, \h9C, \h00}, r \in RegisterSets,
     pc \in \hFFFD .. \hFFFF}

(* A JSR on the stack, which for one stack pointer pushes over its operand. *)
OnTheStack ==
  {MachineWith(r, \h01FC, (Code :> 0 @@ Code + 1 :> 0 @@ Code + 2 :> 0) @@ Data) :
     r \in RegisterSets}

MCMachines == InPage \cup AtTheEnd \cup OnTheStack
=============================================================================
