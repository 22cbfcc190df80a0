------------------------------ MODULE OpCodes ------------------------------
(***************************************************************************)
(* The opcode table (src/src/ops.rs): for each code its mnemonic, its      *)
(* length, its cycles and its addressing mode.  The rows of a mnemonic lie *)
(* at fixed distances from the first of them, the same for every mnemonic  *)
(* of a kind, so a kind is a Shape: distance -> <<mode, cycles>>.  The     *)
(* length follows from the mode, except for the instructions that address  *)
(* nothing or do it on their own.                                          *)
(***************************************************************************)
EXTENDS Integers, TLC

LengthOf(mode) ==
  CASE mode = "NoneAddressing" -> 1
    [] mode \in {"Absolute", "AbsoluteX", "AbsoluteY"} -> 3
    [] OTHER -> 2

Row(name, len, cycles, mode) ==
  [mnemonic |-> name, len |-> len, cycles |-> cycles, mode |-> mode]

Family(name, base, shape) ==
  [code \in {base + d : d \in DOMAIN shape} |->
     Row(name, LengthOf(shape[code - base][1]), shape[code - base][2], shape[code - base][1])]

(* Rows that differ only in their code.                                    *)
Same(name, codes, len, cycles) ==
  [code \in codes |-> Row(name, len, cycles, "NoneAddressing")]

----------------------------------------------------------------------------
LoadShape ==
  0 :> <<"IndirectX", 6>> @@ 4 :> <<"ZeroPage", 3>> @@ 8 :> <<"Immediate", 2>>
  @@ 12 :> <<"Absolute", 4>> @@ 16 :> <<"IndirectY", 5>> @@ 20 :> <<"ZeroPageX", 4>>
  @@ 24 :> <<"AbsoluteY", 4>> @@ 28 :> <<"AbsoluteX", 4>>

ModifyShape ==
  0 :> <<"ZeroPage", 5>> @@ 8 :> <<"Absolute", 6>> @@ 16 :> <<"ZeroPageX", 6>>
  @@ 24 :> <<"AbsoluteX", 7>>

ShiftShape == ModifyShape @@ 4 :> <<"NoneAddressing", 2>>

CompareShape ==
  0 :> <<"Immediate", 2>> @@ 4 :> <<"ZeroPage", 3>> @@ 12 :> <<"Absolute", 4>>

(* ADC, SBC, AND, EOR, ORA, the shifts, INC, DEC and the compares.         *)
ArithmeticRows ==
  Family("ADC", \h61, LoadShape) @@ Family("SBC", \hE1, LoadShape)
  @@ Family("AND", \h21, LoadShape) @@ Family("EOR", \h41, LoadShape)
  @@ Family("ORA", \h01, LoadShape) @@ Family("CMP", \hC1, LoadShape)
  @@ Family("CPY", \hC0, CompareShape) @@ Family("CPX", \hE0, CompareShape)
  @@ Family("ASL", \h06, ShiftShape) @@ Family("ROL", \h26, ShiftShape)
  @@ Family("LSR", \h46, ShiftShape) @@ Family("ROR", \h66, ShiftShape)
  @@ Family("DEC", \hC6, ModifyShape) @@ Family("INC", \hE6, ModifyShape)
  @@ Same("INX", {\hE8}, 1, 2) @@ Same("INY", {\hC8}, 1, 2)
  @@ Same("DEX", {\hCA}, 1, 2) @@ Same("DEY", {\h88}, 1, 2)

ControlRows ==
  Same("BRK", {\h00}, 1, 7) @@ Same("NOP", {\hEA}, 1, 2)
  @@ Same("JMP", {\h4C}, 3, 3) @@ Same("JMP", {\h6C}, 3, 5)
  @@ Same("JSR", {\h20}, 3, 6) @@ Same("RTS", {\h60}, 1, 6) @@ Same("RTI", {\h40}, 1, 6)
  @@ Same("BPL", {\h10}, 2, 2) @@ Same("BMI", {\h30}, 2, 2)
  @@ Same("BVC", {\h50}, 2, 2) @@ Same("BVS", {\h70}, 2, 2)
  @@ Same("BCC", {\h90}, 2, 2) @@ Same("BCS", {\hB0}, 2, 2)
  @@ Same("BNE", {\hD0}, 2, 2) @@ Same("BEQ", {\hF0}, 2, 2)
  @@ Family("BIT", \h24, 0 :> <<"ZeroPage", 3>> @@ 8 :> <<"Absolute", 4>>)

LoadStoreRows ==
  Family("LDA", \hA1, LoadShape)
  @@ Family("LDX", \hA2, 0 :> <<"Immediate", 2>> @@ 4 :> <<"ZeroPage", 3>>
       @@ 12 :> <<"Absolute", 4>> @@ 20 :> <<"ZeroPageY", 4>> @@ 28 :> <<"AbsoluteY", 4>>)
  @@ Family("LDY", \hA0, CompareShape @@ 20 :> <<"ZeroPageX", 4>> @@ 28 :> <<"AbsoluteX", 4>>)
  @@ Family("STA", \h81, 0 :> <<"IndirectX", 6>> @@ 4 :> <<"ZeroPage", 3>>
       @@ 12 :> <<"Absolute", 4>> @@ 16 :> <<"IndirectY", 6>> @@ 20 :> <<"ZeroPageX", 4>>
       @@ 24 :> <<"AbsoluteY", 5>> @@ 28 :> <<"AbsoluteX", 5>>)
  @@ Family("STX", \h86, 0 :> <<"ZeroPage", 3>> @@ 8 :> <<"Absolute", 4>>
       @@ 16 :> <<"ZeroPageY", 4>>)
  @@ Family("STY", \h84, 0 :> <<"ZeroPage", 3>> @@ 8 :> <<"Absolute", 4>>
       @@ 16 :> <<"ZeroPageX", 4>>)

RegisterRows ==
  Same("CLD", {\hD8}, 1, 2) @@ Same("CLI", {\h58}, 1, 2) @@ Same("CLV", {\hB8}, 1, 2)
  @@ Same("CLC", {\h18}, 1, 2) @@ Same("SEC", {\h38}, 1, 2) @@ Same("SEI", {\h78}, 1, 2)
  @@ Same("SED", {\hF8}, 1, 2) @@ Same("TAX", {\hAA}, 1, 2) @@ Same("TAY", {\hA8}, 1, 2)
  @@ Same("TSX", {\hBA}, 1, 2) @@ Same("TXA", {\h8A}, 1, 2) @@ Same("TXS", {\h9A}, 1, 2)
  @@ Same("TYA", {\h98}, 1, 2) @@ Same("PHA", {\h48}, 1, 3) @@ Same("PLA", {\h68}, 1, 4)
  @@ Same("PHP", {\h08}, 1, 3) @@ Same("PLP", {\h28}, 1, 4)

----------------------------------------------------------------------------
UnofficialModifyShape ==
  0 :> <<"IndirectX", 8>> @@ 4 :> <<"ZeroPage", 5>> @@ 12 :> <<"Absolute", 6>>
  @@ 16 :> <<"IndirectY", 8>> @@ 20 :> <<"ZeroPageX", 6>> @@ 24 :> <<"AbsoluteY", 7>>
  @@ 28 :> <<"AbsoluteX", 7>>

UnofficialRows ==
  Family("*SLO", \h03, UnofficialModifyShape) @@ Family("*RLA", \h23, UnofficialModifyShape)
  @@ Family("*SRE", \h43, UnofficialModifyShape) @@ Family("*RRA", \h63, UnofficialModifyShape)
  @@ Family("*DCP", \hC3, UnofficialModifyShape) @@ Family("*ISC", \hE3, UnofficialModifyShape)
  @@ Family("*ANC", \h0B, 0 :> <<"Immediate", 2>> @@ 32 :> <<"Immediate", 2>>)
  @@ Family("*ALR", \h4B, 0 :> <<"Immediate", 2>>)
  @@ Family("*ARR", \h6B, 0 :> <<"Immediate", 2>>)
  @@ Family("*AXS", \hCB, 0 :> <<"Immediate", 2>>)
  @@ Family("*SBC", \hEB, 0 :> <<"Immediate", 2>>)
  @@ Family("*LXA", \hAB, 0 :> <<"Immediate", 3>>)
  @@ Family("*XAA", \h8B, 0 :> <<"Immediate", 3>>)
  @@ Family("*LAS", \hBB, 0 :> <<"AbsoluteY", 2>>)
  @@ Family("*TAS", \h9B, 0 :> <<"AbsoluteY", 2>>)
  @@ Family("*AHX", \h93, 0 :> <<"IndirectY", 8>> @@ 12 :> <<"AbsoluteY", 4>>)
  @@ Family("*SHX", \h9E, 0 :> <<"AbsoluteY", 4>>)
  @@ Family("*SHY", \h9C, 0 :> <<"AbsoluteX", 4>>)
  @@ Family("*LAX", \hA3, 0 :> <<"IndirectX", 6>> @@ 4 :> <<"ZeroPage", 3>>
       @@ 12 :> <<"Absolute", 4>> @@ 16 :> <<"IndirectY", 5>> @@ 20 :> <<"ZeroPageY", 4>>
       @@ 28 :> <<"AbsoluteY", 4>>)
  @@ Family("*SAX", \h83, 0 :> <<"IndirectX", 6>> @@ 4 :> <<"ZeroPage", 3>>
       @@ 12 :> <<"Absolute", 4>> @@ 20 :> <<"ZeroPageY", 4>>)

ReadingNopRows ==
  Family("*NOP", 0, \h0C :> <<"Absolute", 4>>)
  @@ [code \in {\h04, \h44, \h64} |-> Row("*NOP", 2, 3, "ZeroPage")]
  @@ [code \in {\h14, \h34, \h54, \h74, \hD4, \hF4} |-> Row("*NOP", 2, 4, "ZeroPageX")]
  @@ [code \in {\h1C, \h3C, \h5C, \h7C, \hDC, \hFC} |-> Row("*NOP", 3, 4, "AbsoluteX")]

IdleNopRows ==
  [code \in {\h80, \h82, \h89, \hC2, \hE2} |-> Row("*NOP", 2, 2, "Immediate")]
  @@ Same("*NOP", {\h02, \h12, \h22, \h32, \h42, \h52, \h62, \h72, \h92, \hB2, \hD2, \hF2,
                   \h1A, \h3A, \h5A, \h7A, \hDA, \hFA}, 1, 2)

CPU_OP_CODES ==
  ArithmeticRows @@ ControlRows @@ LoadStoreRows @@ RegisterRows
  @@ UnofficialRows @@ ReadingNopRows @@ IdleNopRows

(* All the 256 codes have a row.                                           *)
OPCODES_MAP == [code \in 0 .. 255 |-> CPU_OP_CODES[code]]
=============================================================================
