------------------------------- MODULE Tracer -------------------------------
(***************************************************************************)
(* The trace of the instruction that is about to run (src/src/lib.rs, the  *)
(* Trace implementation behind the feature "trace"), without its layout:   *)
(* the bytes, the address, the value and the target a line names.  The     *)
(* trace works the operand out by itself, before the handler does, so the  *)
(* two can disagree; the properties are about what the next step then      *)
(* does.  A trace only reads.                                              *)
(***************************************************************************)
EXTENDS CpuHistory

Begin == m.pc

(* The bytes of the instruction, by the len of its row.                    *)
HexDump == [i \in 1 .. Op.len |-> Read(m, Wrap16(Begin + i - 1))]

(* get_absolute_address, at the byte after the opcode.                     *)
MemAddr == IF Op.mode \in {"Immediate", "NoneAddressing"} THEN 0
           ELSE Address(Jump(m, Wrap16(Begin + 1)), Op.mode)

(* The operand of IndirectX is looked up again, and not as the addressing  *)
(* mode does: the second byte of the pointer comes from the next address,  *)
(* also after $FF.                                                         *)
IndexedPointer == Wrap8(HexDump[2] + m.x)

(* Fault: the index registers are left out.                                *)
NamedAddressUnindexed ==
  CASE Op.mode = "IndirectX" -> ReadWord(m, HexDump[2])
    [] Op.mode = "IndirectY" -> IndirectBase(Fetched)
    [] OTHER -> MemAddr

NamedAddress ==
  CASE Op.mode = "IndirectX" -> ReadWord(m, IndexedPointer)
    [] OTHER -> MemAddr

NamedValue == Read(m, NamedAddress)

Word16 == Join(HexDump[2], HexDump[3])

(* Fault: the pointer at the end of a page is read across it.              *)
IndirectTargetAcross == ReadWord(m, Word16)

IndirectTarget ==
  IF Lo(Word16) = 255 THEN Join(Read(m, Word16), Read(m, Join(0, Hi(Word16))))
                      ELSE ReadWord(m, Word16)

(* A branch target is computed in usize: below 0 it stands for 2^64 less.  *)
NamedTarget ==
  CASE Op.len = 2 -> Begin + 2 + Signed(HexDump[2])
    [] Op.len = 3 /\ HexDump[1] = \h6C -> IndirectTarget
    [] OTHER -> Word16

Targets == Op.mode = "NoneAddressing" /\ Op.len > 1
HasAddress == Op.mode \notin {"NoneAddressing", "Immediate"}

(* The modes a line of this length has a form for: a row with another one  *)
(* is a panic.                                                             *)
Forms ==
  << {"NoneAddressing"},
     {"Immediate", "ZeroPage", "ZeroPageX", "ZeroPageY", "IndirectX", "IndirectY",
      "NoneAddressing"},
     {"Absolute", "AbsoluteX", "AbsoluteY", "NoneAddressing"} >>

(* The sums begin + 1 and begin + 2, and the second byte of the operand.   *)
TraceOverflows ==
  \/ Op.len > 1 /\ Begin + 1 > 65535
  \/ Op.len = 3 /\ Begin + 2 > 65535

(* No row with a handler has such a mode.                                  *)
ASSUME FormAssumption ==
  \A code \in Byte :
    Opcodes[code].mode \in Forms[Opcodes[code].len] \/ Opcodes[code].mnemonic = "*SHY"

TracePanics ==
  \/ Op.mode \notin Forms[Op.len]
  \/ overflow_checks /\ TraceOverflows

----------------------------------------------------------------------------
(* The pointer of IndirectX ends at $FF, where the two lookups differ.     *)
PointerAtEnd == Op.mode = "IndirectX" /\ IndexedPointer = 255

Loaded(r) == CASE Op.mnemonic = "LDA" -> r.a
               [] Op.mnemonic = "LDX" -> r.x
               [] OTHER -> r.y

(* The address and the value of a line are those the instruction then      *)
(* uses: what it loads is the value, what it stores is found at the        *)
(* address, and INC and DEC start from the value.  Left out is the pointer *)
(* at $FF of IndirectX.                                                    *)
TraceNamesOperand ==
  [][HasAddress /\ ~PointerAtEnd =>
       /\ Executes({"LDA", "LDX", "LDY"}) => Loaded(m') = NamedValue
       /\ Executes({"STA", "STX", "STY", "*SAX"}) /\ NamedAddress \in RAM =>
            Read(m', NamedAddress) = CASE Op.mnemonic = "STA" -> m.a
                                       [] Op.mnemonic = "STX" -> m.x
                                       [] Op.mnemonic = "STY" -> m.y
                                       [] OTHER -> And(m.a, m.x)
       /\ Executes({"INC", "DEC"}) /\ NamedAddress \in RAM =>
            (Read(m', NamedAddress) - NamedValue) % 256
              = IF Op.mnemonic = "INC" THEN 1 ELSE 255]_hvars

(* A JSR that pushes over its own operand: the code reads the operand      *)
(* after the push, the trace before it.                                    *)
CallsOverItself ==
  Op.mnemonic = "JSR" /\ Slots(CallFrame) \cap {Fetched.pc, Wrap16(Fetched.pc + 1)} # {}

(* The target of a line is, modulo 2^16, where a jump, a call or a branch  *)
(* goes if it goes anywhere but to the byte after its opcode or to the     *)
(* next instruction, and an instruction that goes on with the next one     *)
(* finds it after the bytes of the line.  Left out is a JSR that pushes    *)
(* over its operand.  No line is missing: the trace panics only where the  *)
(* instruction would panic or be refused.                                  *)
TraceNamesTarget ==
  [][/\ /\ Targets /\ Instruction /\ ~CallsOverItself
        /\ m'.pc \notin {Fetched.pc, Wrap16(Begin + Len(HexDump))}
        => m'.pc = Wrap16(NamedTarget)
     /\ ~Targets /\ Instruction /\ ~Executes(Jumps) /\ cpu_cycles' > 0 =>
          m'.pc = Wrap16(Begin + Len(HexDump))
     /\ Loop!Fetching /\ TracePanics => phase' \in {"panicked", "failed"}]_hvars

(* The address of every line is the one the instruction uses, as in the    *)
(* log of nestest: LDA ($FF,X) takes its pointer from $FF and $00.         *)
TraceAsLogged ==
  [][HasAddress /\ Executes({"LDA"}) => Loaded(m') = NamedValue]_hvars
=============================================================================
