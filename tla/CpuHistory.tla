----------------------------- MODULE CpuHistory -----------------------------
(***************************************************************************)
(* Mos6502 with the history its properties need: the frames that are on    *)
(* the stack, and whether the program counter ever slipped.  The owner     *)
(* acts at most MaxActs times, which bounds what TLC explores.             *)
(***************************************************************************)
EXTENDS Mos6502, Sequences

CONSTANT MaxActs

VARIABLES
  acts,     (* what the owner has done so far: calls, requests, resets     *)
  frames,   (* what was pushed and not yet pulled, oldest first            *)
  slipped   (* an instruction with operands left the counter at the first  *)

hvars == <<vars, acts, frames, slipped>>

(* An iteration that runs an instruction to its end.                       *)
Instruction ==
  phase' = "running" /\ Loop!Fetching /\ interrupt' = NoInterrupt

Executes(names) == Instruction /\ Op.mnemonic \in names

Registers(r) == [a |-> r.a, x |-> r.x, y |-> r.y, p |-> r.p, pc |-> r.pc]

(* A frame: who pushed it, where, and the registers it is to bring back.   *)
Frame(kind, saved) == [kind |-> kind, sp |-> m.sp, saved |-> saved]

InterruptFrame == Frame("interrupt", Registers(m))
CallFrame      == Frame("call", [Registers(m) EXCEPT !.pc = Wrap16(@ + 3)])
ByteFrame(kind) == Frame(kind, Registers(m))

Size(kind) == CASE kind = "interrupt" -> 3 [] kind = "call" -> 2 [] OTHER -> 1

(* Its bytes, and the stack pointer after them.                            *)
Slot(frame, i) == 256 + Wrap8(frame.sp + i)
Slots(frame)   == {Slot(frame, i) : i \in 0 .. Size(frame.kind) - 1}
End(frame)     == Wrap8(frame.sp + Size(frame.kind))

TopFrame == frames[Len(frames)]
Live     == UNION {Slots(frames[i]) : i \in DOMAIN frames}

Serves == phase = "running" /\ phase' = "running" /\ interrupt # NoInterrupt
Enters == Serves /\ interrupt.kind # "RESET"

(* The instructions that store to a byte of memory other than by pushing:  *)
(* those that shift take address 0 for the accumulator.                    *)
Stores   == {"STA", "STX", "STY", "*SAX", "INC", "DEC", "*DCP", "*ISC"}
Movers   == {"ASL", "LSR", "ROL", "ROR", "*SLO", "*RLA", "*SRE", "*RRA", "*ALR", "*ARR"}
Unstable == {"*TAS", "*AHX", "*SHX"}

(* Where the step may store other than by pushing.                         *)
Stored ==
  CASE Enters -> DOMAIN interrupt.handler
    [] Executes(Stores) -> {At}
    [] Executes(Movers) -> {At} \ {0}
    [] Executes(Unstable) -> {UnstableAddr(Fetched, Op.mode)}
    [] OTHER -> {}

(* A store into a frame ends the tracking of what is on the stack, and so  *)
(* do a push where there is a frame already, or no memory, a pull of       *)
(* something else than what was pushed last, and a new stack pointer.      *)
Kept(next) == frames' = IF Live \cap Stored = {} THEN next ELSE << >>

Pushed(frame) ==
  Kept(IF Slots(frame) \subseteq RAM \ (Live \cup Stored) THEN Append(frames, frame)
                                                       ELSE << >>)

(* The stack is at the end of a frame of this kind.                        *)
Matches(kind) ==
  frames # << >> /\ TopFrame.kind = kind /\ m.sp = End(TopFrame)

Pulled(kind) ==
  frames' = IF Matches(kind) THEN SubSeq(frames, 1, Len(frames) - 1) ELSE << >>

StackOps == {"JSR", "PHA", "PHP", "RTS", "RTI", "PLA", "PLP", "TXS", "*LAS", "*TAS"}

TrackFrames ==
  \/ Enters /\ Pushed(InterruptFrame)
  \/ Serves /\ ~Enters /\ frames' = << >>
  \/ Executes({"JSR"}) /\ Pushed(CallFrame)
  \/ Executes({"PHA"}) /\ Pushed(ByteFrame("accumulator"))
  \/ Executes({"PHP"}) /\ Pushed(ByteFrame("status"))
  \/ Executes({"RTS"}) /\ Pulled("call")
  \/ Executes({"RTI"}) /\ Pulled("interrupt")
  \/ Executes({"PLA"}) /\ Pulled("accumulator")
  \/ Executes({"PLP"}) /\ Pulled("status")
  \/ Executes({"TXS", "*LAS", "*TAS"}) /\ frames' = << >>
  \/ ~Serves /\ ~Executes(StackOps) /\ Kept(frames)

(* An iteration that returns Err: its opcode has no handler.               *)
Refuses == Loop!Fetching /\ phase' = "failed"

(* The counter is at the first operand byte of the instruction before.     *)
Slips == (Instruction \/ Refuses) /\ Op.len > 1 /\ m'.pc = Fetched.pc

HInit == Init /\ acts = 0 /\ frames = << >> /\ slipped = FALSE

HIteration ==
  /\ Iteration
  /\ TrackFrames
  /\ slipped' = (slipped \/ Slips)
  /\ UNCHANGED acts

HBetween ==
  /\ acts < MaxActs
  /\ Between
  /\ acts' = acts + 1
  /\ frames' = IF m'.sp = m.sp THEN frames ELSE << >>
  /\ UNCHANGED slipped

HNext == HIteration \/ HBetween

HSpec == HInit /\ [][HNext]_hvars

----------------------------------------------------------------------------
(* The frames are on the stack one after the other up to the stack         *)
(* pointer, none of them in the bytes of another, and each still holds     *)
(* what it was pushed for: a call the address after the JSR, an interrupt  *)
(* the counter and the flags of the program it cut (Break apart, which BRK *)
(* sets), PHA and PHP their byte.                                          *)
Saved == [a: Byte, x: Byte, y: Byte, p: SUBSET Bit, pc: Word]
Kinds == {"interrupt", "call", "accumulator", "status"}

InSlot(k, frame, i) == Read(k, Slot(frame, i))
WordIn(k, frame)    == Join(InSlot(k, frame, 1), InSlot(k, frame, 0))

Holds(k, frame) ==
  CASE frame.kind = "call"        -> Wrap16(WordIn(k, frame) + 1) = frame.saved.pc
    [] frame.kind = "interrupt"   -> /\ WordIn(k, frame) = frame.saved.pc
                                     /\ Bits(InSlot(k, frame, 2)) \ {Break}
                                          = frame.saved.p \ {Break}
    [] frame.kind = "accumulator" -> InSlot(k, frame, 0) = frame.saved.a
    [] frame.kind = "status"      -> Bits(InSlot(k, frame, 0)) = frame.saved.p

FramesHold ==
  /\ frames \in Seq([kind: Kinds, sp: Byte, saved: Saved])
  /\ phase # "panicked" =>
       \A i \in DOMAIN frames :
         /\ Holds(m, frames[i])
         /\ Slots(frames[i]) \subseteq RAM
         /\ End(frames[i]) = IF i = Len(frames) THEN m.sp ELSE frames[i + 1].sp
         /\ \A j \in DOMAIN frames \ {i} : Slots(frames[i]) \cap Slots(frames[j]) = {}

(* What is pulled is what the matching push saved, however the calls of    *)
(* execute, the interrupts and the overdrafts cut the program: RTS goes on *)
(* after its JSR, RTI where the interrupt came with the flags of that time *)
(* (but for Break, cleared, and UNK, set), PLA and PLP bring back their    *)
(* byte.  A frame counts as long as the program stores nothing into it.    *)
PullsWhatWasPushed ==
  [][/\ Executes({"RTS"}) /\ Matches("call") => m'.pc = TopFrame.saved.pc
     /\ Executes({"RTI"}) /\ Matches("interrupt") =>
          /\ m'.pc = TopFrame.saved.pc
          /\ m'.p = (TopFrame.saved.p \ {Break}) \cup {UNK}
     /\ Executes({"PLA"}) /\ Matches("accumulator") => m'.a = TopFrame.saved.a
     /\ Executes({"PLP"}) /\ Matches("status") => m'.p = TopFrame.saved.p]_hvars

(* An interrupt is transparent to the program it cuts: if its routine      *)
(* saves the registers it uses, RTI leaves all of them as they were,       *)
(* provided the counter never slipped.                                     *)
InterruptTransparent ==
  [][Executes({"RTI"}) /\ Matches("interrupt") /\ ~slipped =>
       <<m'.a, m'.x, m'.y>> = <<TopFrame.saved.a, TopFrame.saved.x, TopFrame.saved.y>>]_hvars

(* Memory changes where an instruction has its effective address or where  *)
(* it pushes, where an interrupt pushes or its handler stores, and nowhere *)
(* else: a shift at address 0 changes none of it, *ALR and *ARR their own  *)
(* operand.  Behind a controller that takes no writes nothing changes,     *)
(* even by a step that panics.                                             *)
PushedSlots ==
  CASE Enters -> Slots(InterruptFrame)
    [] Executes({"JSR"}) -> Slots(CallFrame)
    [] Executes({"PHA", "PHP"}) -> Slots(ByteFrame("status"))
    [] OTHER -> {}

WritesInPlace ==
  [][\A addr \in RAM \cup ROM : Read(m', addr) # Read(m, addr) =>
       /\ addr \in RAM
       /\ phase' = "panicked" \/ addr \in Stored \cup PushedSlots]_hvars

(* The Break flag, by which main knows that the program is done, gets into *)
(* the status only through a PLP: BRK sets it in the pushed copy alone,    *)
(* and RTI takes it out of what it pulls.                                  *)
BreakOnlyByPull ==
  [][(Break \in m'.p /\ Break \notin m.p) => Executes({"PLP"})]_hvars

(* The counter is left at an operand only by an iteration that ends the    *)
(* budget, by an overdraft or with an Err: a call that goes on is in step  *)
(* with its program, even if an instruction jumps to its own operand.      *)
SlipsOverdrawn ==
  [][Slips => cpu_cycles' = 0]_hvars

----------------------------------------------------------------------------
(* Zero and Negative describe one byte, so no instruction but those that   *)
(* load the flags themselves sets both.                                    *)
OneSign ==
  [][({Zero, Negative} \subseteq m'.p /\ ~({Zero, Negative} \subseteq m.p))
       => Executes({"PLP", "RTI", "BIT"})]_hvars

(* After a comparison Carry, Zero and Negative order the register and the  *)
(* operand as unsigned bytes, with the sign of their 8-bit difference.     *)
CompareOrders ==
  [][\A c \in {<<"CMP", m.a>>, <<"CPX", m.x>>, <<"CPY", m.y>>} :
       Executes({c[1]}) =>
         /\ (Carry \in m'.p) = (c[2] >= Val)
         /\ (Zero \in m'.p) = (c[2] = Val)
         /\ (Negative \in m'.p) = ((c[2] - Val) % 256 \in 128 .. 255)]_hvars

(* What ASL, LSR and ROR move out of the byte is in the carry, and nothing *)
(* else is lost (where the result can be seen).                            *)
ShiftedByte == IF At = 0 THEN m'.a ELSE Read(m', At)
CarryOut    == IF Carry \in m'.p THEN 1 ELSE 0

Shifts(name) == Executes({name}) /\ (At = 0 \/ At \in RAM)

ShiftsKeepBits ==
  [][LET before == Source(Fetched, Op.mode) IN
     /\ Shifts("ASL") => ShiftedByte + 256 * CarryOut = 2 * before
     /\ Shifts("LSR") => 2 * ShiftedByte + CarryOut = before
     /\ Shifts("ROR") => 2 * ShiftedByte + CarryOut = before + 256 * CarryIn(m)]_hvars

(* The accumulator after a sum or a difference is right modulo 256,        *)
(* whatever becomes of the flags.                                          *)
SumModulo ==
  [][/\ Executes({"ADC"}) => (m'.a - (m.a + Val + CarryIn(m))) % 256 = 0
     /\ Executes({"SBC", "*SBC"}) => (m'.a - (m.a - Val - 1 + CarryIn(m))) % 256 = 0]_hvars

(* A branch that leaves the program counter elsewhere than at the next     *)
(* instruction has gone -128 .. 127 bytes from there, and has cost 3       *)
(* cycles in the same page and 4 in another.                               *)
Branches == {"BCC", "BCS", "BNE", "BEQ", "BPL", "BMI", "BVC", "BVS"}

BranchReach ==
  [][LET next == Wrap16(m.pc + 2)
         cost == cpu_cycles - cpu_cycles'
     IN Executes(Branches) /\ m'.pc \notin {next, Fetched.pc} =>
          /\ (m'.pc - next) % 65536 \in 0 .. 127 \cup (65536 - 128) .. 65535
          /\ cpu_cycles' > 0 => cost = IF Hi(m'.pc) = Hi(next) THEN 3 ELSE 4]_hvars

----------------------------------------------------------------------------
(* What comments and logs promise of the handlers, and the code does not.  *)

(* ADC, "Add with Carry", sets the carry iff the sum does not fit a byte,  *)
(* so that sums of several bytes can be made with it.                      *)
CarryOfSum ==
  [][Executes({"ADC"}) => (Carry \in m'.p) = (m.a + Val + CarryIn(m) > 255)]_hvars

(* ROL, "Rotate Left", moves the highest bit into the carry, as the log of *)
(* nestest has it, so that a rotation can go on with the next byte.        *)
CarryOfRotation ==
  [][Shifts("ROL") =>
       ShiftedByte + 256 * CarryOut = 2 * Source(Fetched, Op.mode) + CarryIn(m)]_hvars

(* The status an IRQ pushes has the B flag cleared.                        *)
IrqClearsB ==
  [][Serves /\ interrupt.kind = "IRQ"
       => Break \notin Bits(Read(m', 256 + Wrap8(m.sp + 2)))]_hvars
=============================================================================
