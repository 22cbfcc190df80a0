# A TLA+ model of rs6502

rs6502 is an emulator of the MOS 6502: a library (a CPU, a bus, an opcode
table) and a binary that runs a NES test ROM. This directory holds its formal
model: TLA+ modules, TLC configurations that check them on small instances,
and proofs checked by TLAPS. Paths below are relative to the repository's
`src/` (so `lib.rs` is `src/lib.rs` of the crate).

Check a module with `tlc -config MCBus.cfg MCBus`, a proof with
`tlapm BusProofs.tla`. `PROJECT.json` lists the runs, the mutants each property
was shown to reject, the lines every definition stands for, the findings, the
hazards and the theorems.

## The system

| Part | State | Operations | Module | Correct when |
|---|---|---|---|---|
| Instruction loop (`Mos6502::execute`) | program counter, one interrupt slot, locals `cpu_cycles` and `stall_cycles` | a call with a budget of cycles; between calls the owner stores to the public fields or resets | `ExecuteLoop` | the budget is used up and no more; the loop ends; interrupts are served; the instruction stream is not lost |
| Instructions and addressing (`lib.rs:278-1205`) | registers, status, memory | 77 mnemonics over 256 opcodes | `Bytes`, `Machine`, `Mos6502` | results and flags are those of the operation; every instruction is a legal step of the loop |
| Interrupts and stack (`lib.rs:234-277`, `742-769`) | stack page, stack pointer, interrupt slot | NMI, IRQ, BRK, RESET, host handlers; push and pull | `Machine`, `Mos6502`, `CpuHistory` | what is pulled is what was pushed; an interrupt is transparent to the program |
| Opcode table (`ops.rs`) | constant | lookup | `OpCodes` | 256 rows, as in the source |
| Memory bus (`bus.rs`) | `HashMap` from regions to controllers | `map_region`, `mem_read`, `mem_write` | `Bus` | a mapping is for good; a write is read back |
| Locks (`Arc<Mutex<Mos6502>>`, `Arc<RwLock<Bus>>`, one `RwLock` per controller) | holders, poisoned | lock, read, write, and what a panic drops | `SharedBus` | every access is atomic; a session that holds the CPU sees whole words and loses no update; nobody waits for ever |
| 16-bit and signed accesses (`memory.rs`) | none | default methods of `Memory` | `SharedBus` (all, as the bytes they access), `Machine` (reads of the CPU) | a value written is the value read |
| Clock (`get_tick_delta`, `lib.rs:226-233`, `334`) | `game_tick_time` | the delta since the last call, as cycles | `TickBudget` | the time granted is the time that passed |
| Cartridge and iNES loader, RAM chip (`bin/nes.rs`) | PRG and CHR banks, mirrored RAM | parse, read, write, panic on a write to the ROM | `Cartridge` | every address of `$8000-$FFFF` is in a bank; mirrors agree |
| NES runner (`main` in `bin/nes.rs`) | the chips, the locked CPU | load, map, reset, set the counter, execute until the Break flag | `NesMain` | it runs the program of the file and stops when the program is done |
| Trace (`lib.rs:55-188`, `trace.rs`) | none | the line of the next instruction | `Tracer` | what the line names is what the instruction uses |
| Errors (`error.rs`) | none | - | outcomes of `ExecuteLoop`, `Bus`, `SharedBus` and `NesMain` | - |

How they interact. The owner locks the CPU and calls `execute(&mut self)`. The
CPU reads the clock, turns the delta into a budget, and loops. Every iteration
does one thing: serve an interrupt, count a stall cycle, return, or run an
instruction. All memory goes through the bus, which looks the address up and
locks the controller behind it. An interrupt may carry a closure of the host,
which is called between the push of the state and the read of the vector, with
the CPU locked.

What is hard here. Where a budget ends is decided by the host's clock, so an
interrupt, an overdraft or the end of a call can fall between any two
instructions; no test drives that. The loop has four kinds of `continue`, mixes
`i32` and `u32`, and decides that an instruction jumped by comparing program
counters. A lookup walks a `HashMap` in whatever order it has. Debug and
release builds differ at every unchecked sum.

Memory is shared. Each byte takes two or three locks and drops them again, so a
word is two accesses and an increment is a read and a write, with the other
threads in between. The handler of an interrupt runs under the mutex of the CPU.
A controller that panics poisons, on the way out, its own lock, that of the bus
if it was writing, and that of the CPU if its thread was in `execute`; everyone
unwraps. `PROJECT.json` lists the hazards at their lines.

## The modules

- `ExecuteLoop.tla`: the contract of `execute`, with an instruction reduced to
  its length, its cost and, if it can jump, where it leaves the counter. One action is one
  iteration, or one act of the owner between calls. `LoopHistory.tla` adds
  history variables (granted, spent, served, due, cause) and the properties;
  `ExecuteLoopProofs.tla` proves them. Its instance is `MCExecuteLoop.tla`.
- `Bytes.tla`, `Machine.tla`: fixed-width integers, and every handler as an
  operator from a machine (registers, flags, memory) to the machine it leaves.
  The handlers take `&mut self`, so only their result can be seen.
- `OpCodes.tla`: the 256 rows as families of addressing modes.
- `Mos6502.tla`: `execute` itself, one action per mnemonic, interrupts with
  host handlers, both build profiles (`overflow_checks`). `ImplementsLoop`
  states that it implements `ExecuteLoop`: `Loop!Init`, and every step a step of
  it or a stutter, with the existentials of `Loop!Next` given their witnesses
  (the opcode that was fetched, the counter it left), so that TLC need not
  enumerate 65536 targets. `CpuHistory.tla` adds the frames on the stack and the
  properties; its instances are `MCInstructions.tla` and `MCProgram.tla`.
  `MachineProofs.tla` proves what each handler leaves; `CpuProofs.tla` the types of
  the machine, the refinement, and the properties of results and flags;
  `StackProofs.tla` which bytes a step may change, and the stack.
- `Tracer.tla`: what the trace says of the next instruction. It has no step of its
  own: a trace only reads, and each property compares the line with the step of
  `CpuHistory` that follows it. `TracerProofs.tla` proves them, and the reach of
  branches.
- `Bus.tla`: the bus, with the iteration order of its `HashMap` as a variable
  that an insertion may permute. `BusProofs.tla` proves its properties;
  its instance is `MCBus.tla`.
- `SharedBus.tla` extends `Bus` to threads and locks: one action per lock taken,
  access, release, and guard dropped by a panic. A thread has a list of jobs; a
  job is the list of the byte accesses that the methods of `Memory` make, in a
  session that holds the CPU or outside of one. The abstract specification is
  `Bus!Spec`, with every access at one moment. `SharedBusProofs.tla` proves that
  it is implemented, and that there is no deadlock; the instance is `MCSharedBus.tla`.
- `TickBudget.tla`: the clock, the delta and the budget.
- `Cartridge.tla`: the iNES file, the ROM made of it, the banks and the mirrors, as
  operators. `NesMain.tla` composes `TickBudget`, `Cartridge`, the lookup of `Bus`
  and `ExecuteLoop` into the program `nes`, from the file to the two results it
  prints. `NesProofs.tla` has its proofs and those of the clock, and
  `MCNesMain.tla` is its instance.

The definitions named "Fault" in the modules' comments are wrong variants of the
definition after them. No specification uses them: they are what the mutants of
`PROJECT.json` put in, to show that each property can fail.

Correspondence of state. `pc`, `interrupt` and the registers are the fields of
`Mos6502`; the status is the set of its flags, by bit number; `cpu_cycles` and
`stall_cycles` are the locals of `execute`; `phase` says whether a call is
running, how the last one ended, or that it unwound. After a panic the
registers are behind a poisoned mutex and are not described any more; memory is.
An action of the loop is one pass through it, so the trailing overdraft test and
the move past the operands (`lib.rs:719-727`) are part of every instruction's
action (`Retire`).

In `SharedBus`, `held` is who has a guard of which lock and `found` the region a
lookup gave, which the code keeps in a local while it locks the controller;
`seen` and `around` are history, for what a session has seen and what went around
it. The guards of an access are dropped in one action, since what the inner ones
guard cannot be reached before the outermost is dropped; those of a panic go one
by one, because each may poison its lock. In `TickBudget`, `lag` is the clock less
`game_tick_time`. In `NesMain`, `ram` is the one RAM chip that main maps twice, and
a byte of the ROM is its place in the file, so that a read says where it came from.

## The runs

| Run | Asks | Instance |
|---|---|---|
| `loop` | all properties of the loop, safety, termination and service | 5 addresses, budgets of 6 bits on both sides of the sign, four opcodes (of costs 2, 5 and 8, so sums fall before, on and after each budget) |
| `loop_step` (violation) | does the counter always end where the instruction left it? | the same |
| `bus` | mapping, lookup, reading back, for every iteration order | 4 addresses, regions that are equal, apart, nested and overlapping, two controllers |
| `bus_overlap` (violation) | do mapped regions never overlap? | the same |
| `instructions` | each opcode's results and flags, the bytes it may change, its step of the loop, and the line of the trace before it | all 256 opcodes from 20 operand and register settings, code at the end of a page, of memory and on the stack, both profiles, one call |
| `rol`, `carry` (violations) | does ROL move a bit into the carry, is the carry of ADC that of the sum? | the same |
| `program` | what is on the stack, what is pulled from it, and interrupts, over whole programs | a program with a subroutine, BRK, and routines for IRQ and NMI; 6 acts of the owner (calls with 5 budgets, 3 interrupts, one with a handler, resets) |
| `irq_flag` (violation) | does an IRQ push a clear B flag? | the same |
| `trace` (violation) | is the address of a trace line always the one used? | that of `instructions` |
| `shared` | the locks: atomic accesses, whole words, poison, no deadlock | 4 addresses in pages of 2, bytes of 2 bits, a RAM and a ROM that panics; 3 threads (main, a host through the CPU's mutex, a device around it) with 60 combinations of jobs |
| `nes` | the runner: time, banks, mirrors, and that it stops | 12 addresses, a RAM chip of 2 bytes mapped twice over 6, with a stack of 2 bytes in it, banks of 2 bytes; 9 files, of which 2 load and run; a cycle of 2 ticks, f32 off by a quarter, a clock that may be set back |

Why the bounds are enough. The loop only compares the budget with a cost and
with the sign; one value on each side of each comparison is there, and the
proofs cover all others. Nothing in the loop depends on the number of addresses
beyond the length of an instruction. Two controllers and nested, equal and
overlapping regions give the bus every relation between two regions in every
order. Six acts of the owner are enough for an interrupt in an interrupt in a
subroutine, an overdraft in the middle of each and a call that goes on
afterwards; runs made with the opposite properties confirmed that nested RTI,
slipped RTS and RTI and a PLP that sets Break all happen. In `shared` the jobs of
main are the increment, the 16-bit read, the write that carries past the last
address, and an interrupt whose handler locks the CPU again; those of the device
write into, map over, or panic in what the sessions use. In `nes` the files have 0
to 3 banks, a trainer or none, and are also too short or of another kind, one for
each way `Rom::new` and `reset` can end. Deadlock is not checked where the program
may stop: the CPU can panic (`panicked` has no successor), `main` ends, threads
come to the end of their jobs, a handler waits for the CPU it runs under, and the
number of acts of the owner is bounded.

Fairness. `HFairSpec` assumes that a running call keeps running (it is a loop
on a thread) and that the owner keeps calling `execute`, as `main` does. It
assumes nothing of the choices inside an iteration. `CallEnds` and
`InterruptServed` rest on it; the latter allows for a panic, which no fairness
excludes. `SFairSpec` is weak fairness of each thread's next step: the scheduler
runs a thread that can run, and nothing is assumed of who gets a lock first. That
is enough for `EveryoneFinishes` because the jobs are finite, so nobody is
overtaken for ever; its exception is the handler that locks the CPU it runs under,
which does wait for ever. `NesFairSpec` is weak fairness of `main` alone; the clock
owes nothing, and `BreakStops` holds even if it stands still.

What the violations show.
- `loop_step`: an overdraft leaves the counter at the operand of the
  instruction, and the next call executes the operand (`lib.rs:719-722`). The
  log of nestest in the repository has no such step.
- `bus_overlap`: only a region inside a mapped one is refused (`bus.rs:68`).
- `rol`: ROL always clears the carry, because `data & 0b10000000 == 1` never holds
  (`lib.rs:1101`). The log rotates `$80` into a set carry
  (`nestest_no_cycle.log:1041-1042`).
- `carry`: the carry of ADC is bit 7 of the result (`lib.rs:821`).
- `irq_flag`: IRQ pushes the status as it is, not with B clear (`lib.rs:259-261`).
- `trace`: the trace looks the pointer of an `(d,X)` operand up without wrapping
  it in page 0 (`lib.rs:110`), so for a pointer at `$FF` it names another address
  than the instruction uses, and than the repository's log of nestest
  (`nestest_no_cycle.log:1100`, `LDA ($FF,X) @ FF = 0400`).

Met on the way, and modelled as the code does it. Some are plain slips that one test
of the instruction shows: EOR and ORA compute AND (`lib.rs:994` under `/// Exclusive
OR`, `lib.rs:1071` under `/// Logical Inclusive OR`), and `*LAX` copies X over the
accumulator it has just loaded (`lib.rs:645`; the log has the byte in both registers,
`nestest_no_cycle.log:5260-5261`). Others are the code's own choice: shifts at
effective address 0 act on the accumulator, `*ALR` and `*ARR` write their own operand
byte, the stack grows upwards, an IRQ ignores the Interrupt flag, and the second call
of `handle_interrupt` (`lib.rs:348-358`) can never find one. `*SHY` has a row in the
table and no handler: `execute` returns Err with the opcode consumed and its two
operands still to come (`lib.rs:717`). `main` gives up then; a host that goes on runs
the operands, and `InStep` has the case.

## What is proved

Every theorem holds for all values of the constants that satisfy the assumptions
of its module, which TLC evaluates in the runs:

- the loop: more than three addresses, an even number of values of `cpu_cycles`
  above twice the cost of the dearest instruction, budgets in that range, opcodes
  of length 1 to 3 and cost 1 to 8 (`AddrAssumption`, `CycleAssumption`,
  `BudgetAssumption`, `OpsAssumption`; `LoopAssumption` in `NesMain`);
- the bus: regions are pairs of addresses, 0 is a value, and `None` is no region
  (`RegionAssumption`, `DataAssumption`, `NoneAssumption`);
- the threads: bytes with an even number of values, pages that divide memory,
  programs that are sequences of non-empty jobs, and controllers that are not named
  as the other locks (`ByteAssumption`, `PageAssumption`, `ProgramsAssumption`,
  `LockAssumption`);
- the clock and the runner: a cycle of at least a tick (`ClockAssumption`), regions
  in the order of the source and of whole numbers of RAM chips
  (`LayoutAssumption`, `NesAssumption`);
- the CPU: RAM and ROM apart (`MemoryAssumption`), well-typed acts of the host, whose
  handlers store to no controller that panics (`HostAssumption`), and of the 256 rows
  of the table their types (`TableAssumption`), the lengths of the jumps, the two
  opcodes of JMP, and the cost of branches (`RowAssumption`);
- the trace: every row with a handler has a mode the trace can print
  (`FormAssumption`).

The loop (`ExecuteLoopProofs`). The properties speak of calls that have ended and
are not inductive. `LoopInv` adds what holds during a call: until the overdraft,
`spent + cpu_cycles = granted`; afterwards nothing is left and the overdraft is
less than one instruction; a call that served an interrupt has nothing left; a
budget that stays negative is untouched or gone. A call that ends with Err has budget
left, which is lost, and has served no interrupt. The arithmetic is in
`NoUnderflow` (an instruction that passes the signed test costs at most what
the unsigned budget has), `PositiveBudget` and `HugeBudget`. From it follow
`TypeCorrect`, `BudgetIsUsed`, `HugeBudgetIsLost`, `BreakIsServed` and
`StepLostAtOperands`, and the action properties `BudgetIsForfeited` and
`IterationsDescend`. The last gives the bound on the iterations of a call that
`CallEnds` needs.

`StepLostAtOperands` (`InStep`) says how the counter can come to be elsewhere than at
the next instruction, and where it is then. There are four ways. After an overdraft,
with a budget that is negative as an `i32`, and after the Err of an opcode with no
handler, it is at the operands of the last instruction, which a further call runs.
After a jump to its own operand it has been moved past it, by no more than an
instruction is long. `due`, the history it is compared with, is past the operands for
every instruction that does not jump, the one that fails included
(`OperandsAhead` has the wrap at the end of memory).

The bus (`BusProofs`). `BusInv` adds to the types (`BusTypeCorrect`) that the
iteration visits exactly the keys, that no controller was ever written at an
address no region covers, and that, without overlaps, the controller behind a
region holds what was written there. `LeastIndex` and `FirstHit` describe the
lookup. From it follow `InnerComesFirst`, `WritesAreReadBack` and `MappingsStay`.

The threads (`SharedBusProofs`). `SharedInv` has a part for each reason an access
is atomic. `AtAStep`: a thread holds the bus from its lookup to its release.
`Exclusion`: a writer of the bus is alone, and the CPU has one holder.
`LookupFresh`: so what was looked up is still what the bus says. `PoisonTrail`: a
controller is reached through the bus only, and a poisoned bus is held by nobody.
`SessionHoldsCpu` and `SeenIsWritten`: what a session saw is what was written
last, but for what went around the CPU. `StepIsAtomic` shows that a step of a
thread is a step of `Bus` or leaves it alone, hence `SharedImplementsBus`;
`PoisonFreezes` and `SessionIsConsistent` follow in the same way. `SignedRoundTrip`
is about the two casts of `memory.rs`: a signed byte that is written is the one that
is read, for every width. `DeadlockFree` is the safety half of `EveryoneFinishes`:
unless the handler of an interrupt locks the CPU it runs under, somebody can take a
step. `Ready` is the guard of a thread's next step, written out. The argument goes by
the order of the locks, of which `Holders` adds to `SharedInv` that a thread with the
CPU is at work and one with a controller takes no more locks. So a thread on the bus
can go on, or waits for a controller whose holder can (`OnBusGoOn`); and if nobody is
on the bus, who waits waits for the CPU, whose holder must be waiting for it too.

The clock and the runner (`NesProofs`). `ClockKeepsTime` sums the
error of one delta (`Granted`) over any number of calls. `RunnerKeepsTime` has it for
`main`, whose steps are steps of the clock. `NesInv` says which regions are mapped at
each stage, that a file with no bank never gets past `reset`, and that every cell
is what was last written to one of its mirrors; `Lookup` finds the region of an
address whatever the sizes are. From it follow `BanksHoldTheProgram` and
`RamIsMirrored`. With `RunnerInv`, which adds the types, `RunnerTypeCorrect` and
`RunnerRunsTheLoop`: what `main` does with its CPU is `ExecuteLoop!Spec`, so the
theorems of the loop hold for it.

The CPU (`MachineProofs`, `CpuProofs`). `MachineProofs` has a lemma for each operator
of `Machine`: it leaves a machine, and (`Follows`) does not move the program counter
if it is no jump. `DoesStep` makes each of them a step of `ExecuteLoop`;
`TypeCorrect`, `CpuImplementsLoop` and `CpuRefinesLoop` (`Spec => Loop!Spec`, with no
reservation) follow for all registers, memories, programs and budgets. Two flags of
the status and the cycles are followed through every handler (the lemmas
`...Keeps`); a step that is "tame" in these respects gives `BreakOnlyByPulls` (the
Break flag gets into the status by a PLP only), `SignsAreOfOneByte` (Zero and Negative
are never both set but by a pull or BIT) and `SlipsEndTheBudget` (the counter is left
at the operand by an overdraft only, which ends the budget). `ComparisonsOrder`,
`SumsAreModulo` and `ShiftsKeepAllBits` are about results, for every operand. In these
proofs the last address is kept under a name (`MaxWord`, `WordIs`): a solver that sees
the interval `0 .. 65535` enumerates it.

Memory and the stack (`StackProofs`). The lemmas `...Left` say of every handler which
bytes it can change, and `IterationEffect` puts them together with the interrupts:
`WritesStayInPlace`. The stack discipline holds of every program, because
`CpuHistory` keeps a frame only as long as nothing is stored into it; whether a store
hits a frame is a matter of `Stored`, which `WritesStayInPlace` shows to be all there
is. `FramesHold` is the inductive invariant: the frames lie one after the other up to
the stack pointer, wherever it wraps; no two share a byte, although the page holds
only 256; and each still holds what was pushed. `StackPushed` and `StackPulled` are
the two steps that move the stack pointer, `StackKept` all others. `FramesAreHeld`
proves it and `PullsAreOfPushes` uses it: RTS, RTI, PLA and PLP bring back what their
push saved. That needs the encodings undone: `JoinedHalves` (a word from its bytes)
and `StatusBack` (the flags from the byte of the status). After a panic nothing is
said of the frames: a word may be half pushed.

The trace (`TracerProofs`). `BranchesReach` is about every branch, also over the ends
of memory, and its cost. `OperandsAreNamed` and `TargetsAreNamed` compare the line with
the step for every program: the address modes agree (`AddressNamed`) but for an
`(d,X)` pointer at `$FF`, which is the finding of `trace`; the targets of JMP, JSR and
branches agree but for a JSR that pushes over its own operand, where the code reads
the operand after the push and goes to the address it has pushed (`CallsOverItself`).
The last exception came out of the proof; `instructions` has the case. `PanicsAlike` is
why no line is missing that the instruction would have survived.

Only model-checked: liveness (`CallEnds`, `InterruptServed`, `EveryoneFinishes`,
`BreakStops`), which is beyond the prover, with `Descends` and `NoDeadlock` proved as
its safe part; and `InterruptTransparent`, which is a property of a program whose
interrupt routines save the registers they use, and holds of the one that is checked.

## Not modelled

- The layout and the wording of traces and messages. The fields of `Rom` for the
  mapper and the mirroring of the screen, which nothing reads. A PPU: `main` puts
  the RAM chip behind its registers.
- Errors that cannot be made: `UnknownOpCode` (the table has 256 rows) and
  `Error::None`.
- A host that keeps a clone of the `Arc` of a controller and locks it without the
  bus. `main` keeps none. Such a host would wait for, and poison, a controller
  without the bus.
- A handler of the host that stores to a controller which panics: its panic would
  leave an interrupt half served (`HostAssumption`).
- A BRK request with a handler, which only a host could store in the slot.
- f32 itself: a product is off by at most one part in `Precision`. The frequency
  of the CPU: it cancels out of the budget (`lib.rs:334`), and a cycle is 1 us.
- Memory behind the CPU that answers at two addresses. In `Machine` each address of
  the RAM is a byte of its own, so what `program` and `instructions` show of the stack
  and of the bytes written, and `StackProofs` proves, is about such a memory; `main`
  maps its RAM chip with mirrors, and there a store far from the stack can hit it.
  `NesMain` has the mirrors, but no instructions.
- In `NesMain`, what the program computes: an instruction may write any byte,
  push two or three bytes where JSR and interrupts do, pull any Break flag, or panic. Its regions do not overlap, so the order of the
  `HashMap`, which `Bus` leaves open, makes no difference and is fixed.
- In `Tracer`, the unstable `*AHX` (`$93`), which the trace addresses by another
  mode than its handler does: no property of the trace is about it.

## Plan

The plan is carried out: loop, instructions, bus, threads, clock, cartridge,
runner, trace, and the proofs above. What could be added: the carry and the sign of
ADC, SBC and the combined opcodes as theorems about results; a condition on interrupt
routines (they restore what they save) under which `InterruptTransparent` is a
theorem; a host that shares its controllers around the bus, once the repository has
one.
