----------------------------- MODULE SharedBus -----------------------------
(***************************************************************************)
(* The bus and the CPU behind their locks (src/src/bus.rs, memory.rs and   *)
(* lib.rs): threads that share an Arc<RwLock<Bus>>, an Arc<Mutex<Mos6502>> *)
(* and one RwLock per controller.  A call of the Memory trait is one or    *)
(* two accesses to a byte, and every access takes its locks and drops them *)
(* again: one action here is one lock taken, one access, one release, or   *)
(* one guard dropped by a panic.  The guards of a panicking thread poison  *)
(* what they guard for writing, and whoever unwraps a poisoned lock panics *)
(* too.                                                                    *)
(*                                                                         *)
(* Bus.tla is the atomic bus this implements.  Lookups, reads and writes   *)
(* are its operators, at the moment the locks are held for them.           *)
(***************************************************************************)
EXTENDS Bus

CONSTANTS
  ByteSpace,      (* Number of values of a byte: 256.                      *)
  PageSize,       (* Addresses in a page: 256.                             *)
  OverflowChecks, (* The build profile: TRUE if sums are checked.          *)
  ReadOnly,       (* Controllers that panic on a write, as main's Rom.     *)
  Broken,         (* Those that panic on a read too: a Rom with no bytes.  *)
  Threads,
  Programs        (* What the threads may be going to do: functions from   *)
                  (* threads to sequences of jobs.                         *)

ASSUME ByteAssumption == /\ ByteSpace \in Nat
                         /\ ByteSpace % 2 = 0
                         /\ Data = 0 .. ByteSpace - 1

ASSUME PageAssumption == PageSize \in Nat \ {0} /\ (MaxAddr + 1) % PageSize = 0

----------------------------------------------------------------------------
(* The calls of the Memory trait as the byte accesses they make, `via` the *)
(* Arc of the bus or that of the CPU.                                      *)

Access(kind, addr, data, via) ==
  [kind |-> kind, addr |-> addr, data |-> data, via |-> via, mapping |-> None]

Get(addr, via)       == Access("read", addr, 0, via)
Put(addr, data, via) == Access("write", addr, data, via)
(* The write of a read-modify-write: one more than the byte read before.   *)
Update(addr, via)    == Access("update", addr, 0, via)
Overflow             == Access("overflow", 0, 0, "bus")
Insert(region, controller) ==
  [Access("map", 0, 0, "bus") EXCEPT !.mapping = <<region, controller>>]

(* addr + 1, which the build may check.                                    *)
After(addr, access) ==
  IF addr < MaxAddr THEN access
  ELSE IF OverflowChecks THEN Overflow
  ELSE [access EXCEPT !.addr = 0]

NextInPage(addr) == PageSize * (addr \div PageSize) + ((addr + 1) % PageSize)

ReadU16(addr, via) == << Get(addr, via), After(addr, Get(addr + 1, via)) >>

ReadU16Wrap(addr, via) == << Get(addr, via), Get(NextInPage(addr), via) >>

WriteU16(addr, lo, hi, via) ==
  << Put(addr, lo, via), After(addr, Put(addr + 1, hi, via)) >>

(* `as i8` and `as u8`: the value of the other type with the same bits.    *)
SignedByte == -(ByteSpace \div 2) .. ByteSpace \div 2 - 1
AsI8(n) == ((n + ByteSpace \div 2) % ByteSpace) - ByteSpace \div 2
AsU8(n) == n % ByteSpace

ReadSigned(byte) == AsI8(-(ByteSpace - byte))

WriteSigned(addr, data, via) ==
  << Put(addr, IF data < 0 THEN AsU8(ByteSpace + data) ELSE AsU8(data), via) >>

(* A job: what a thread does in one go.  In a session the thread holds the *)
(* mutex of the CPU all the time, as main does and as execute needs.       *)
Job(session, steps) == [session |-> session, steps |-> steps]

Step == [kind: {"read", "write", "update", "overflow", "map"}, addr: Addr,
         data: Data, via: {"bus", "cpu"}, mapping: {None} \cup (Regions \X Controllers)]

Jobs == {j \in [session: BOOLEAN, steps: Seq(Step)] :
           /\ j.steps # << >>
           /\ \A i \in DOMAIN j.steps :
                j.steps[i].kind = "map" => j.steps[i].mapping # None}

ASSUME ProgramsAssumption == \A p \in Programs : p \in [Threads -> Seq(Jobs)]

----------------------------------------------------------------------------
VARIABLES
  todo,      (* thread -> its jobs, the one it is at first                 *)
  done,      (* thread -> the accesses of that job it is done with         *)
  at,        (* thread -> what it does next, see Stage                     *)
  found,     (* thread -> the region its lookup found                      *)
  held,      (* lock -> the threads that have a guard of it                *)
  poisoned,  (* the locks whose guard was dropped by a panic               *)
  seen,      (* history: thread -> address -> what it last read from, or   *)
             (* wrote to it in its job                                     *)
  around     (* history: thread -> addresses that were mapped since it     *)
             (* locked the CPU, or written by threads that do not hold it  *)

svars == <<vars, todo, done, at, found, held, poisoned, seen, around>>

Lock == {"cpu", "bus"} \cup Controllers

ASSUME LockAssumption == {"cpu", "bus"} \cap Controllers = {}

(* "cpu", "bus", "controller": about to take that lock; "access": with all *)
(* locks taken; "leave": about to drop them; "sum": about to compute the   *)
(* second address; "unwinding": in a panic; "dead": after it.              *)
Stage == {"cpu", "bus", "controller", "access", "leave", "sum",
          "unwinding", "dead", "finished"}

TheJob(t)  == Head(todo[t])
TheStep(t) == TheJob(t).steps[done[t] + 1]
Exclusive(t) == TheStep(t).kind \in {"write", "update", "map"}

(* Where a step of a job begins, for a thread that holds the CPU or not.   *)
Entry(step, needsCpu) ==
  IF step.kind = "overflow" THEN "sum"
  ELSE IF needsCpu \/ step.via = "cpu" THEN "cpu"
  ELSE "bus"

FirstEntry(jobs) ==
  IF jobs = << >> THEN "finished" ELSE Entry(Head(jobs).steps[1], Head(jobs).session)

----------------------------------------------------------------------------
(* Taking locks.                                                           *)

CanLock(lock, exclusive) ==
  IF exclusive THEN held[lock] = {} ELSE \A u \in held[lock] : ~Exclusive(u)

Take(t, lock) == held' = [held EXCEPT ![lock] = @ \cup {t}]
Go(t, stage)  == at' = [at EXCEPT ![t] = stage]

(* unwrap() on the result for a poisoned lock.                             *)
Unwrap(t) == Go(t, "unwinding") /\ UNCHANGED <<found, held>>

LockCpu(t) ==
  /\ at[t] = "cpu"
  /\ CanLock("cpu", TRUE)
  /\ IF "cpu" \in poisoned
       THEN Unwrap(t)
       ELSE Take(t, "cpu") /\ Go(t, "bus") /\ UNCHANGED found
  /\ around' = [around EXCEPT ![t] = {}]
  /\ UNCHANGED <<vars, todo, done, poisoned, seen>>

(* The region of the address is looked up as soon as the bus is locked.    *)
LookUp(t) ==
  LET region == GetRegionPlace(TheStep(t).addr)
  IN IF TheStep(t).kind = "map"
       THEN Go(t, "access") /\ UNCHANGED found
       ELSE /\ found' = [found EXCEPT ![t] = region]
            /\ Go(t, IF region = None THEN "access" ELSE "controller")

(* Faults: the poison is ignored; a writer takes the lock as readers do.   *)
LockBusPoisoned(t) ==
  /\ at[t] = "bus"
  /\ CanLock("bus", Exclusive(t))
  /\ Take(t, "bus") /\ LookUp(t)
  /\ UNCHANGED <<vars, todo, done, poisoned, seen, around>>

LockBusShared(t) ==
  /\ at[t] = "bus"
  /\ CanLock("bus", FALSE)
  /\ IF "bus" \in poisoned THEN Unwrap(t) ELSE Take(t, "bus") /\ LookUp(t)
  /\ UNCHANGED <<vars, todo, done, poisoned, seen, around>>

LockBus(t) ==
  /\ at[t] = "bus"
  /\ CanLock("bus", Exclusive(t))
  /\ IF "bus" \in poisoned THEN Unwrap(t) ELSE Take(t, "bus") /\ LookUp(t)
  /\ UNCHANGED <<vars, todo, done, poisoned, seen, around>>

(* Fault: the bus is let go as soon as the controller is locked.           *)
LockControllerAlone(t) ==
  LET controller == memory_map[found[t]] IN
  /\ at[t] = "controller"
  /\ CanLock(controller, Exclusive(t))
  /\ controller \notin poisoned
  /\ held' = [held EXCEPT !["bus"] = @ \ {t}, ![controller] = @ \cup {t}]
  /\ Go(t, "access")
  /\ UNCHANGED <<vars, todo, done, found, poisoned, seen, around>>

LockController(t) ==
  LET controller == memory_map[found[t]] IN
  /\ at[t] = "controller"
  /\ CanLock(controller, Exclusive(t))
  /\ IF controller \in poisoned
       THEN Unwrap(t)
       ELSE Take(t, controller) /\ Go(t, "access") /\ UNCHANGED found
  /\ UNCHANGED <<vars, todo, done, poisoned, seen, around>>

----------------------------------------------------------------------------
(* The access itself, with the locks held.                                 *)

Note(t, addr, data) == seen' = [seen EXCEPT ![t] =
  [a \in DOMAIN @ \cup {addr} |-> IF a = addr THEN data ELSE @[a]]]

Intrude(addrs) == around' = [u \in Threads |-> around[u] \cup addrs]

Accesses(t, kinds) == at[t] = "access" /\ TheStep(t).kind \in kinds

Refused(t, those) == found[t] # None /\ memory_map[found[t]] \in those

(* An address no region covers reads as 0.                                 *)
Answer(t) ==
  IF found[t] = None THEN 0 ELSE cells[memory_map[found[t]]][TheStep(t).addr]

Read(t) ==
  /\ Accesses(t, {"read"})
  /\ ~Refused(t, Broken)
  /\ Note(t, TheStep(t).addr, Answer(t))
  /\ Go(t, "leave")
  /\ UNCHANGED <<vars, todo, done, found, held, poisoned, around>>

Operand(t) ==
  LET addr == TheStep(t).addr
  IN IF TheStep(t).kind = "write" THEN TheStep(t).data
     ELSE IF addr \in DOMAIN seen[t] THEN (seen[t][addr] + 1) % ByteSpace
     ELSE 0

Write(t) ==
  LET addr == TheStep(t).addr IN
  /\ Accesses(t, {"write", "update"})
  /\ found[t] # None
  /\ ~Refused(t, ReadOnly)
  /\ cells' = [cells EXCEPT ![memory_map[found[t]]][addr] = Operand(t)]
  /\ written' = [written EXCEPT ![addr] = Operand(t)]
  /\ Note(t, addr, Operand(t))
  /\ IF t \in held["cpu"] THEN UNCHANGED around ELSE Intrude({addr})
  /\ Go(t, "leave")
  /\ UNCHANGED <<memory_map, order, mapped, todo, done, found, held, poisoned>>

WriteUnmapped(t) ==
  /\ Accesses(t, {"write", "update"})
  /\ found[t] = None
  /\ Go(t, "leave")
  /\ UNCHANGED <<vars, todo, done, found, held, poisoned, seen, around>>

(* The controller panics, under a guard that is dropped as it unwinds.     *)
Refuse(t) ==
  /\ \/ Accesses(t, {"write", "update"}) /\ Refused(t, ReadOnly)
     \/ Accesses(t, {"read"}) /\ Refused(t, Broken)
  /\ Go(t, "unwinding")
  /\ UNCHANGED <<vars, todo, done, found, held, poisoned, seen, around>>

(* map_region on the locked bus.  A conflict is a Result for the caller.   *)
Map(t) ==
  LET region == TheStep(t).mapping[1] IN
  /\ Accesses(t, {"map"})
  /\ MapRegion(region, TheStep(t).mapping[2])
  /\ Intrude({a \in Addr : Covers(region, a)})
  /\ Go(t, "leave")
  /\ UNCHANGED <<todo, done, found, held, poisoned, seen>>

Conflict(t) ==
  /\ Accesses(t, {"map"})
  /\ MapConflict(TheStep(t).mapping[1])
  /\ Go(t, "leave")
  /\ UNCHANGED <<todo, done, found, held, poisoned, seen, around>>

(* The sum of mem_read_u16 or mem_write_u16 that leaves the type.          *)
SumPanic(t) ==
  /\ at[t] = "sum"
  /\ Go(t, "unwinding")
  /\ UNCHANGED <<vars, todo, done, found, held, poisoned, seen, around>>

----------------------------------------------------------------------------
(* The end of an access, of a job and of a thread.                         *)

MoreSteps(t) == done[t] + 1 < Len(TheJob(t).steps)

(* Fault: the CPU is let go between the accesses of a session.             *)
NextStepUnlocked(t) ==
  /\ at[t] = "leave"
  /\ MoreSteps(t)
  /\ held' = [l \in Lock |-> held[l] \ {t}]
  /\ done' = [done EXCEPT ![t] = @ + 1]
  /\ Go(t, Entry(TheJob(t).steps[done[t] + 2], TRUE))
  /\ UNCHANGED <<vars, todo, found, poisoned, seen, around>>

(* The guards go in the reverse order of their locks, in one action: until *)
(* the last one is dropped nobody can get at what the others guard.        *)
NextStep(t) ==
  /\ at[t] = "leave"
  /\ MoreSteps(t)
  /\ held' = [l \in Lock |-> IF l = "cpu" /\ TheJob(t).session THEN held[l]
                              ELSE held[l] \ {t}]
  /\ done' = [done EXCEPT ![t] = @ + 1]
  /\ Go(t, Entry(TheJob(t).steps[done[t] + 2], FALSE))
  /\ UNCHANGED <<vars, todo, found, poisoned, seen, around>>

(* Fault: the guard of the CPU outlives the job.                           *)
NextJobLocked(t) ==
  /\ at[t] = "leave"
  /\ ~MoreSteps(t)
  /\ held' = [l \in Lock |-> IF l = "cpu" THEN held[l] ELSE held[l] \ {t}]
  /\ done' = [done EXCEPT ![t] = 0]
  /\ todo' = [todo EXCEPT ![t] = Tail(@)]
  /\ Go(t, FirstEntry(Tail(todo[t])))
  /\ seen' = [seen EXCEPT ![t] = << >>]
  /\ UNCHANGED <<vars, found, poisoned, around>>

NextJob(t) ==
  /\ at[t] = "leave"
  /\ ~MoreSteps(t)
  /\ held' = [l \in Lock |-> held[l] \ {t}]
  /\ done' = [done EXCEPT ![t] = 0]
  /\ todo' = [todo EXCEPT ![t] = Tail(@)]
  /\ Go(t, FirstEntry(Tail(todo[t])))
  /\ seen' = [seen EXCEPT ![t] = << >>]
  /\ UNCHANGED <<vars, found, poisoned, around>>

(* A panic drops the guards of its thread, the last one taken first.       *)
Outer(lock) == IF lock = "bus" THEN {"cpu"}
               ELSE IF lock = "cpu" THEN {} ELSE {"cpu", "bus"}

Unwind(t) ==
  /\ at[t] = "unwinding"
  /\ \E lock \in Lock :
       /\ t \in held[lock]
       /\ \A l \in Lock : t \in held[l] => lock \notin Outer(l)
       /\ held' = [held EXCEPT ![lock] = @ \ {t}]
       /\ poisoned' = IF lock = "cpu" \/ Exclusive(t) THEN poisoned \cup {lock}
                                                     ELSE poisoned
  /\ UNCHANGED <<vars, todo, done, at, found, seen, around>>

Die(t) ==
  /\ at[t] = "unwinding"
  /\ \A lock \in Lock : t \notin held[lock]
  /\ Go(t, "dead")
  /\ UNCHANGED <<vars, todo, done, found, held, poisoned, seen, around>>

ThreadStep(t) ==
  \/ LockCpu(t) \/ LockBus(t) \/ LockController(t)
  \/ Read(t) \/ Write(t) \/ WriteUnmapped(t) \/ Refuse(t)
  \/ Map(t) \/ Conflict(t) \/ SumPanic(t)
  \/ NextStep(t) \/ NextJob(t) \/ Unwind(t) \/ Die(t)

SNext == \E t \in Threads : ThreadStep(t)

SInit ==
  /\ Init
  /\ todo \in Programs
  /\ done = [t \in Threads |-> 0]
  /\ at = [t \in Threads |-> FirstEntry(todo[t])]
  /\ found = [t \in Threads |-> None]
  /\ held = [lock \in Lock |-> {}]
  /\ poisoned = {}
  /\ seen = [t \in Threads |-> << >>]
  /\ around = [t \in Threads |-> {}]

SSpec == SInit /\ [][SNext]_svars

(* A thread that can go on does so: what it waits for in a lock is all     *)
(* that stops it.                                                          *)
SFairSpec == SSpec /\ \A t \in Threads : WF_svars(ThreadStep(t))

----------------------------------------------------------------------------
STypeOK ==
  /\ todo \in [Threads -> Seq(Jobs)]
  /\ done \in [Threads -> Nat]
  /\ at \in [Threads -> Stage]
  /\ found \in [Threads -> {None} \cup Regions]
  /\ held \in [Lock -> SUBSET Threads]
  /\ poisoned \subseteq Lock
  /\ DOMAIN seen = Threads
  /\ \A t \in Threads : /\ DOMAIN seen[t] \subseteq Addr
                        /\ \A a \in DOMAIN seen[t] : seen[t][a] \in Data
  /\ around \in [Threads -> SUBSET Addr]

(* The stages in which a thread has a job, and holds the bus.              *)
Working == Stage \ {"finished", "dead"}
OnBus   == {"controller", "access", "leave"}

(* A thread is at a step of its job, and holds the bus from the lookup to  *)
(* the end of its access, or until its panic has dropped it.               *)
AtAStep ==
  \A t \in Threads :
    /\ at[t] \in Working => todo[t] # << >> /\ done[t] < Len(TheJob(t).steps)
    /\ at[t] \in OnBus => t \in held["bus"]
    /\ t \in held["bus"] => at[t] \in OnBus \cup {"unwinding"}
    /\ at[t] = "finished" => todo[t] = << >>

(* A thread that holds the bus for writing is the only one that holds it,  *)
(* and the CPU has one holder at most.                                     *)
Exclusion ==
  /\ \A t, u \in held["bus"] : Exclusive(t) => t = u
  /\ \A t, u \in held["cpu"] : t = u

(* What a lookup found is still what the bus says when the controller is   *)
(* reached: no mapping and no rehash comes in between.                     *)
LookupFresh ==
  \A t \in Threads :
    at[t] \in {"controller", "access"} /\ ~Accesses(t, {"map"}) =>
      /\ TheStep(t).kind # "map"
      /\ found[t] = GetRegionPlace(TheStep(t).addr)
      /\ at[t] = "controller" => found[t] # None

(* A controller is reached through the bus only.  If it is poisoned, so is *)
(* the bus, or its writer is about to poison it; and nobody holds a        *)
(* poisoned bus.                                                           *)
PoisonTrail ==
  /\ \A c \in Controllers : held[c] \subseteq held["bus"]
  /\ \A c \in Controllers \cap poisoned :
       \/ "bus" \in poisoned
       \/ \E t \in held["bus"] : Exclusive(t) /\ at[t] = "unwinding"
  /\ "bus" \in poisoned => held["bus"] = {}

(* A session holds the CPU from its first access on.                       *)
InSession(t) ==
  todo[t] # << >> /\ TheJob(t).session /\ at[t] \notin {"unwinding", "dead"}

SessionHoldsCpu ==
  \A t \in Threads : InSession(t) /\ t \notin held["cpu"] =>
    at[t] \in {"cpu", "sum"} /\ DOMAIN seen[t] = {}

SeenIsWritten ==
  NoOverlap => \A t \in Threads : InSession(t) =>
    \A a \in DOMAIN seen[t] : seen[t][a] = written[a] \/ a \in around[t]

SharedInv ==
  BusInv /\ STypeOK /\ AtAStep /\ Exclusion /\ LookupFresh /\ PoisonTrail
    /\ SessionHoldsCpu /\ SeenIsWritten

----------------------------------------------------------------------------
(* Through all the locks the bus is the atomic one of Bus.tla: every       *)
(* access takes place at one moment, whatever the others do meanwhile.     *)
ImplementsBus == Spec

(* Once the bus is poisoned nothing changes in memory or in its mapping    *)
(* any more.                                                               *)
FrozenOncePoisoned ==
  []["bus" \in poisoned => UNCHANGED <<memory_map, order, cells>>]_svars

(* What a session has read or written so far is what the bus answers now:  *)
(* its words are not torn and its read-modify-writes lose no update of     *)
(* another thread, but for the addresses that were mapped meanwhile, or    *)
(* written around the CPU's mutex (and for overlapping regions).           *)
SessionSeesMemory ==
  NoOverlap => \A t \in Threads : InSession(t) =>
    \A a \in DOMAIN seen[t] : seen[t][a] = MemRead(a) \/ a \in around[t]

(* A handler that locks the CPU which its own thread has locked.           *)
Relocks(t) == at[t] = "cpu" /\ t \in held["cpu"]

(* The lock a thread waits for, and whether it gets it: whatever else it   *)
(* is about to do, nobody else stops it.                                   *)
Wanted(t) == IF at[t] = "controller" THEN memory_map[found[t]] ELSE at[t]

Ready(t) ==
  /\ at[t] \in Working
  /\ at[t] \in {"cpu", "bus", "controller"} =>
       CanLock(Wanted(t), at[t] = "cpu" \/ Exclusive(t))

(* There is no deadlock: somebody can go on as long as anybody is at work, *)
(* but for those that wait for a CPU which its own handler locks again.    *)
NoDeadlock ==
  \/ \E t \in Threads : Ready(t)
  \/ \A t \in Threads : at[t] \in Working =>
       at[t] = "cpu" /\ \E u \in Threads : Relocks(u)

(* Every thread comes to its end, by its last job or by a panic: the locks *)
(* are taken in one order, so none waits for ever.  The exception is a     *)
(* handler that locks the CPU it runs under, and who waits for that CPU.   *)
EveryoneFinishes ==
  \A t \in Threads :
    <>(\/ at[t] \in {"finished", "dead"}
       \/ at[t] = "cpu" /\ \E u \in Threads : Relocks(u))
=============================================================================
