-------------------------- MODULE SharedBusProofs --------------------------
(***************************************************************************)
(* What the locks of the bus and the CPU keep for any number of threads,   *)
(* any jobs they may have, and every address space, set of controllers and *)
(* set of regions: the bus they share is the atomic one of Bus.tla, a      *)
(* panic stops all access to it, and a session sees a memory that nobody   *)
(* else changes through the CPU.                                           *)
(***************************************************************************)
EXTENDS SharedBus, BusProofs

(* A remainder is less than its modulus.                                   *)
LEMMA ModRange ==
  ASSUME NEW n \in Nat \ {0}, NEW a \in Nat PROVE a % n \in 0 .. n - 1
  OBVIOUS

(* There are bytes.                                                        *)
LEMMA BytesExist == ByteSpace \in Nat \ {0} /\ Data = 0 .. ByteSpace - 1
  BY ByteAssumption, DataAssumption

(* A thread that is at work is at a step of a job.                         *)
LEMMA StepType ==
  ASSUME STypeOK, AtAStep, NEW t \in Threads, at[t] \in Working
  PROVE  /\ TheJob(t) \in Jobs /\ todo[t] \in Seq(Jobs) /\ todo[t] # << >>
         /\ TheStep(t) \in Step
         /\ TheStep(t).addr \in Addr
         /\ TheStep(t).kind = "map" => TheStep(t).mapping \in Regions \X Controllers
<1>1. todo[t] \in Seq(Jobs) /\ todo[t] # << >> /\ done[t] \in Nat
      /\ done[t] < Len(TheJob(t).steps)
  BY DEF STypeOK, AtAStep
<1>2. TheJob(t) \in Jobs
  BY <1>1 DEF TheJob
<1>3. /\ TheJob(t).steps \in Seq(Step)
      /\ \A i \in DOMAIN TheJob(t).steps :
           TheJob(t).steps[i].kind = "map" => TheJob(t).steps[i].mapping # None
  BY <1>2 DEF Jobs
<1>4. done[t] + 1 \in DOMAIN TheJob(t).steps
  BY <1>1, <1>3
<1>5. TheStep(t) \in Step /\ (TheStep(t).kind = "map" => TheStep(t).mapping # None)
  BY <1>3, <1>4 DEF TheStep
<1>6. QED
  BY <1>1, <1>2, <1>5 DEF Step

(* The lookup of an address gives a region, or None.                       *)
LEMMA PlaceType ==
  ASSUME BusInv, NEW a \in Addr PROVE GetRegionPlace(a) \in {None} \cup Regions
  BY RegionPlace DEF BusInv, TypeOK

(* Without overlapping regions an address reads as what was written to it, *)
(* 0 if no region covers it.                                               *)
LEMMA ReadsWritten ==
  ASSUME BusInv, NoOverlap, NEW a \in Addr PROVE MemRead(a) = written[a]
<1>1. CASE GetRegionPlace(a) = None
  BY <1>1, RegionPlace DEF BusInv, MemRead, Untouched
<1>2. CASE GetRegionPlace(a) # None
  BY <1>2, RegionPlace DEF BusInv, MemRead, Held
<1>3. QED
  BY <1>1, <1>2

----------------------------------------------------------------------------
(* The atomic bus.                                                         *)

(* What a thread writes is a byte.                                         *)
LEMMA OperandType ==
  ASSUME STypeOK, AtAStep, NEW t \in Threads, at[t] \in Working
  PROVE  Operand(t) \in Data
<1>1. TheStep(t).data \in Data
  BY StepType DEF Step
<1>2. ASSUME TheStep(t).addr \in DOMAIN seen[t]
      PROVE  (seen[t][TheStep(t).addr] + 1) % ByteSpace \in Data
  <2>1. seen[t][TheStep(t).addr] \in Data
    BY <1>2 DEF STypeOK
  <2>2. ByteSpace \in Nat \ {0} /\ seen[t][TheStep(t).addr] + 1 \in Nat
    BY <2>1, BytesExist
  <2>3. (seen[t][TheStep(t).addr] + 1) % ByteSpace \in 0 .. ByteSpace - 1
    BY <2>2, ModRange
  <2>4. QED
    BY <2>3, BytesExist
<1>3. QED
  BY <1>1, <1>2, BytesExist DEF Operand

(* A write under its locks is the write of the atomic bus: the region the  *)
(* lookup found is still the one the bus gives.                            *)
LEMMA WriteIsAtomic ==
  ASSUME SharedInv, NEW t \in Threads, Write(t)
  PROVE  MemWrite(TheStep(t).addr, Operand(t))
<1>1. found[t] = GetRegionPlace(TheStep(t).addr)
  BY DEF SharedInv, LookupFresh, Write, Accesses
<1>2. QED
  BY <1>1 DEF Write, MemWrite

(* Every step of a thread is a step of the atomic bus, or none.            *)
LEMMA StepIsAtomic ==
  ASSUME SharedInv, NEW t \in Threads, ThreadStep(t)
  PROVE  [Next]_vars
<1>1. CASE Write(t)
  <2>1. at[t] \in Working
    BY <1>1 DEF Write, Accesses, Working, Stage
  <2>2. TheStep(t).addr \in Addr /\ Operand(t) \in Data
    BY <2>1, StepType, OperandType DEF SharedInv
  <2>3. QED
    BY <1>1, <2>2, WriteIsAtomic DEF Next
<1>2. CASE Map(t)
  <2>1. at[t] \in Working /\ TheStep(t).kind = "map"
    BY <1>2 DEF Map, Accesses, Working, Stage
  <2>2. TheStep(t).mapping \in Regions \X Controllers
    BY <2>1, StepType DEF SharedInv
  <2>3. TheStep(t).mapping[1] \in Regions /\ TheStep(t).mapping[2] \in Controllers
    BY <2>2
  <2>4. QED
    BY <1>2, <2>3 DEF Map, Next
<1>3. CASE Conflict(t)
  BY <1>3 DEF Conflict, MapConflict
<1>4. CASE LockCpu(t) \/ LockBus(t) \/ LockController(t)
  BY <1>4 DEF LockCpu, LockBus, LockController
<1>5. CASE Read(t) \/ WriteUnmapped(t) \/ Refuse(t) \/ SumPanic(t)
  BY <1>5 DEF Read, WriteUnmapped, Refuse, SumPanic
<1>6. CASE NextStep(t) \/ NextJob(t) \/ Unwind(t) \/ Die(t)
  BY <1>6 DEF NextStep, NextJob, Unwind, Die
<1>7. QED
  BY <1>1, <1>2, <1>3, <1>4, <1>5, <1>6 DEF ThreadStep

----------------------------------------------------------------------------
(* The invariant.                                                          *)

(* The first stage of a job.                                               *)
LEMMA EntryStage ==
  ASSUME NEW jobs \in Seq(Jobs)
  PROVE  /\ FirstEntry(jobs) \in {"cpu", "bus", "sum", "finished"}
         /\ FirstEntry(jobs) = "finished" <=> jobs = << >>
         /\ FirstEntry(jobs) # "finished" => 0 < Len(Head(jobs).steps)
         /\ jobs # << >> /\ Head(jobs).session => FirstEntry(jobs) \in {"cpu", "sum"}
<1>1. CASE jobs = << >>
  BY <1>1 DEF FirstEntry
<1>2. CASE jobs # << >>
  <2>1. Head(jobs) \in Jobs
    BY <1>2
  <2>2. Head(jobs).steps \in Seq(Step) /\ Head(jobs).steps # << >>
    BY <2>1 DEF Jobs
  <2>3. 0 < Len(Head(jobs).steps)
    BY <2>2
  <2>4. QED
    BY <1>2, <2>3 DEF FirstEntry, Entry
<1>3. QED
  BY <1>1, <1>2

(* Before any thread has done anything the invariant holds.                *)
LEMMA SInitInv == SInit => SharedInv
<1> SUFFICES ASSUME SInit PROVE SharedInv
  OBVIOUS
<1>1. BusInv
  BY InitInv DEF SInit
<1>2. todo \in [Threads -> Seq(Jobs)]
  BY ProgramsAssumption DEF SInit
<1>3. \A t \in Threads :
        /\ at[t] \in {"cpu", "bus", "sum", "finished"}
        /\ at[t] = "finished" <=> todo[t] = << >>
        /\ at[t] # "finished" => 0 < Len(TheJob(t).steps)
        /\ todo[t] # << >> /\ TheJob(t).session => at[t] \in {"cpu", "sum"}
  BY <1>2, EntryStage DEF SInit, TheJob
<1>4. STypeOK
  BY <1>2, <1>3 DEF SInit, STypeOK, Stage
<1>5. AtAStep
  BY <1>3 DEF SInit, AtAStep, Working, OnBus, Stage, Lock
<1>6. Exclusion /\ PoisonTrail
  BY DEF SInit, Exclusion, PoisonTrail, Lock
<1>7. LookupFresh
  BY <1>3 DEF LookupFresh
<1>8. SessionHoldsCpu /\ SeenIsWritten
  BY <1>3 DEF SInit, SessionHoldsCpu, SeenIsWritten, InSession
<1>9. QED
  BY <1>1, <1>4, <1>5, <1>6, <1>7, <1>8 DEF SharedInv

(* A step that leaves the order of iteration alone changes no lookup.      *)
LEMMA PlaceStays ==
  ASSUME UNCHANGED order, NEW a PROVE GetRegionPlace(a)' = GetRegionPlace(a)
  BY DEF GetRegionPlace, First, Covers

(* The bus keeps its own invariant: it only takes steps of its own.        *)
LEMMA StepKeepsBus ==
  ASSUME SharedInv, NEW t \in Threads, ThreadStep(t) PROVE BusInv'
  BY StepIsAtomic, NextInv DEF SharedInv

(* A thread whose jobs and progress stay is at the same step.              *)
LEMMA SameStep ==
  ASSUME UNCHANGED <<todo, done>>, NEW t
  PROVE  /\ TheJob(t)' = TheJob(t)
         /\ TheStep(t)' = TheStep(t)
         /\ Exclusive(t)' = Exclusive(t)
  BY DEF TheJob, TheStep, Exclusive

(* The locks are different things.                                         *)
LEMMA Locks ==
  /\ "cpu" \in Lock /\ "bus" \in Lock
  /\ \A c \in Controllers : c \in Lock /\ c # "cpu" /\ c # "bus"
  /\ \A l \in Lock : l \in Controllers \/ l = "cpu" \/ l = "bus"
  BY LockAssumption DEF Lock

(* The types of what the steps change.                                     *)
LEMMA Types ==
  ASSUME SharedInv
  PROVE  /\ at \in [Threads -> Stage] /\ held \in [Lock -> SUBSET Threads]
         /\ found \in [Threads -> {None} \cup Regions]
         /\ around \in [Threads -> SUBSET Addr] /\ poisoned \subseteq Lock
         /\ todo \in [Threads -> Seq(Jobs)] /\ done \in [Threads -> Nat]
  BY DEF SharedInv, STypeOK

(* Locking the CPU, or finding it poisoned, preserves the invariant.       *)
LEMMA LockCpuInv ==
  ASSUME SharedInv, NEW t \in Threads, LockCpu(t)
  PROVE  SharedInv'
<1>1. /\ UNCHANGED <<todo, done, found, poisoned, seen, memory_map, order, written>>
      /\ at[t] = "cpu" /\ held["cpu"] = {}
      /\ around' = [around EXCEPT ![t] = {}]
      /\ \/ /\ at' = [at EXCEPT ![t] = "unwinding"]
            /\ held' = held
         \/ /\ at' = [at EXCEPT ![t] = "bus"]
            /\ held' = [held EXCEPT !["cpu"] = @ \cup {t}]
  BY DEF LockCpu, CanLock, Unwrap, Take, Go, vars, history
<1>2. \A u : TheJob(u)' = TheJob(u) /\ TheStep(u)' = TheStep(u) /\ Exclusive(u)' = Exclusive(u)
  BY <1>1, SameStep
<1>3. at' \in [Threads -> Stage]
  BY <1>1, Types DEF Stage
<1>31. held' \in [Lock -> SUBSET Threads] /\ around' \in [Threads -> SUBSET Addr]
  BY <1>1, Types, Locks
<1>32. held'["bus"] = held["bus"] /\ \A c \in Controllers : held'[c] = held[c]
  BY <1>1, Types, Locks
<1>4. BusInv'
  BY StepKeepsBus DEF ThreadStep
<1>5. STypeOK'
  BY <1>1, <1>3, <1>31 DEF SharedInv, STypeOK
<1>6. AtAStep'
  BY <1>1, <1>2, <1>32 DEF SharedInv, STypeOK, AtAStep, Working, OnBus, Stage
<1>7. Exclusion'
  BY <1>1, <1>2, <1>32 DEF SharedInv, STypeOK, Exclusion
<1>8. LookupFresh'
  BY <1>1, <1>2, PlaceStays DEF SharedInv, STypeOK, LookupFresh, Accesses
<1>9. PoisonTrail'
  <2>0. PoisonTrail /\ AtAStep
    BY DEF SharedInv
  <2>1. \A u \in held["bus"] : u # t
    BY <1>1, <2>0, Types, Locks DEF AtAStep, OnBus
  <2>2. \A u \in held["bus"] : at'[u] = at[u]
    BY <1>1, <2>1, Types, Locks
  <2>3. QED
    BY <1>1, <1>2, <1>32, <2>0, <2>1, <2>2 DEF PoisonTrail
<1>10. SessionHoldsCpu'
  <2>1. ASSUME NEW u \in Threads, u # t, InSession(u)', u \notin held["cpu"]'
        PROVE  InSession(u) /\ u \notin held["cpu"] /\ at'[u] = at[u]
    BY <1>1, <1>2, <2>1, Types DEF InSession
  <2>2. InSession(t)' => t \in held'["cpu"]
    BY <1>1, <1>2, Types, Locks DEF InSession
  <2>3. QED
    BY <1>1, <2>1, <2>2 DEF SharedInv, SessionHoldsCpu
<1>11. SeenIsWritten'
  <2>1. ASSUME NEW u \in Threads, InSession(u)' PROVE InSession(u)
    BY <1>1, <1>2, <2>1 DEF InSession, SharedInv, STypeOK
  <2>2. InSession(t) => DOMAIN seen[t] = {}
    BY <1>1 DEF SharedInv, SessionHoldsCpu
  <2>3. NoOverlap' = NoOverlap
    BY <1>1 DEF NoOverlap, Keys, Covers
  <2>4. QED
    BY <1>1, <2>1, <2>2, <2>3 DEF SharedInv, STypeOK, SeenIsWritten
<1>12. QED
  BY <1>4, <1>5, <1>6, <1>7, <1>8, <1>9, <1>10, <1>11 DEF SharedInv

(* Locking the bus, with the lookup, or finding it poisoned.               *)
LEMMA LockBusInv ==
  ASSUME SharedInv, NEW t \in Threads, LockBus(t)
  PROVE  SharedInv'
<1>1. /\ UNCHANGED <<todo, done, poisoned, seen, around, memory_map, order, mapped, written>>
      /\ at[t] = "bus" /\ CanLock("bus", Exclusive(t))
  BY DEF LockBus, vars, history
<1>2. \A u : TheJob(u)' = TheJob(u) /\ TheStep(u)' = TheStep(u) /\ Exclusive(u)' = Exclusive(u)
  BY <1>1, SameStep
<1> DEFINE a == TheStep(t).addr
           place == GetRegionPlace(a)
<1>3. \/ /\ "bus" \in poisoned
         /\ at' = [at EXCEPT ![t] = "unwinding"] /\ UNCHANGED <<held, found>>
      \/ /\ "bus" \notin poisoned
         /\ held' = [held EXCEPT !["bus"] = @ \cup {t}]
         /\ \/ /\ TheStep(t).kind = "map"
               /\ at' = [at EXCEPT ![t] = "access"] /\ found' = found
            \/ /\ TheStep(t).kind # "map"
               /\ found' = [found EXCEPT ![t] = place]
               /\ at' = [at EXCEPT ![t] = IF place = None THEN "access" ELSE "controller"]
  BY DEF LockBus, Unwrap, Take, Go, LookUp
<1>4. at[t] \in Working /\ a \in Addr /\ place \in {None} \cup Regions
  <2>1. at[t] \in Working
    BY <1>1 DEF Working, Stage
  <2>2. QED
    BY <2>1, StepType, PlaceType DEF SharedInv
<1> HIDE DEF a, place
<1>5. /\ at' \in [Threads -> Stage] /\ found' \in [Threads -> {None} \cup Regions]
      /\ held' \in [Lock -> SUBSET Threads]
  <2>1. at' \in [Threads -> Stage]
    BY <1>3, Types DEF Stage
  <2>2. found' \in [Threads -> {None} \cup Regions]
    BY <1>3, <1>4, Types
  <2>3. held' = held \/ held' = [held EXCEPT !["bus"] = @ \cup {t}]
    BY <1>3
  <2>4. held' \in [Lock -> SUBSET Threads]
    <3>1. held \in [Lock -> SUBSET Threads] /\ "bus" \in Lock
      BY Types, Locks
    <3>2. held["bus"] \cup {t} \in SUBSET Threads
      BY <3>1
    <3>3. QED
      BY <2>3, <3>1, <3>2
  <2>5. QED
    BY <2>1, <2>2, <2>4
<1>6. /\ held'["cpu"] = held["cpu"] /\ \A c \in Controllers : held'[c] = held[c]
      /\ t \notin held["bus"]
      /\ \A u \in Threads : u # t => at'[u] = at[u] /\ found'[u] = found[u]
                                   /\ (u \in held'["bus"] <=> u \in held["bus"])
  <2>1. held'["cpu"] = held["cpu"] /\ \A c \in Controllers : held'[c] = held[c]
    BY <1>3, Types, Locks
  <2>2. t \notin held["bus"]
    BY <1>1 DEF SharedInv, AtAStep, OnBus
  <2>3. \A u \in Threads : u # t => at'[u] = at[u] /\ found'[u] = found[u]
    BY <1>3, Types
  <2>4. \A u \in Threads : u # t => (u \in held'["bus"] <=> u \in held["bus"])
    BY <1>3, Types, Locks
  <2>5. QED
    BY <2>1, <2>2, <2>3, <2>4
<1>7. \/ at'[t] = "unwinding" /\ held' = held /\ "bus" \in poisoned
      \/ /\ at'[t] \in {"controller", "access"} /\ "bus" \notin poisoned
         /\ held'["bus"] = held["bus"] \cup {t}
         /\ TheStep(t).kind # "map" =>
              found'[t] = place /\ (at'[t] = "controller" => place # None)
         /\ TheStep(t).kind = "map" => at'[t] = "access"
  BY <1>3, Types, Locks
<1>8. BusInv'
  BY StepKeepsBus DEF ThreadStep
<1>9. STypeOK'
  BY <1>1, <1>5 DEF SharedInv, STypeOK
<1>10. AtAStep'
  <2>1. AtAStep
    BY DEF SharedInv
  <2>2. QED
    BY <1>1, <1>2, <1>4, <1>6, <1>7, <2>1 DEF AtAStep, Working, OnBus, Stage
<1>11. Exclusion'
  BY <1>1, <1>2, <1>6, <1>7, Types, Locks DEF SharedInv, Exclusion, CanLock
<1>12. LookupFresh'
  <2>1. LookupFresh
    BY DEF SharedInv
  <2>2. QED
    BY <1>1, <1>2, <1>6, <1>7, <2>1, PlaceStays DEF LookupFresh, Accesses, a, place
<1>13. PoisonTrail'
  <2>1. PoisonTrail /\ \A u \in held["bus"] : at'[u] = at[u]
    BY <1>6, Types, Locks DEF SharedInv
  <2>2. QED
    BY <1>1, <1>2, <1>6, <1>7, <2>1 DEF PoisonTrail
<1>14. SessionHoldsCpu'
  BY <1>1, <1>2, <1>6, <1>7 DEF SharedInv, SessionHoldsCpu, InSession
<1>15. SeenIsWritten'
  BY <1>1, <1>2, <1>6 DEF SharedInv, SeenIsWritten, InSession, NoOverlap, Keys, Covers
<1>16. QED
  BY <1>8, <1>9, <1>10, <1>11, <1>12, <1>13, <1>14, <1>15 DEF SharedInv

(* Locking the controller of the region that was found.                    *)
LEMMA LockControllerInv ==
  ASSUME SharedInv, NEW t \in Threads, LockController(t)
  PROVE  SharedInv'
<1> DEFINE c == memory_map[found[t]]
<1>1. /\ UNCHANGED <<todo, done, found, poisoned, seen, around, memory_map, order, mapped, written>>
      /\ at[t] = "controller"
      /\ \/ at' = [at EXCEPT ![t] = "unwinding"] /\ held' = held
         \/ /\ at' = [at EXCEPT ![t] = "access"]
            /\ held' = [held EXCEPT ![c] = @ \cup {t}]
  BY DEF LockController, Unwrap, Take, Go, vars, history
<1>2. \A u : TheJob(u)' = TheJob(u) /\ TheStep(u)' = TheStep(u) /\ Exclusive(u)' = Exclusive(u)
  BY <1>1, SameStep
<1>3. c \in Controllers
  <2>1. found[t] # None /\ found[t] = GetRegionPlace(TheStep(t).addr)
    BY <1>1 DEF SharedInv, LookupFresh, Accesses
  <2>2. TheStep(t).addr \in Addr
    BY <1>1, StepType DEF SharedInv, Working, Stage
  <2>3. found[t] \in Keys
    BY <2>1, <2>2, RegionPlace DEF SharedInv, BusInv
  <2>4. QED
    BY <2>3 DEF SharedInv, BusInv, TypeOK
<1>4. t \in held["bus"]
  BY <1>1 DEF SharedInv, AtAStep, OnBus
<1> HIDE DEF c
<1>5. at' \in [Threads -> Stage] /\ held' \in [Lock -> SUBSET Threads]
  <2>1. at' \in [Threads -> Stage]
    BY <1>1, Types DEF Stage
  <2>2. held \in [Lock -> SUBSET Threads] /\ c \in Lock
    BY <1>3, Types, Locks
  <2>3. held[c] \cup {t} \in SUBSET Threads
    BY <2>2
  <2>4. QED
    BY <1>1, <2>1, <2>2, <2>3
<1>6. /\ held'["cpu"] = held["cpu"] /\ held'["bus"] = held["bus"]
      /\ \A d \in Controllers : held'[d] \subseteq held[d] \cup {t}
      /\ at'[t] \in {"access", "unwinding"}
      /\ \A u \in Threads : u # t => at'[u] = at[u]
  BY <1>1, <1>3, Types, Locks
<1>7. BusInv'
  BY StepKeepsBus DEF ThreadStep
<1>8. STypeOK'
  BY <1>1, <1>5 DEF SharedInv, STypeOK
<1>9. AtAStep'
  BY <1>1, <1>2, <1>4, <1>6 DEF SharedInv, AtAStep, Working, OnBus, Stage
<1>10. Exclusion'
  BY <1>1, <1>2, <1>6 DEF SharedInv, Exclusion
<1>11. LookupFresh'
  BY <1>1, <1>2, <1>6, PlaceStays DEF SharedInv, LookupFresh, Accesses
<1>12. PoisonTrail'
  <2>1. PoisonTrail
    BY DEF SharedInv
  <2>2. \A u \in held["bus"] : at[u] = "unwinding" => at'[u] = at[u]
    BY <1>1, <1>6, Types, Locks
  <2>3. /\ \A d \in Controllers : held'[d] \subseteq held'["bus"]
        /\ "bus" \in poisoned => held'["bus"] = {}
    BY <1>4, <1>6, <2>1 DEF PoisonTrail
  <2>4. QED
    BY <1>1, <1>2, <1>6, <2>1, <2>2, <2>3 DEF PoisonTrail
<1>13. SessionHoldsCpu'
  BY <1>1, <1>2, <1>6 DEF SharedInv, SessionHoldsCpu, InSession
<1>14. SeenIsWritten'
  BY <1>1, <1>2, <1>6 DEF SharedInv, SeenIsWritten, InSession, NoOverlap, Keys, Covers
<1>15. QED
  BY <1>7, <1>8, <1>9, <1>10, <1>11, <1>12, <1>13, <1>14 DEF SharedInv

(* An access, done or refused, leaves the locks as they are.  A lookup of  *)
(* another thread stays what it was: only a mapping changes the order of   *)
(* iteration, and nobody else holds the bus then.                          *)
LEMMA AccessKeeps ==
  ASSUME SharedInv, NEW t \in Threads, NEW s \in {"leave", "unwinding"},
         at[t] = "access" \/ (at[t] = "sum" /\ s = "unwinding"),
         at' = [at EXCEPT ![t] = s],
         UNCHANGED <<todo, done, found, held, poisoned>>,
         UNCHANGED order \/ (at[t] = "access" /\ Exclusive(t)),
         \A u \in Threads : u # t => seen'[u] = seen[u]
  PROVE  /\ at' \in [Threads -> Stage]
         /\ AtAStep' /\ Exclusion' /\ LookupFresh' /\ PoisonTrail' /\ SessionHoldsCpu'
         /\ \A u \in Threads : InSession(u)' => InSession(u)
<1>1. \A u : TheJob(u)' = TheJob(u) /\ TheStep(u)' = TheStep(u) /\ Exclusive(u)' = Exclusive(u)
  BY SameStep
<1>2. /\ at' \in [Threads -> Stage] /\ at'[t] = s
      /\ \A u \in Threads : u # t => at'[u] = at[u]
  BY Types DEF Stage
<1>3. AtAStep'
  BY <1>1, <1>2 DEF SharedInv, AtAStep, Working, OnBus, Stage
<1>4. Exclusion'
  BY <1>1 DEF SharedInv, Exclusion
<1>5. LookupFresh'
  <2>1. CASE UNCHANGED order
    BY <1>1, <1>2, <2>1, PlaceStays DEF SharedInv, LookupFresh, Accesses
  <2>2. CASE at[t] = "access" /\ Exclusive(t)
    <3>1. t \in held["bus"]
      BY <2>2 DEF SharedInv, AtAStep, OnBus
    <3>2. \A u \in Threads : u # t => at[u] \notin OnBus
      BY <2>2, <3>1 DEF SharedInv, AtAStep, Exclusion
    <3>3. QED
      BY <1>2, <3>2 DEF LookupFresh, OnBus
  <2>3. QED
    BY <2>1, <2>2
<1>6. PoisonTrail'
  <2>1. PoisonTrail /\ \A u \in held["bus"] : at[u] = "unwinding" => at'[u] = at[u]
    BY <1>2, Types, Locks DEF SharedInv
  <2>2. QED
    BY <1>1, <2>1 DEF PoisonTrail
<1>7. \A u \in Threads : InSession(u)' => InSession(u) /\ (u = t => at[t] = "access")
  BY <1>1, <1>2 DEF InSession
<1>8. SessionHoldsCpu'
  <2>1. SessionHoldsCpu
    BY DEF SharedInv
  <2>2. ASSUME NEW u \in Threads, InSession(u)', u \notin held'["cpu"]
        PROVE  at'[u] \in {"cpu", "sum"} /\ DOMAIN seen'[u] = {}
    <3>1. at[u] \in {"cpu", "sum"} /\ DOMAIN seen[u] = {}
      BY <1>7, <2>1, <2>2 DEF SessionHoldsCpu
    <3>2. u # t
      BY <1>7, <2>2, <3>1
    <3>3. QED
      BY <1>2, <3>1, <3>2
  <2>3. QED
    BY <2>2 DEF SessionHoldsCpu
<1>9. QED
  BY <1>2, <1>3, <1>4, <1>5, <1>6, <1>7, <1>8

(* What a step that leaves memory and history alone keeps.                 *)
LEMMA HistoryKeeps ==
  ASSUME SharedInv, UNCHANGED <<vars, seen, around>>,
         \A u \in Threads : InSession(u)' => InSession(u)
  PROVE  SeenIsWritten'
  BY DEF SharedInv, SeenIsWritten, NoOverlap, Keys, Covers, vars, history

(* Accesses that change nothing in memory and note nothing.                *)
LEMMA OtherAccessInv ==
  ASSUME SharedInv, NEW t \in Threads,
         WriteUnmapped(t) \/ Refuse(t) \/ Conflict(t) \/ SumPanic(t)
  PROVE  SharedInv'
<1>1. /\ UNCHANGED <<todo, done, found, held, poisoned, seen, around, vars>>
      /\ \E s \in {"leave", "unwinding"} :
           /\ at' = [at EXCEPT ![t] = s]
           /\ at[t] = "access" \/ (at[t] = "sum" /\ s = "unwinding")
  BY DEF WriteUnmapped, Refuse, Conflict, MapConflict, SumPanic, Accesses, Go
<1>2. /\ at' \in [Threads -> Stage]
      /\ AtAStep' /\ Exclusion' /\ LookupFresh' /\ PoisonTrail' /\ SessionHoldsCpu'
      /\ \A u \in Threads : InSession(u)' => InSession(u)
  BY <1>1, AccessKeeps DEF vars
<1>3. BusInv'
  BY StepKeepsBus DEF ThreadStep
<1>4. STypeOK'
  BY <1>1, <1>2 DEF SharedInv, STypeOK
<1>5. SeenIsWritten'
  BY <1>1, <1>2, HistoryKeeps
<1>6. QED
  BY <1>2, <1>3, <1>4, <1>5 DEF SharedInv

(* What a note changes.                                                    *)
LEMMA NoteType ==
  ASSUME STypeOK, NEW t \in Threads, NEW a \in Addr, NEW d \in Data, Note(t, a, d)
  PROVE  /\ DOMAIN seen' = Threads
         /\ \A u \in Threads : u # t => seen'[u] = seen[u]
         /\ DOMAIN seen'[t] = DOMAIN seen[t] \cup {a}
         /\ seen'[t][a] = d
         /\ \A b \in DOMAIN seen[t] : b # a => seen'[t][b] = seen[t][b]
         /\ \A u \in Threads : /\ DOMAIN seen'[u] \subseteq Addr
                               /\ \A b \in DOMAIN seen'[u] : seen'[u][b] \in Data
<1>1. DOMAIN seen = Threads
  BY DEF STypeOK
<1>2. seen'[t] = [b \in DOMAIN seen[t] \cup {a} |-> IF b = a THEN d ELSE seen[t][b]]
  BY <1>1 DEF Note
<1>3. DOMAIN seen' = Threads /\ \A u \in Threads : u # t => seen'[u] = seen[u]
  BY <1>1 DEF Note
<1>4. \A u \in Threads : /\ DOMAIN seen[u] \subseteq Addr
                         /\ \A b \in DOMAIN seen[u] : seen[u][b] \in Data
  BY DEF STypeOK
<1>5. /\ DOMAIN seen'[t] = DOMAIN seen[t] \cup {a} /\ seen'[t][a] = d
      /\ \A b \in DOMAIN seen[t] : b # a => seen'[t][b] = seen[t][b]
  BY <1>2
<1>6. \A b \in DOMAIN seen'[t] : seen'[t][b] \in Data
  BY <1>4, <1>5
<1>7. QED
  BY <1>3, <1>4, <1>5, <1>6

(* A read notes what was last written.                                     *)
LEMMA ReadInv ==
  ASSUME SharedInv, NEW t \in Threads, Read(t)
  PROVE  SharedInv'
<1> DEFINE a == TheStep(t).addr
<1>1. /\ UNCHANGED <<vars, todo, done, found, held, poisoned, around>>
      /\ at[t] = "access" /\ TheStep(t).kind = "read"
      /\ at' = [at EXCEPT ![t] = "leave"] /\ Note(t, a, Answer(t))
  BY DEF Read, Accesses, Go
<1>2. a \in Addr
  BY <1>1, StepType DEF SharedInv, Working, Stage
<1>3. Answer(t) = MemRead(a)
  BY <1>1 DEF SharedInv, LookupFresh, Accesses, Answer, MemRead
<1>4. Answer(t) \in Data
  <2>1. GetRegionPlace(a) # None => memory_map[GetRegionPlace(a)] \in Controllers
    BY <1>2, RegionPlace DEF SharedInv, BusInv, TypeOK
  <2>2. MemRead(a) \in Data
    BY <1>2, <2>1, DataAssumption DEF SharedInv, BusInv, TypeOK, MemRead
  <2>3. QED
    BY <1>3, <2>2
<1> HIDE DEF a
<1>5. /\ DOMAIN seen' = Threads
      /\ \A u \in Threads : u # t => seen'[u] = seen[u]
      /\ DOMAIN seen'[t] = DOMAIN seen[t] \cup {a}
      /\ seen'[t][a] = Answer(t)
      /\ \A b \in DOMAIN seen[t] : b # a => seen'[t][b] = seen[t][b]
      /\ \A u \in Threads : /\ DOMAIN seen'[u] \subseteq Addr
                            /\ \A b \in DOMAIN seen'[u] : seen'[u][b] \in Data
  BY <1>1, <1>2, <1>4, NoteType DEF SharedInv
<1>6. /\ at' \in [Threads -> Stage]
      /\ AtAStep' /\ Exclusion' /\ LookupFresh' /\ PoisonTrail' /\ SessionHoldsCpu'
      /\ \A u \in Threads : InSession(u)' => InSession(u)
  BY <1>1, <1>5, AccessKeeps DEF vars
<1>7. BusInv'
  BY StepKeepsBus DEF ThreadStep
<1>8. STypeOK'
  BY <1>1, <1>5, <1>6 DEF SharedInv, STypeOK
<1>9. SeenIsWritten'
  <2>1. NoOverlap' = NoOverlap /\ written' = written
    BY <1>1 DEF NoOverlap, Keys, Covers, vars, history
  <2>2. NoOverlap => Answer(t) = written[a]
    BY <1>2, <1>3, ReadsWritten DEF SharedInv
  <2>3. QED
    BY <1>1, <1>5, <1>6, <2>1, <2>2 DEF SharedInv, SeenIsWritten
<1>10. QED
  BY <1>6, <1>7, <1>8, <1>9 DEF SharedInv

(* A write notes what it writes.  Another session has noted nothing of the *)
(* address, or sees it in `around`.                                        *)
LEMMA WriteInvShared ==
  ASSUME SharedInv, NEW t \in Threads, Write(t)
  PROVE  SharedInv'
<1> DEFINE a == TheStep(t).addr
           d == Operand(t)
<1>1. /\ UNCHANGED <<memory_map, order, todo, done, found, held, poisoned>>
      /\ at[t] = "access"
      /\ at' = [at EXCEPT ![t] = "leave"] /\ Note(t, a, d)
      /\ written' = [written EXCEPT ![a] = d]
      /\ IF t \in held["cpu"] THEN UNCHANGED around ELSE Intrude({a})
  BY DEF Write, Accesses, Go
<1>2. a \in Addr /\ d \in Data
  BY <1>1, StepType, OperandType DEF SharedInv, Working, Stage
<1> HIDE DEF a, d
<1>3. /\ DOMAIN seen' = Threads
      /\ \A u \in Threads : u # t => seen'[u] = seen[u]
      /\ DOMAIN seen'[t] = DOMAIN seen[t] \cup {a}
      /\ seen'[t][a] = d
      /\ \A b \in DOMAIN seen[t] : b # a => seen'[t][b] = seen[t][b]
      /\ \A u \in Threads : /\ DOMAIN seen'[u] \subseteq Addr
                            /\ \A b \in DOMAIN seen'[u] : seen'[u][b] \in Data
  BY <1>1, <1>2, NoteType DEF SharedInv
<1>4. /\ at' \in [Threads -> Stage]
      /\ AtAStep' /\ Exclusion' /\ LookupFresh' /\ PoisonTrail' /\ SessionHoldsCpu'
      /\ \A u \in Threads : InSession(u)' => InSession(u)
  BY <1>1, <1>3, AccessKeeps
<1>5. BusInv'
  BY StepKeepsBus DEF ThreadStep
<1>6. around \in [Threads -> SUBSET Addr]
  BY Types
<1>7. /\ around' \in [Threads -> SUBSET Addr]
      /\ \A u \in Threads : around[u] \subseteq around'[u]
      /\ t \notin held["cpu"] => \A u \in Threads : a \in around'[u]
  BY <1>1, <1>2, <1>6 DEF Intrude
<1>8. STypeOK'
  BY <1>1, <1>3, <1>4, <1>7 DEF SharedInv, STypeOK
<1>9. SeenIsWritten'
  <2>1. NoOverlap' = NoOverlap
    BY <1>1 DEF NoOverlap, Keys, Covers
  <2>2. written'[a] = d /\ \A b \in Addr : b # a => written'[b] = written[b]
    BY <1>1, <1>2 DEF SharedInv, BusInv, TypeOK
  <2>3. ASSUME NoOverlap, NEW u \in Threads, InSession(u), u # t, NEW b \in DOMAIN seen[u]
        PROVE  seen[u][b] = written'[b] \/ b \in around'[u]
    <3>1. b \in Addr /\ (seen[u][b] = written[b] \/ b \in around[u])
      BY <2>3 DEF SharedInv, STypeOK, SeenIsWritten
    <3>2. CASE b # a
      BY <1>7, <2>2, <3>1, <3>2
    <3>3. CASE b = a
      <4>1. u \in held["cpu"] \/ DOMAIN seen[u] = {}
        BY <2>3 DEF SharedInv, SessionHoldsCpu
      <4>2. t \notin held["cpu"]
        BY <2>3, <4>1 DEF SharedInv, Exclusion
      <4>3. QED
        BY <1>7, <3>3, <4>2
    <3>4. QED
      BY <3>2, <3>3
  <2>4. ASSUME NoOverlap, InSession(t), NEW b \in DOMAIN seen'[t]
        PROVE  seen'[t][b] = written'[b] \/ b \in around'[t]
    <3>1. CASE b = a
      BY <1>3, <2>2, <3>1
    <3>2. CASE b # a
      <4>1. b \in DOMAIN seen[t] /\ seen'[t][b] = seen[t][b]
        BY <1>3, <3>2
      <4>2. b \in Addr /\ (seen[t][b] = written[b] \/ b \in around[t])
        BY <2>4, <4>1 DEF SharedInv, STypeOK, SeenIsWritten
      <4>3. QED
        BY <1>7, <2>2, <3>2, <4>1, <4>2
    <3>3. QED
      BY <3>1, <3>2
  <2>5. QED
    BY <1>3, <1>4, <2>1, <2>3, <2>4 DEF SeenIsWritten
<1>10. QED
  BY <1>4, <1>5, <1>8, <1>9 DEF SharedInv

(* A mapping happens to all, but in what they saw outside of its region.   *)
LEMMA MapInvShared ==
  ASSUME SharedInv, NEW t \in Threads, Map(t)
  PROVE  SharedInv'
<1> DEFINE r == TheStep(t).mapping[1]
           c == TheStep(t).mapping[2]
<1>1. /\ UNCHANGED <<todo, done, found, held, poisoned, seen, written>>
      /\ at[t] = "access" /\ TheStep(t).kind = "map"
      /\ at' = [at EXCEPT ![t] = "leave"] /\ MapRegion(r, c)
      /\ Intrude({a \in Addr : Covers(r, a)})
  BY DEF Map, Accesses, Go, MapRegion
<1>2. r \in Regions /\ c \in Controllers
  <2>1. TheStep(t).mapping \in Regions \X Controllers
    BY <1>1, StepType DEF SharedInv, Working, Stage
  <2>2. QED
    BY <2>1
<1> HIDE DEF r, c
<1>3. Exclusive(t)
  BY <1>1 DEF Exclusive
<1>4. /\ at' \in [Threads -> Stage]
      /\ AtAStep' /\ Exclusion' /\ LookupFresh' /\ PoisonTrail' /\ SessionHoldsCpu'
      /\ \A u \in Threads : InSession(u)' => InSession(u)
  BY <1>1, <1>3, AccessKeeps
<1>5. BusInv'
  BY StepKeepsBus DEF ThreadStep
<1>6. around \in [Threads -> SUBSET Addr]
  BY Types
<1>7. /\ around' \in [Threads -> SUBSET Addr]
      /\ \A u \in Threads : around[u] \subseteq around'[u]
  BY <1>1, <1>6 DEF Intrude
<1>8. STypeOK'
  BY <1>1, <1>4, <1>7 DEF SharedInv, STypeOK
<1>9. NoOverlap' => NoOverlap
  <2>1. Keys' = Keys \cup {r}
    BY <1>1, <1>2, MapAdds DEF SharedInv
  <2>2. QED
    BY <2>1 DEF NoOverlap, Covers
<1>10. SeenIsWritten'
  BY <1>1, <1>4, <1>7, <1>9 DEF SharedInv, SeenIsWritten
<1>11. QED
  BY <1>4, <1>5, <1>8, <1>10 DEF SharedInv

----------------------------------------------------------------------------
(* Releases.                                                               *)

(* A thread that lets go of the bus, at a moment when it is in no panic,   *)
(* leaves what the others rely on.                                         *)
LEMMA ReleaseKeeps ==
  ASSUME SharedInv, NEW t \in Threads, at[t] = "leave",
         at'[t] \notin {"controller", "access"},
         UNCHANGED <<order, found, poisoned>>,
         held' \in [Lock -> SUBSET Threads],
         \A l \in Lock \ {"cpu"} : held'[l] = held[l] \ {t},
         held'["cpu"] \subseteq held["cpu"],
         \A u \in Threads : u # t =>
           /\ at'[u] = at[u]
           /\ TheJob(u)' = TheJob(u) /\ TheStep(u)' = TheStep(u)
           /\ Exclusive(u)' = Exclusive(u)
  PROVE  Exclusion' /\ LookupFresh' /\ PoisonTrail'
<1>1. held["bus"] \subseteq Threads /\ held'["bus"] = held["bus"] \ {t}
  BY Types, Locks
<1>2. \A c \in Controllers : held'[c] = held[c] \ {t}
  BY Locks
<1>3. Exclusion'
  BY <1>1 DEF SharedInv, Exclusion
<1>4. LookupFresh'
  BY PlaceStays DEF SharedInv, LookupFresh, Accesses
<1>5. PoisonTrail'
  <2>1. PoisonTrail
    BY DEF SharedInv
  <2>2. QED
    BY <1>1, <1>2, <2>1 DEF PoisonTrail
<1>6. QED
  BY <1>3, <1>4, <1>5

(* The end of an access that is not the last of its job.                   *)
LEMMA NextStepInv ==
  ASSUME SharedInv, NEW t \in Threads, NextStep(t)
  PROVE  SharedInv'
<1> DEFINE s == Entry(TheJob(t).steps[done[t] + 2], FALSE)
<1>1. /\ UNCHANGED <<vars, todo, found, poisoned, seen, around>>
      /\ at[t] = "leave" /\ done[t] + 1 < Len(TheJob(t).steps)
      /\ done' = [done EXCEPT ![t] = @ + 1] /\ at' = [at EXCEPT ![t] = s]
      /\ held' = [l \in Lock |-> IF l = "cpu" /\ TheJob(t).session THEN held[l]
                                                                    ELSE held[l] \ {t}]
  BY DEF NextStep, MoreSteps, Go
<1>2. s \in {"sum", "cpu", "bus"}
  BY DEF Entry
<1> HIDE DEF s
<1>3. /\ at' \in [Threads -> Stage] /\ at'[t] = s
      /\ \A u \in Threads : u # t => at'[u] = at[u]
      /\ done' \in [Threads -> Nat] /\ done'[t] = done[t] + 1
      /\ \A u \in Threads : u # t => done'[u] = done[u]
  BY <1>1, <1>2, Types DEF Stage
<1>4. /\ held' \in [Lock -> SUBSET Threads]
      /\ \A l \in Lock \ {"cpu"} : held'[l] = held[l] \ {t}
      /\ held'["cpu"] = IF TheJob(t).session THEN held["cpu"] ELSE held["cpu"] \ {t}
  BY <1>1, Types, Locks
<1>5. \A u \in Threads : TheJob(u)' = TheJob(u)
  BY <1>1 DEF TheJob
<1>6. \A u \in Threads : u # t => TheStep(u)' = TheStep(u) /\ Exclusive(u)' = Exclusive(u)
  BY <1>3, <1>5 DEF TheStep, Exclusive
<1>7. Exclusion' /\ LookupFresh' /\ PoisonTrail'
  <2>1. held'["cpu"] \subseteq held["cpu"] /\ at'[t] \notin {"controller", "access"}
    BY <1>2, <1>3, <1>4
  <2>2. UNCHANGED <<order, found, poisoned>>
    BY <1>1 DEF vars
  <2>3. QED
    BY <1>1, <1>3, <1>4, <1>5, <1>6, <2>1, <2>2, ReleaseKeeps
<1>8. BusInv'
  BY StepKeepsBus DEF ThreadStep
<1>9. STypeOK'
  BY <1>1, <1>3, <1>4 DEF SharedInv, STypeOK
<1>10. AtAStep'
  <2>1. AtAStep /\ held'["bus"] = held["bus"] \ {t}
    BY <1>4, Locks DEF SharedInv
  <2>2. at[t] \in Working /\ todo[t] # << >>
    BY <1>1, <2>1 DEF AtAStep, Working, Stage
  <2>3. QED
    BY <1>1, <1>2, <1>3, <1>5, <2>1, <2>2 DEF AtAStep, Working, OnBus, Stage
<1>11. \A u \in Threads : InSession(u)' => InSession(u)
  BY <1>1, <1>3, <1>5 DEF InSession
<1>12. SessionHoldsCpu'
  <2>1. SessionHoldsCpu
    BY DEF SharedInv
  <2>2. ASSUME NEW u \in Threads, InSession(u)', u \notin held'["cpu"]
        PROVE  u # t /\ u \notin held["cpu"]
    <3>1. InSession(u) /\ TheJob(u).session
      BY <1>5, <1>11, <2>2 DEF InSession
    <3>2. u = t => u \in held'["cpu"]
      BY <1>1, <1>4, <2>1, <3>1 DEF SessionHoldsCpu
    <3>3. QED
      BY <1>4, <2>2, <3>2
  <2>3. QED
    BY <1>1, <1>3, <1>11, <2>1, <2>2 DEF SessionHoldsCpu
<1>13. SeenIsWritten'
  BY <1>1, <1>11, HistoryKeeps
<1>14. QED
  BY <1>7, <1>8, <1>9, <1>10, <1>12, <1>13 DEF SharedInv

(* The end of a job.                                                       *)
LEMMA NextJobInv ==
  ASSUME SharedInv, NEW t \in Threads, NextJob(t)
  PROVE  SharedInv'
<1> DEFINE rest == Tail(todo[t])
<1>1. /\ UNCHANGED <<vars, found, poisoned, around>>
      /\ at[t] = "leave"
      /\ done' = [done EXCEPT ![t] = 0] /\ at' = [at EXCEPT ![t] = FirstEntry(rest)]
      /\ todo' = [todo EXCEPT ![t] = rest]
      /\ held' = [l \in Lock |-> held[l] \ {t}]
      /\ seen' = [seen EXCEPT ![t] = << >>]
  BY DEF NextJob, Go
<1>2. rest \in Seq(Jobs)
  <2>1. todo[t] \in Seq(Jobs) /\ todo[t] # << >>
    BY <1>1, StepType DEF SharedInv, Working, Stage
  <2>2. QED
    BY <2>1
<1>3. /\ FirstEntry(rest) \in {"cpu", "bus", "sum", "finished"}
      /\ FirstEntry(rest) = "finished" <=> rest = << >>
      /\ FirstEntry(rest) # "finished" => 0 < Len(Head(rest).steps)
      /\ rest # << >> /\ Head(rest).session => FirstEntry(rest) \in {"cpu", "sum"}
  BY <1>2, EntryStage
<1> HIDE DEF rest
<1>4. /\ at' \in [Threads -> Stage] /\ at'[t] = FirstEntry(rest)
      /\ todo' \in [Threads -> Seq(Jobs)] /\ todo'[t] = rest
      /\ done' \in [Threads -> Nat] /\ done'[t] = 0
      /\ \A u \in Threads : u # t => /\ at'[u] = at[u] /\ todo'[u] = todo[u]
                                   /\ done'[u] = done[u]
  BY <1>1, <1>2, <1>3, Types DEF Stage
<1>5. /\ DOMAIN seen' = Threads /\ DOMAIN seen'[t] = {}
      /\ \A u \in Threads : u # t => seen'[u] = seen[u]
  BY <1>1 DEF SharedInv, STypeOK
<1>6. /\ held' \in [Lock -> SUBSET Threads]
      /\ \A l \in Lock : held'[l] = held[l] \ {t}
      /\ held'["cpu"] = held["cpu"] \ {t} /\ held'["bus"] = held["bus"] \ {t}
  BY <1>1, Types, Locks
<1>7. \A u \in Threads : u # t => /\ TheJob(u)' = TheJob(u) /\ TheStep(u)' = TheStep(u)
                                 /\ Exclusive(u)' = Exclusive(u)
  BY <1>4 DEF TheJob, TheStep, Exclusive
<1>8. TheJob(t)' = Head(rest)
  BY <1>4 DEF TheJob
<1>9. Exclusion' /\ LookupFresh' /\ PoisonTrail'
  BY <1>1, <1>3, <1>4, <1>6, <1>7, ReleaseKeeps DEF vars
<1>10. BusInv'
  BY StepKeepsBus DEF ThreadStep
<1>11. STypeOK'
  <2>1. \A u \in Threads : /\ DOMAIN seen'[u] \subseteq Addr
                          /\ \A b \in DOMAIN seen'[u] : seen'[u][b] \in Data
    BY <1>5 DEF SharedInv, STypeOK
  <2>2. QED
    BY <1>1, <1>4, <1>5, <1>6, <2>1 DEF SharedInv, STypeOK
<1>12. AtAStep'
  <2>1. AtAStep
    BY DEF SharedInv
  <2>2. ASSUME NEW u \in Threads, u # t
        PROVE  /\ at'[u] \in Working => todo'[u] # << >> /\ done'[u] < Len(TheJob(u)'.steps)
               /\ at'[u] \in OnBus => u \in held'["bus"]
               /\ u \in held'["bus"] => at'[u] \in OnBus \cup {"unwinding"}
               /\ at'[u] = "finished" => todo'[u] = << >>
    BY <1>4, <1>6, <1>7, <2>1, <2>2 DEF AtAStep
  <2>3. /\ at'[t] \in Working => todo'[t] # << >> /\ done'[t] < Len(TheJob(t)'.steps)
        /\ at'[t] \notin OnBus /\ t \notin held'["bus"]
        /\ at'[t] = "finished" => todo'[t] = << >>
    BY <1>3, <1>4, <1>6, <1>8 DEF Working, OnBus, Stage
  <2>4. QED
    BY <2>2, <2>3 DEF AtAStep, Working, OnBus
<1>13. SessionHoldsCpu'
  <2>1. SessionHoldsCpu
    BY DEF SharedInv
  <2>2. \A u \in Threads : u # t /\ InSession(u)' => InSession(u)
    BY <1>4, <1>7 DEF InSession
  <2>3. InSession(t)' => at'[t] \in {"cpu", "sum"}
    BY <1>3, <1>4, <1>8 DEF InSession
  <2>4. QED
    BY <1>4, <1>5, <1>6, <2>1, <2>2, <2>3 DEF SessionHoldsCpu
<1>14. SeenIsWritten'
  <2>1. NoOverlap' = NoOverlap /\ written' = written
    BY <1>1 DEF NoOverlap, Keys, Covers, vars, history
  <2>2. \A u \in Threads : u # t /\ InSession(u)' => InSession(u)
    BY <1>4, <1>7 DEF InSession
  <2>3. QED
    BY <1>1, <1>5, <2>1, <2>2 DEF SharedInv, SeenIsWritten
<1>15. QED
  BY <1>9, <1>10, <1>11, <1>12, <1>13, <1>14 DEF SharedInv

(* The locks that t holds when its panic drops `lock`.                     *)
LEMMA UnwindInv ==
  ASSUME SharedInv, NEW t \in Threads, Unwind(t), at[t] = "unwinding",
         UNCHANGED <<vars, todo, done, at, found, seen, around>>,
         NEW lock \in Lock, t \in held[lock],
         \A l \in Lock : t \in held[l] => lock \notin Outer(l),
         held' = [held EXCEPT ![lock] = @ \ {t}],
         poisoned' = IF lock = "cpu" \/ Exclusive(t) THEN poisoned \cup {lock} ELSE poisoned
  PROVE  SharedInv'
<1>1. \A u : /\ TheJob(u)' = TheJob(u) /\ TheStep(u)' = TheStep(u)
             /\ Exclusive(u)' = Exclusive(u)
  BY SameStep
<1>2. /\ held' \in [Lock -> SUBSET Threads] /\ held'[lock] = held[lock] \ {t}
      /\ \A l \in Lock : l # lock => held'[l] = held[l]
      /\ poisoned' \subseteq Lock
  BY Types
<1>3. /\ held'["cpu"] \subseteq held["cpu"] /\ held'["bus"] \subseteq held["bus"]
      /\ \A u \in Threads : u # t =>
           /\ u \in held["cpu"] => u \in held'["cpu"]
           /\ u \in held["bus"] => u \in held'["bus"]
  BY <1>2, Locks
<1>4. BusInv'
  BY DEF SharedInv, BusInv, TypeOK, Visited, Untouched, Held, InnerMappedFirst, NoOverlap,
         Covered, Covers, Keys, Within, vars, history
<1>5. STypeOK'
  BY <1>2 DEF SharedInv, STypeOK
<1>6. AtAStep'
  BY <1>1, <1>3 DEF SharedInv, AtAStep, Working, OnBus, Stage
<1>7. Exclusion'
  BY <1>1, <1>3 DEF SharedInv, Exclusion
<1>8. LookupFresh'
  BY <1>1, PlaceStays DEF SharedInv, LookupFresh, Accesses, vars
<1>9. PoisonTrail'
  <2>1. PoisonTrail /\ Exclusion
    BY DEF SharedInv
  <2>2. ASSUME NEW c \in Controllers PROVE held'[c] \subseteq held'["bus"]
    <3>1. held'[c] \subseteq held["bus"]
      BY <1>2, <2>1, Locks DEF PoisonTrail
    <3>2. CASE lock = "bus"
      <4>1. t \notin held[c]
        BY <3>2, Locks DEF Outer
      <4>2. QED
        BY <1>2, <3>1, <3>2, <4>1, Locks
    <3>3. CASE lock # "bus"
      BY <1>2, <3>1, <3>3, Locks
    <3>4. QED
      BY <3>2, <3>3
  <2>3. ASSUME NEW c \in Controllers, c \in poisoned'
        PROVE  \/ "bus" \in poisoned'
               \/ \E u \in held'["bus"] : Exclusive(u)' /\ at'[u] = "unwinding"
    <3>1. CASE c \notin poisoned
      <4>1. lock = c /\ Exclusive(t)
        BY <2>3, <3>1, Locks
      <4>2. t \in held'["bus"]
        BY <1>2, <2>1, <4>1, Locks DEF PoisonTrail
      <4>3. QED
        BY <1>1, <4>1, <4>2
    <3>2. CASE "bus" \in poisoned
      BY <3>2
    <3>3. CASE \E u \in held["bus"] : Exclusive(u) /\ at[u] = "unwinding"
      <4>1. PICK u \in held["bus"] : Exclusive(u) /\ at[u] = "unwinding"
        BY <3>3
      <4>2. CASE u = t /\ lock = "bus"
        BY <4>1, <4>2
      <4>3. CASE ~(u = t /\ lock = "bus")
        <5>1. u \in held'["bus"]
          BY <1>2, <4>1, <4>3, Locks
        <5>2. QED
          BY <1>1, <4>1, <5>1
      <4>4. QED
        BY <4>2, <4>3
    <3>4. QED
      BY <2>1, <2>3, <3>1, <3>2, <3>3 DEF PoisonTrail
  <2>4. ASSUME "bus" \in poisoned' PROVE held'["bus"] = {}
    <3>1. CASE "bus" \in poisoned
      BY <1>3, <2>1, <3>1 DEF PoisonTrail
    <3>2. CASE "bus" \notin poisoned
      <4>1. lock = "bus" /\ Exclusive(t)
        BY <2>4, <3>2, Locks
      <4>2. held["bus"] = {t}
        BY <2>1, <4>1 DEF Exclusion
      <4>3. QED
        BY <1>2, <4>1, <4>2
    <3>3. QED
      BY <3>1, <3>2
  <2>5. QED
    BY <2>2, <2>3, <2>4 DEF PoisonTrail
<1>10. \A u \in Threads : InSession(u)' => InSession(u) /\ u # t
  BY <1>1 DEF InSession
<1>11. SessionHoldsCpu'
  BY <1>1, <1>3, <1>10 DEF SharedInv, SessionHoldsCpu
<1>12. SeenIsWritten'
  BY <1>10, HistoryKeeps
<1>13. QED
  BY <1>4, <1>5, <1>6, <1>7, <1>8, <1>9, <1>11, <1>12 DEF SharedInv

(* The end of a panic.                                                     *)
LEMMA DieInv ==
  ASSUME SharedInv, NEW t \in Threads, Die(t)
  PROVE  SharedInv'
<1>1. /\ UNCHANGED <<vars, todo, done, found, held, poisoned, seen, around>>
      /\ at[t] = "unwinding" /\ (\A lock \in Lock : t \notin held[lock])
      /\ at' = [at EXCEPT ![t] = "dead"]
  BY DEF Die, Go
<1>2. \A u : /\ TheJob(u)' = TheJob(u) /\ TheStep(u)' = TheStep(u)
             /\ Exclusive(u)' = Exclusive(u)
  BY <1>1, SameStep
<1>3. /\ at' \in [Threads -> Stage] /\ at'[t] = "dead" /\ t \notin held["bus"]
      /\ \A u \in Threads : u # t => at'[u] = at[u]
  BY <1>1, Types, Locks DEF Stage
<1>4. BusInv'
  BY StepKeepsBus DEF ThreadStep
<1>5. STypeOK'
  BY <1>1, <1>3 DEF SharedInv, STypeOK
<1>6. AtAStep'
  BY <1>1, <1>2, <1>3 DEF SharedInv, AtAStep, Working, OnBus, Stage
<1>7. Exclusion'
  BY <1>1, <1>2 DEF SharedInv, Exclusion
<1>8. LookupFresh'
  BY <1>1, <1>2, <1>3, PlaceStays DEF SharedInv, LookupFresh, Accesses, vars
<1>9. PoisonTrail'
  <2>1. PoisonTrail /\ \A u \in held["bus"] : at'[u] = at[u]
    BY <1>1, <1>3, Types, Locks DEF SharedInv
  <2>2. QED
    BY <1>1, <1>2, <2>1 DEF PoisonTrail
<1>10. \A u \in Threads : InSession(u)' => InSession(u) /\ u # t
  BY <1>1, <1>2, <1>3 DEF InSession
<1>11. SessionHoldsCpu'
  BY <1>1, <1>2, <1>3, <1>10 DEF SharedInv, SessionHoldsCpu
<1>12. SeenIsWritten'
  BY <1>1, <1>10, HistoryKeeps
<1>13. QED
  BY <1>4, <1>5, <1>6, <1>7, <1>8, <1>9, <1>11, <1>12 DEF SharedInv

----------------------------------------------------------------------------
(* A step of any thread, or none.                                          *)
LEMMA SNextInv == SharedInv /\ [SNext]_svars => SharedInv'
<1> SUFFICES ASSUME SharedInv, [SNext]_svars PROVE SharedInv'
  OBVIOUS
<1>1. ASSUME NEW t \in Threads, ThreadStep(t) PROVE SharedInv'
  <2>1. CASE Unwind(t)
    BY <2>1, UnwindInv DEF Unwind
  <2>2. CASE LockCpu(t) \/ LockBus(t) \/ LockController(t)
    BY <2>2, LockCpuInv, LockBusInv, LockControllerInv
  <2>3. CASE Read(t) \/ Write(t) \/ Map(t)
    BY <2>3, ReadInv, WriteInvShared, MapInvShared
  <2>4. CASE WriteUnmapped(t) \/ Refuse(t) \/ Conflict(t) \/ SumPanic(t)
    BY <2>4, OtherAccessInv
  <2>5. CASE NextStep(t) \/ NextJob(t) \/ Die(t)
    BY <2>5, NextStepInv, NextJobInv, DieInv
  <2>6. QED
    BY <1>1, <2>1, <2>2, <2>3, <2>4, <2>5 DEF ThreadStep
<1>2. CASE UNCHANGED svars
  <2>1. UNCHANGED <<vars, todo, done, at, found, held, poisoned, seen, around>>
    BY <1>2 DEF svars
  <2>2. \A u : /\ TheJob(u)' = TheJob(u) /\ TheStep(u)' = TheStep(u)
               /\ Exclusive(u)' = Exclusive(u)
    BY <2>1, SameStep
  <2>3. BusInv'
    BY <2>1, NextInv DEF SharedInv
  <2>4. STypeOK' /\ AtAStep' /\ Exclusion' /\ PoisonTrail'
    BY <2>1, <2>2 DEF SharedInv, STypeOK, AtAStep, Exclusion, PoisonTrail
  <2>5. LookupFresh'
    BY <2>1, <2>2, PlaceStays DEF SharedInv, LookupFresh, Accesses, vars
  <2>6. \A u \in Threads : InSession(u)' => InSession(u)
    BY <2>1, <2>2 DEF InSession
  <2>7. SessionHoldsCpu'
    BY <2>1, <2>6 DEF SharedInv, SessionHoldsCpu
  <2>8. SeenIsWritten'
    BY <2>1, <2>6, HistoryKeeps
  <2>9. QED
    BY <2>3, <2>4, <2>5, <2>7, <2>8 DEF SharedInv
<1>3. QED
  BY <1>1, <1>2 DEF SNext

(* However the threads take turns, the locks keep their order and their    *)
(* exclusion, a lookup stays fresh until its access, and what a session    *)
(* notes is what the memory holds.                                         *)
THEOREM SharedInvariant == SSpec => []SharedInv
  BY SInitInv, SNextInv, PTL DEF SSpec

(* The bus behind its locks is the atomic bus.                             *)
THEOREM SharedImplementsBus == SSpec => ImplementsBus
<1>1. SInit => Init
  BY DEF SInit
<1>2. SharedInv /\ [SNext]_svars => [Next]_vars
  <2>1. ASSUME SharedInv, SNext PROVE [Next]_vars
    BY <2>1, StepIsAtomic DEF SNext
  <2>2. ASSUME UNCHANGED svars PROVE [Next]_vars
    BY <2>2 DEF svars
  <2>3. QED
    BY <2>1, <2>2
<1>3. QED
  BY <1>1, <1>2, SharedInvariant, PTL DEF SSpec, Spec, ImplementsBus

(* A poisoned bus is not changed any more.                                 *)
THEOREM PoisonFreezes == SSpec => FrozenOncePoisoned
<1>1. ASSUME SharedInv, [SNext]_svars, "bus" \in poisoned
      PROVE  UNCHANGED <<memory_map, order, cells>>
  <2>1. \A t \in Threads : at[t] # "access"
    BY <1>1 DEF SharedInv, PoisonTrail, AtAStep, OnBus
  <2>2. ASSUME NEW t \in Threads, ThreadStep(t) PROVE UNCHANGED vars
    BY <2>1, <2>2 DEF ThreadStep, LockCpu, LockBus, LockController, Read, Write, WriteUnmapped,
       Refuse, Map, Conflict, SumPanic, NextStep, NextJob, Unwind, Die, Accesses
  <2>3. UNCHANGED vars
    BY <1>1, <2>2 DEF SNext, svars
  <2>4. QED
    BY <2>3 DEF vars
<1>2. SharedInv /\ [SNext]_svars =>
        [ "bus" \in poisoned => UNCHANGED <<memory_map, order, cells>> ]_svars
  BY <1>1
<1>3. QED
  BY <1>2, SharedInvariant, PTL DEF SSpec, FrozenOncePoisoned

(* What a session has read or written is what the bus answers.             *)
THEOREM SessionIsConsistent == SSpec => []SessionSeesMemory
<1>1. SharedInv => SessionSeesMemory
  <2> SUFFICES ASSUME SharedInv, NoOverlap, NEW t \in Threads, InSession(t),
                      NEW a \in DOMAIN seen[t]
               PROVE  seen[t][a] = MemRead(a) \/ a \in around[t]
    BY DEF SessionSeesMemory
  <2>1. a \in Addr /\ (seen[t][a] = written[a] \/ a \in around[t])
    BY DEF SharedInv, STypeOK, SeenIsWritten
  <2>2. MemRead(a) = written[a]
    BY <2>1, ReadsWritten DEF SharedInv
  <2>3. QED
    BY <2>1, <2>2
<1>2. QED
  BY <1>1, SharedInvariant, PTL

----------------------------------------------------------------------------
(* No deadlock.                                                            *)

(* Who holds a lock is at work, and who holds a controller is past taking  *)
(* locks: with AtAStep this is the order of the locks, the CPU before the  *)
(* bus before the controllers.                                             *)
Holders ==
  \A t \in Threads :
    /\ t \in held["cpu"] => at[t] \in Working
    /\ \A c \in Controllers : t \in held[c] => at[t] \in {"access", "leave", "unwinding"}

LEMMA HoldersStep ==
  ASSUME SharedInv, Holders, NEW t \in Threads, ThreadStep(t) PROVE Holders'
<1> DEFINE Past == {"access", "leave", "unwinding"}
<1>0. /\ at \in [Threads -> Stage] /\ held \in [Lock -> SUBSET Threads]
      /\ "cpu" \in Lock /\ "bus" \in Lock
      /\ \A c \in Controllers : c \in Lock /\ c # "cpu" /\ c # "bus"
  BY Types, Locks
<1>1. ASSUME NEW stage, at' = [at EXCEPT ![t] = stage],
             \A l \in Lock, u \in Threads : u # t => (u \in held'[l] => u \in held[l]),
             t \in held'["cpu"] => stage \in Working,
             \A c \in Controllers : t \in held'[c] => stage \in Past
      PROVE  Holders'
  <2>1. ASSUME NEW u \in Threads, u # t
        PROVE  /\ u \in held'["cpu"] => at'[u] \in Working
               /\ \A c \in Controllers : u \in held'[c] => at'[u] \in Past
    BY <1>0, <1>1, <2>1 DEF Holders
  <2>2. at'[t] = stage
    BY <1>0, <1>1
  <2>3. QED
    BY <1>1, <2>1, <2>2 DEF Holders, Working
<1>2. CASE LockCpu(t)
  <2>1. /\ \A c \in Controllers : t \notin held[c]
    BY <1>2 DEF Holders, LockCpu
  <2>2. \/ at' = [at EXCEPT ![t] = "unwinding"] /\ held' = held
        \/ at' = [at EXCEPT ![t] = "bus"] /\ held' = [held EXCEPT !["cpu"] = @ \cup {t}]
    BY <1>2 DEF LockCpu, Unwrap, Take, Go
  <2>3. QED
    BY <1>0, <1>1, <2>1, <2>2 DEF Working, Stage
<1>3. CASE LockBus(t)
  <2>1. /\ \A c \in Controllers : t \notin held[c]
    BY <1>3 DEF Holders, LockBus
  <2>2. \E stage \in {"unwinding", "access", "controller"} : at' = [at EXCEPT ![t] = stage]
    BY <1>3 DEF LockBus, Unwrap, Take, Go, LookUp
  <2>3. held' = held \/ held' = [held EXCEPT !["bus"] = @ \cup {t}]
    BY <1>3 DEF LockBus, Unwrap, Take
  <2>4. /\ \A l \in Lock, u \in Threads : u # t => (u \in held'[l] => u \in held[l])
        /\ \A c \in Controllers : t \notin held'[c]
    BY <1>0, <2>1, <2>3
  <2>5. QED
    BY <1>1, <2>2, <2>4 DEF Working, Stage
<1>4. CASE LockController(t)
  <2> DEFINE controller == memory_map[found[t]]
  <2>1. \E stage \in {"unwinding", "access"} : at' = [at EXCEPT ![t] = stage]
    BY <1>4 DEF LockController, Unwrap, Go
  <2>2. held' = held \/ held' = [held EXCEPT ![controller] = @ \cup {t}]
    BY <1>4 DEF LockController, Unwrap, Take
  <2> HIDE DEF controller
  <2>3. \A l \in Lock, u \in Threads : u # t => (u \in held'[l] => u \in held[l])
    BY <1>0, <2>2
  <2>4. QED
    BY <1>1, <2>1, <2>3 DEF Working, Stage
<1>5. CASE Read(t) \/ Write(t) \/ WriteUnmapped(t) \/ Refuse(t) \/ Map(t) \/ Conflict(t)
           \/ SumPanic(t)
  <2>1. held' = held /\ at[t] \in {"access", "sum"}
    BY <1>5 DEF Read, Write, WriteUnmapped, Refuse, Map, Conflict, SumPanic, Accesses
  <2>2. \E stage \in {"leave", "unwinding"} : at' = [at EXCEPT ![t] = stage]
    BY <1>5 DEF Read, Write, WriteUnmapped, Refuse, Map, Conflict, SumPanic, Go
  <2>3. QED
    BY <1>1, <2>1, <2>2 DEF Working, Stage
<1>6. CASE NextStep(t)
  <2>1. \E stage \in {"cpu", "bus", "sum"} : at' = [at EXCEPT ![t] = stage]
    BY <1>6 DEF NextStep, Go, Entry
  <2>2. held' = [l \in Lock |-> IF l = "cpu" /\ TheJob(t).session THEN held[l]
                                                                  ELSE held[l] \ {t}]
    BY <1>6 DEF NextStep
  <2>3. QED
    BY <1>0, <1>1, <2>1, <2>2 DEF Working, Stage
<1>7. CASE NextJob(t)
  <2>1. at' = [at EXCEPT ![t] = FirstEntry(Tail(todo[t]))]
    BY <1>7 DEF NextJob, Go
  <2>2. held' = [l \in Lock |-> held[l] \ {t}]
    BY <1>7 DEF NextJob
  <2>3. QED
    BY <1>0, <1>1, <2>1, <2>2
<1>8. CASE Unwind(t)
  <2>1. at' = at /\ \A l \in Lock : held'[l] \subseteq held[l]
    BY <1>0, <1>8 DEF Unwind
  <2>2. QED
    BY <1>0, <2>1 DEF Holders, Working
<1>9. CASE Die(t)
  <2>1. at' = [at EXCEPT ![t] = "dead"] /\ held' = held /\ \A l \in Lock : t \notin held[l]
    BY <1>9 DEF Die, Go
  <2>2. QED
    BY <1>0, <1>1, <2>1
<1>10. QED
  BY <1>2, <1>3, <1>4, <1>5, <1>6, <1>7, <1>8, <1>9 DEF ThreadStep

(* Who is on the bus can go on, or waits for a controller whose holders    *)
(* can.                                                                    *)
LEMMA OnBusGoOn ==
  ASSUME SharedInv, Holders, NEW t \in held["bus"] PROVE \E u \in Threads : Ready(u)
<1>1. t \in Threads /\ at[t] \in OnBus \cup {"unwinding"}
  BY Types, Locks DEF SharedInv, AtAStep
<1>2. CASE at[t] # "controller"
  BY <1>1, <1>2 DEF Ready, OnBus, Working, Stage
<1>3. CASE at[t] = "controller" /\ ~Ready(t)
  <2> DEFINE controller == memory_map[found[t]]
  <2>1. ~CanLock(controller, at[t] = "cpu" \/ Exclusive(t))
    BY <1>3 DEF Ready, Wanted, Working, Stage
  <2>2. controller \in Controllers
    <3>1. found[t] # None /\ found[t] = GetRegionPlace(TheStep(t).addr)
      BY <1>1, <1>3 DEF SharedInv, LookupFresh, Accesses
    <3>2. TheStep(t).addr \in Addr
      BY <1>1, <1>3, StepType DEF SharedInv, Working, Stage
    <3>3. QED
      BY <3>1, <3>2, RegionPlace DEF SharedInv, BusInv, TypeOK, Keys
  <2> HIDE DEF controller
  <2>3. PICK u \in held[controller] : TRUE
    BY <2>1 DEF CanLock
  <2>4. u \in Threads /\ at[u] \in {"access", "leave", "unwinding"}
    BY <2>2, <2>3, Types, Locks DEF Holders
  <2>5. QED
    BY <2>4 DEF Ready, Working, Stage
<1>4. QED
  BY <1>1, <1>2, <1>3

(* Whoever waits, waits for somebody who can go on.                        *)
LEMMA SomebodyGoesOn == SharedInv /\ Holders => NoDeadlock
<1> SUFFICES ASSUME SharedInv, Holders, NEW t \in Threads, at[t] \in Working,
                    \A u \in Threads : ~Ready(u)
             PROVE  at[t] = "cpu" /\ \E u \in Threads : Relocks(u)
  BY DEF NoDeadlock
<1>1. held["bus"] = {}
  BY OnBusGoOn
<1>2. ASSUME NEW u \in Threads, at[u] \in Working PROVE at[u] = "cpu"
  <2>1. at[u] # "controller"
    BY <1>1 DEF SharedInv, AtAStep, OnBus
  <2>2. at[u] # "bus"
    BY <1>1 DEF Ready, Wanted, CanLock, Working, Stage
  <2>3. QED
    BY <1>2, <2>1, <2>2 DEF Ready
<1>3. at[t] = "cpu" /\ held["cpu"] # {}
  BY <1>2 DEF Ready, Wanted, CanLock
<1>4. PICK u \in held["cpu"] : TRUE
  BY <1>3
<1>5. u \in Threads /\ at[u] \in Working
  BY <1>4, Types, Locks DEF Holders
<1>6. Relocks(u)
  BY <1>2, <1>4, <1>5 DEF Relocks
<1>7. QED
  BY <1>3, <1>5, <1>6

(* The threads do not block each other, whatever their jobs: as long as    *)
(* anybody is at work somebody can go on, but for a handler that locks the *)
(* CPU it runs under and those that wait for that CPU.                     *)
THEOREM DeadlockFree == SSpec => []NoDeadlock
<1>1. SInit => Holders
  BY DEF SInit, Holders, Lock
<1>2. SharedInv /\ Holders /\ [SNext]_svars => Holders'
  <2>1. ASSUME SharedInv, Holders, SNext PROVE Holders'
    BY <2>1, HoldersStep DEF SNext
  <2>2. ASSUME Holders, UNCHANGED svars PROVE Holders'
    BY <2>2 DEF svars, Holders
  <2>3. QED
    BY <2>1, <2>2
<1>3. QED
  BY <1>1, <1>2, SomebodyGoesOn, SharedInvariant, PTL DEF SSpec

----------------------------------------------------------------------------
(* A byte that is within its range is what the cast makes of it, also one  *)
(* range below.                                                            *)
LEMMA CastRange ==
  ASSUME NEW b \in Nat, NEW n \in Int, 0 <= n, n < b
  PROVE  n % b = n /\ (n - b) % b = n
<1>1. b > 0 /\ n % b = n
  OBVIOUS
<1>2. n - b = b * (-1) + n
  OBVIOUS
<1>3. (n - b) % b = n
  BY <1>1, <1>2
<1>4. QED
  BY <1>1, <1>3

(* mem_read_signed gives back what mem_write_signed stored, for every      *)
(* number of the signed type: the two conversions by 256 and the casts     *)
(* undo each other.                                                        *)
THEOREM SignedRoundTrip ==
  ASSUME NEW data \in SignedByte, NEW addr, NEW via
  PROVE  /\ WriteSigned(addr, data, via)[1].data \in Data
         /\ ReadSigned(WriteSigned(addr, data, via)[1].data) = data
<1> DEFINE half == ByteSpace \div 2
           byte == IF data < 0 THEN ByteSpace + data ELSE data
<1>1. /\ ByteSpace \in Nat /\ half \in Nat /\ ByteSpace = 2 * half
      /\ data \in Int /\ -half <= data /\ data < half
  BY ByteAssumption DEF SignedByte
<1>2. Data = 0 .. ByteSpace - 1
  BY ByteAssumption
<1> HIDE DEF half
<1>3. byte \in Int /\ 0 <= byte /\ byte < ByteSpace
  BY <1>1
<1>4. AsU8(byte) = byte
  BY <1>1, <1>3, CastRange DEF AsU8
<1>5. WriteSigned(addr, data, via)[1].data = byte
  BY <1>4 DEF WriteSigned, Put, Access
<1>6. (-(ByteSpace - byte)) + half = data + half \/ (-(ByteSpace - byte)) + half = (data + half) - ByteSpace
  BY <1>1
<1>7. /\ data + half \in Int /\ 0 <= data + half /\ data + half < ByteSpace
  BY <1>1
<1>8. ((-(ByteSpace - byte)) + half) % ByteSpace = data + half
  BY <1>1, <1>6, <1>7, CastRange
<1>9. ReadSigned(byte) = data
  BY <1>1, <1>8 DEF ReadSigned, AsI8, half
<1>10. byte \in Data
  BY <1>1, <1>2, <1>3
<1> HIDE DEF byte
<1>11. QED
  BY <1>5, <1>9, <1>10
=============================================================================
