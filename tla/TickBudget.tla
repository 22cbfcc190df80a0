----------------------------- MODULE TickBudget -----------------------------
(***************************************************************************)
(* The clock of the CPU (src/src/lib.rs): how many cycles a call of        *)
(* execute is granted for the time since the last one.  Time is counted in *)
(* ticks of the system clock; the delta becomes a float, is multiplied by  *)
(* clock_speed and by clock_frequency, and loses its fraction.             *)
(***************************************************************************)
EXTENDS Integers

CONSTANTS
  CycleTicks,  (* Ticks for one cycle.  The frequency cancels out of       *)
               (* clock_speed * clock_frequency: a cycle is 1 microsecond, *)
               (* 1000 ticks, whatever the frequency.                      *)
  Precision,   (* A product of f32 is off by one part in this at most.     *)
  MaxBudget,   (* `as u32` saturates: 2^32 - 1.                            *)
  MaxPolls     (* Bound of the history: the calls it looks at.             *)

ASSUME ClockAssumption ==
  CycleTicks \in Nat \ {0} /\ Precision \in Nat \ {0} /\ MaxBudget \in Nat /\ MaxPolls \in Nat

VARIABLES
  lag,      (* now - game_tick_time: negative if the clock was set back    *)
  polls,    (* history: the deltas taken,                                  *)
  elapsed,  (* their sum,                                                  *)
  rounded,  (* what f32 may have changed it by,                            *)
  granted,  (* the cycles granted for it,                                  *)
  capped    (* and if a delta was beyond u32                               *)

account == <<polls, elapsed, rounded, granted, capped>>
tvars   == <<lag, account>>

----------------------------------------------------------------------------
(* The largest error of a delta in f32.                                    *)
Error(delta) == (delta + Precision - 1) \div Precision

(* What the float can be, in ticks.                                        *)
Floats(delta) == {d \in delta - Error(delta) .. delta + Error(delta) : d >= 0}

AsU32(cycles) == IF cycles > MaxBudget THEN MaxBudget ELSE cycles

(* Fault: a fraction of a cycle is granted as a cycle.                     *)
CyclesOfUp(delta) == {AsU32((d \div CycleTicks) + 1) : d \in Floats(delta)}

CyclesOf(delta) == {AsU32(d \div CycleTicks) : d \in Floats(delta)}

Record(b) ==
  IF polls < MaxPolls
    THEN /\ polls'   = polls + 1
         /\ elapsed' = elapsed + lag
         /\ rounded' = rounded + Error(lag)
         /\ granted' = granted + b
         /\ capped'  = (capped \/ b = MaxBudget)
    ELSE UNCHANGED account

(* get_tick_delta, and the budget at the start of execute.                 *)
Poll(b) ==
  /\ lag >= 0
  /\ b \in CyclesOf(lag)
  /\ lag' = 0
  /\ Record(b)

(* duration_since is an Err for a clock that went back, and is unwrapped,  *)
(* with game_tick_time already set.                                        *)
PollPanic ==
  /\ lag < 0
  /\ lag' = 0
  /\ UNCHANGED account

(* Time passes, or the clock is set; in a call of execute as between two.  *)
Tick(ticks) ==
  /\ lag' = lag + ticks
  /\ UNCHANGED account

Next ==
  \/ \E b \in 0 .. MaxBudget : Poll(b)
  \/ PollPanic
  \/ \E t \in Int : Tick(t)

Init ==
  /\ lag = 0
  /\ polls = 0 /\ elapsed = 0 /\ rounded = 0 /\ granted = 0
  /\ capped = FALSE

Spec == Init /\ [][Next]_tvars

----------------------------------------------------------------------------
TypeOK ==
  /\ lag \in Int
  /\ polls \in Nat /\ elapsed \in Nat /\ rounded \in Nat /\ granted \in Nat
  /\ capped \in BOOLEAN

(* The CPU is never granted time that has not passed, but for what f32     *)
(* rounds up.                                                              *)
NeverAhead == granted * CycleTicks <= elapsed + rounded

(* Each call loses less than one cycle: the fraction is dropped and not    *)
(* carried over, so that a host that calls often enough loses all of it.   *)
LossBound == capped \/ elapsed - granted * CycleTicks <= polls * (CycleTicks - 1) + rounded

(* The time the CPU is granted is the time that passes, whenever it passes *)
(* and however it is cut by the calls.                                     *)
TimeKept == NeverAhead /\ LossBound
=============================================================================
