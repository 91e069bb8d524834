--------------------------- MODULE NnClockProofs ---------------------------
(* Theorems about NnClock: an answer is never older than half the precision  *)
(* and the skew, and goes back only if the system's clock was set back, for  *)
(* any number of processors, any precision, any frequency, and however long  *)
(* the clock is used.                                                        *)
EXTENDS NnClock, TLAPS

USE ClockAssumption

-----------------------------------------------------------------------------
(* A later moment is not in an earlier millisecond.                          *)
LEMMA Ordered ==
  ASSUME NEW r \in Nat, NEW q \in Nat, r <= q
  PROVE  /\ r \div TicksPerMs \in Nat /\ 0 <= r \div TicksPerMs
         /\ r \div TicksPerMs <= q \div TicksPerMs
  BY SMT

-----------------------------------------------------------------------------
(* Shapes.                                                                   *)
TypeInv == /\ real \in Nat
           /\ offset \in Nat
           /\ counters \in BOOLEAN
           /\ started \in [Cpus -> 1 .. Skew + 1]
           /\ cpu \in Cpus
           /\ at \in {"init", "init_time", "idle", "compare"}
           /\ tsc \in Nat /\ last_tsc \in Nat /\ last_time \in Nat
           /\ now \in Nat /\ asked \in Nat /\ said \in Nat /\ read \in Nat
           /\ setBack \in BOOLEAN

(* Nothing was asked or read that is still to come.                          *)
Past == /\ asked <= real /\ read <= real
        /\ at \in {"init", "init_time"} => now = 0 /\ asked = 0 /\ said = 0

(* The counter was read no earlier than the call began, and by now a         *)
(* processor may show up to Skew + 1 ticks more than true time.              *)
Reading == at = "compare" => IF counters THEN asked < tsc /\ tsc <= real + Skew + 1
                             ELSE tsc = 0

(* The counter that goes with last_time was read before last_time was:       *)
(* waiting between the two readings only makes the cached time be given up   *)
(* earlier.                                                                  *)
Paired == counters =>
            /\ at = "init_time" => last_tsc <= real + Skew + 1
            /\ at \in {"idle", "compare"} => last_tsc <= read + Skew + 1

(* Unless it was set back since, the system's clock shows no less than what  *)
(* it was last asked for, and nothing newer than last_time was returned.     *)
Grown == /\ counters => now <= last_time
         /\ ~setBack => /\ now <= nn_clock_time
                        /\ counters => last_time <= nn_clock_time

IInv == TypeInv /\ Past /\ Reading /\ Paired /\ Grown /\ Fresh

(* What the system answers is a time.                                        *)
LEMMA Answered ==
  ASSUME TypeInv
  PROVE  nn_clock_time \in Nat /\ 0 <= nn_clock_time
<1>1. real + offset \in Nat BY DEF TypeInv
<1> QED BY <1>1, Ordered DEF nn_clock_time

LEMMA InitHolds == Init => IInv
<1>1. ASSUME Init PROVE IInv
  <2>1. TypeInv
    <3>1. \A n \in 0 .. MaxOffset : n \in Nat OBVIOUS
    <3>2. offset \in Nat BY <1>1, <3>1 DEF Init
    <3> QED BY <1>1, <3>2 DEF Init, TypeInv
  <2>2. Past /\ Reading /\ Paired BY <1>1 DEF Init, Past, Reading, Paired
  <2>3. Grown BY <1>1, <2>1, Answered DEF Init, Grown
  <2>4. Fresh
    <3>1. Precision \div 2 \in Nat OBVIOUS
    <3> QED BY <1>1, <3>1 DEF Init, Fresh
  <2> QED BY <2>1, <2>2, <2>3, <2>4 DEF IInv
<1> QED BY <1>1

(* What a processor shows.                                                   *)
LEMMA Shown ==
  ASSUME TypeInv
  PROVE  /\ nn_clock_rdtsc \in Nat
         /\ counters => real < nn_clock_rdtsc /\ nn_clock_rdtsc <= real + Skew + 1
         /\ ~counters => nn_clock_rdtsc = 0
<1>1. real \in Nat /\ started[cpu] \in 1 .. Skew + 1 BY DEF TypeInv
<1>2. CASE counters
  <2>1. nn_clock_rdtsc = real + started[cpu] BY <1>2 DEF nn_clock_rdtsc
  <2>2. nn_clock_rdtsc \in Nat /\ real < nn_clock_rdtsc
          /\ nn_clock_rdtsc <= real + Skew + 1
    BY <1>1, <2>1
  <2> QED BY <1>2, <2>2
<1>3. CASE ~counters
  <2>1. nn_clock_rdtsc = 0 BY <1>3 DEF nn_clock_rdtsc
  <2> QED BY <1>3, <2>1
<1> QED BY <1>2, <1>3

-----------------------------------------------------------------------------
(* Steps of the machine and of the system's clock. While that clock only     *)
(* goes on, what it shows only grows.                                        *)
LEMMA TickStep == IInv /\ Tick => IInv'
<1> SUFFICES ASSUME IInv, Tick PROVE IInv'
  OBVIOUS
<1>0. /\ real \in Nat /\ real' = real + 1 /\ offset \in Nat /\ offset' = offset
      /\ tsc \in Nat /\ last_tsc \in Nat /\ last_time \in Nat /\ now \in Nat
      /\ asked \in Nat /\ read \in Nat
  BY DEF IInv, TypeInv, Tick
<1>1. TypeInv'
  <2>1. real' \in Nat BY <1>0
  <2> QED BY <2>1 DEF IInv, TypeInv, Tick, clock
<1>2. Past'
  <2>1. \A n \in Nat : n <= real => n <= real' BY <1>0
  <2> QED BY <1>0, <2>1 DEF IInv, Past, Tick, clock
<1>3. Reading'
  <2>1. tsc <= real + Skew + 1 => tsc <= real' + Skew + 1 BY <1>0
  <2> QED BY <2>1 DEF IInv, Reading, Tick, clock
<1>4. Paired'
  <2>1. last_tsc <= real + Skew + 1 => last_tsc <= real' + Skew + 1
    BY <1>0
  <2> QED BY <2>1 DEF IInv, Paired, Tick, clock
<1>5. Grown'
  <2>1. nn_clock_time <= nn_clock_time'
    <3>1. real + offset \in Nat /\ real' + offset' \in Nat
            /\ real + offset <= real' + offset'
      BY <1>0
    <3> QED BY <3>1, Ordered DEF nn_clock_time
  <2>2. nn_clock_time \in Nat /\ nn_clock_time' \in Nat
    <3>1. real + offset \in Nat /\ real' + offset' \in Nat BY <1>0
    <3> QED BY <3>1, Ordered DEF nn_clock_time
  <2>3. \A n \in Nat : n <= nn_clock_time => n <= nn_clock_time'
    BY <2>1, <2>2
  <2>4. UNCHANGED <<counters, setBack, now, last_time>> BY DEF Tick, clock
  <2> QED BY <1>0, <2>3, <2>4 DEF IInv, Grown
<1>6. Fresh' BY DEF IInv, Fresh, Tick, clock
<1> QED BY <1>1, <1>2, <1>3, <1>4, <1>5, <1>6 DEF IInv

LEMMA MigrateStep == IInv /\ Migrate => IInv'
<1> SUFFICES ASSUME IInv, Migrate PROVE IInv'
  OBVIOUS
<1> USE DEF IInv, Migrate, clock
<1>1. TypeInv' BY DEF TypeInv
<1>2. Past' /\ Reading' /\ Paired' /\ Fresh' BY DEF Past, Reading, Paired, Fresh
<1>3. Grown' BY DEF Grown, nn_clock_time
<1> QED BY <1>1, <1>2, <1>3

LEMMA SetTimeStep == IInv /\ SetTime => IInv'
<1> SUFFICES ASSUME IInv, SetTime PROVE IInv'
  OBVIOUS
<1>0. /\ offset' \in 0 .. MaxOffset /\ setBack' = (setBack \/ offset' < offset)
      /\ UNCHANGED <<machine, clock>>
  BY DEF SetTime
<1>1. TypeInv' BY <1>0 DEF IInv, TypeInv, machine, clock
<1>2. Past' /\ Reading' /\ Paired' /\ Fresh'
  BY <1>0 DEF IInv, Past, Reading, Paired, Fresh, machine, clock
<1>3. Grown'
  <2>1. UNCHANGED <<counters, now, last_time>> BY <1>0 DEF machine, clock
  <2>2. CASE setBack' BY <2>1, <2>2 DEF IInv, Grown
  <2>3. CASE ~setBack'
    <3>0. real \in Nat /\ offset \in Nat /\ offset' \in Nat
      BY <1>1 DEF IInv, TypeInv
    <3>1. ~setBack BY <1>0, <2>3
    <3>2. offset <= offset'
      <4>1. ~(offset' < offset) BY <1>0, <2>3
      <4> QED BY <3>0, <4>1
    <3>3. real + offset \in Nat /\ real + offset' \in Nat
            /\ real + offset <= real + offset'
      <4>1. \A n, p, q \in Nat : p <= q => /\ n + p \in Nat /\ n + q \in Nat
                                           /\ n + p <= n + q
        OBVIOUS
      <4> QED BY <3>0, <3>2, <4>1, Zenon
    <3>4. nn_clock_time' = (real + offset') \div TicksPerMs
      BY <1>0 DEF nn_clock_time, machine
    <3>5. /\ nn_clock_time <= nn_clock_time'
          /\ nn_clock_time \in Nat /\ nn_clock_time' \in Nat
      BY <3>3, <3>4, Ordered DEF nn_clock_time
    <3>6. \A n \in Nat : n <= nn_clock_time => n <= nn_clock_time'
      BY <3>5
    <3>7. now \in Nat /\ last_time \in Nat BY DEF IInv, TypeInv
    <3> QED BY <2>1, <3>1, <3>6, <3>7 DEF IInv, Grown
  <2>4. setBack' \in BOOLEAN BY <1>1 DEF TypeInv
  <2> QED BY <2>2, <2>3, <2>4
<1> QED BY <1>1, <1>2, <1>3 DEF IInv

(* nn_clock_init.                                                            *)
LEMMA InitTscStep == IInv /\ InitTsc => IInv'
<1> SUFFICES ASSUME IInv, InitTsc PROVE IInv'
  OBVIOUS
<1> USE DEF IInv, InitTsc, machine
<1>1. TypeInv' BY Shown DEF TypeInv
<1>2. Paired' BY Shown DEF Paired
<1>3. Past' /\ Reading' /\ Fresh' BY DEF Past, Reading, Fresh
<1>4. Grown' BY DEF Grown, nn_clock_time
<1> QED BY <1>1, <1>2, <1>3, <1>4

LEMMA InitTimeStep == IInv /\ InitTime => IInv'
<1> SUFFICES ASSUME IInv, InitTime PROVE IInv'
  OBVIOUS
<1> USE DEF IInv, InitTime, machine
<1>0. now = 0 /\ asked = 0 /\ said = 0 BY DEF Past
<1>1. TypeInv' BY Answered DEF TypeInv
<1>2. Past' BY DEF TypeInv, Past
<1>3. Reading' BY DEF Reading
<1>4. Paired' BY DEF Paired
<1>5. Grown'
  <2>1. nn_clock_time' = nn_clock_time BY DEF nn_clock_time
  <2>2. 0 <= nn_clock_time /\ nn_clock_time \in Nat BY Answered
  <2>3. nn_clock_time <= nn_clock_time BY <2>2
  <2> QED BY <1>0, <2>1, <2>2, <2>3 DEF Grown
<1>6. Fresh'
  <2>1. Precision \div 2 \in Nat OBVIOUS
  <2> QED BY <1>0, <2>1 DEF Fresh
<1> QED BY <1>1, <1>2, <1>3, <1>4, <1>5, <1>6

(* nn_clock_now.                                                             *)
LEMMA AskStep == IInv /\ Ask => IInv'
<1> SUFFICES ASSUME IInv, Ask PROVE IInv'
  OBVIOUS
<1> USE DEF IInv, Ask, machine
<1>1. TypeInv' BY Shown DEF TypeInv
<1>2. Past' BY DEF TypeInv, Past
<1>3. Reading' BY Shown DEF Reading
<1>4. Paired' /\ Fresh' BY DEF Paired, Fresh
<1>5. Grown' BY DEF Grown, nn_clock_time
<1> QED BY <1>1, <1>2, <1>3, <1>4, <1>5

(* A time that was measured now is fresh, whenever the call began.           *)
LEMMA FreshNow ==
  ASSUME TypeInv, Past
  PROVE  asked <= real + Precision \div 2 + Skew
<1>1. asked <= real /\ asked \in Nat /\ real \in Nat BY DEF TypeInv, Past
<1>2. Precision \div 2 \in Nat OBVIOUS
<1> QED BY <1>1, <1>2

LEMMA PlainStep == IInv /\ Plain => IInv' /\ (now' >= now \/ setBack)
<1> SUFFICES ASSUME IInv, Plain PROVE IInv' /\ (now' >= now \/ setBack)
  OBVIOUS
<1> USE DEF IInv, Plain, Return, machine
<1>1. ~counters BY DEF TypeInv, Reading
<1>2. TypeInv' BY Answered DEF TypeInv
<1>3. Past' BY DEF Past
<1>4. Reading' /\ Paired' BY <1>1 DEF Reading, Paired
<1>5. Grown'
  <2>1. nn_clock_time' = nn_clock_time /\ now' = nn_clock_time BY DEF nn_clock_time
  <2>2. nn_clock_time <= nn_clock_time BY Answered
  <2> QED BY <1>1, <2>1, <2>2 DEF Grown
<1>6. Fresh' BY FreshNow DEF Fresh
<1>7. now' >= now \/ setBack BY Answered DEF TypeInv, Grown
<1> QED BY <1>2, <1>3, <1>4, <1>5, <1>6, <1>7

LEMMA CachedStep == IInv /\ Cached => IInv' /\ now' >= now
<1> SUFFICES ASSUME IInv, Cached PROVE IInv' /\ now' >= now
  OBVIOUS
<1> USE DEF IInv, Cached, Return, machine
<1>1. counters BY DEF Reading
<1>2. TypeInv' BY DEF TypeInv
<1>3. Past' BY DEF Past
<1>4. Reading' /\ Paired' BY DEF TypeInv, Reading, Paired
<1>5. Grown'
  <2>1. nn_clock_time' = nn_clock_time BY DEF nn_clock_time
  <2>2. last_time <= last_time BY DEF TypeInv
  <2> QED BY <1>1, <2>1, <2>2 DEF Grown
<1>6. Fresh'
  <2>1. asked < tsc /\ tsc <= last_tsc + Precision \div 2
    BY <1>1 DEF TypeInv, Reading, Near
  <2>2. last_tsc <= read + Skew + 1 BY <1>1 DEF Paired
  <2>3. Precision \div 2 \in Nat OBVIOUS
  <2>4. asked <= read + Precision \div 2 + Skew
    BY <2>1, <2>2, <2>3 DEF TypeInv
  <2> QED BY <2>4 DEF Fresh
<1>7. now' >= now BY <1>1 DEF TypeInv, Grown
<1> QED BY <1>2, <1>3, <1>4, <1>5, <1>6, <1>7

LEMMA MeasureStep == IInv /\ Measure => IInv' /\ (now' >= now \/ setBack)
<1> SUFFICES ASSUME IInv, Measure PROVE IInv' /\ (now' >= now \/ setBack)
  OBVIOUS
<1> USE DEF IInv, Measure, Return, machine
<1>1. counters BY DEF Reading
<1>2. TypeInv' BY Answered DEF TypeInv
<1>3. Past' BY DEF TypeInv, Past
<1>4. Reading' BY DEF Reading
<1>5. Paired' BY <1>1 DEF Reading, Paired
<1>6. Grown'
  <2>1. nn_clock_time' = nn_clock_time /\ now' = nn_clock_time /\ last_time' = nn_clock_time
    BY DEF nn_clock_time
  <2>2. nn_clock_time <= nn_clock_time BY Answered
  <2> QED BY <2>1, <2>2 DEF Grown
<1>7. Fresh' BY FreshNow DEF Fresh
<1>8. now' >= now \/ setBack BY Answered DEF TypeInv, Grown
<1> QED BY <1>2, <1>3, <1>4, <1>5, <1>6, <1>7, <1>8

-----------------------------------------------------------------------------
(* Every step keeps the invariant, and only answers change what was said.    *)
LEMMA StepHolds == IInv /\ [Next]_vars => IInv' /\ (now' >= now \/ setBack)
<1> SUFFICES ASSUME IInv, [Next]_vars PROVE IInv' /\ (now' >= now \/ setBack)
  OBVIOUS
<1>0. now \in Nat /\ (now' = now => now' >= now) BY DEF IInv, TypeInv
<1>1. CASE Tick BY <1>0, <1>1, TickStep DEF Tick, clock
<1>2. CASE Migrate BY <1>0, <1>2, MigrateStep DEF Migrate, clock
<1>3. CASE SetTime BY <1>0, <1>3, SetTimeStep DEF SetTime, clock
<1>4. CASE InitTsc BY <1>0, <1>4, InitTscStep DEF InitTsc
<1>5. CASE InitTime BY <1>0, <1>5, InitTimeStep DEF InitTime
<1>6. CASE Ask BY <1>0, <1>6, AskStep DEF Ask
<1>7. CASE Plain BY <1>7, PlainStep
<1>8. CASE Cached BY <1>8, CachedStep
<1>9. CASE Measure BY <1>9, MeasureStep
<1>10. CASE UNCHANGED vars
  <2>1. IInv'
    BY <1>10 DEF vars, machine, clock, IInv, TypeInv, Past, Reading, Paired, Grown,
      nn_clock_time, Fresh
  <2> QED BY <1>0, <1>10, <2>1 DEF vars, clock
<1> QED BY <1>1, <1>2, <1>3, <1>4, <1>5, <1>6, <1>7, <1>8, <1>9, <1>10 DEF Next

(* An answer of nn_clock_now is at most half the precision and the skew      *)
(* older than the call, however the system's clock is set, and the error     *)
(* does not add up.                                                          *)
THEOREM AlwaysFresh == Spec => []Fresh
<1>1. Init => IInv BY InitHolds
<1>2. IInv /\ [Next]_vars => IInv' BY StepHolds
<1>3. IInv => Fresh BY DEF IInv
<1> QED BY <1>1, <1>2, <1>3, PTL DEF Spec

(* nn_clock_now goes back only if the system's clock was set back since it   *)
(* was last read, whichever processors the caller runs on.                   *)
THEOREM BackOnlyWhenSet == Spec => Monotone
<1>1. Init => IInv BY InitHolds
<1>2. IInv /\ [Next]_vars => IInv' BY StepHolds
<1>3. IInv /\ [Next]_vars => [now' >= now \/ setBack]_vars BY StepHolds
<1> QED BY <1>1, <1>2, <1>3, PTL DEF Spec, Monotone
=============================================================================
