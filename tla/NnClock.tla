------------------------------ MODULE NnClock ------------------------------
(* nn_clock (src/src/utils/clock.c): the time in milliseconds, as the timers *)
(* of the worker and the intervals of nccat see it. Asking the system is     *)
(* slow, so the last answer is used again while the time stamp counter of    *)
(* the processor has not moved far. True time is counted in ticks of that    *)
(* counter. The thread may be delayed between any two readings and go on on  *)
(* another processor, whose counter started a little earlier or later. The   *)
(* build defines none of the NN_HAVE_ macros, so the system is asked with    *)
(* gettimeofday, whose clock may be set, forward or back, at any moment.     *)
EXTENDS Integers

CONSTANTS Cpus,
          Skew,        \* the counters of two processors differ by this at most
          Precision,   \* NN_CLOCK_PRECISION
          TicksPerMs,  \* 1000000 at 1 GHz
          MaxTicks,    \* bound: how long the clock is looked at
          MaxOffset    \* bound: how far the system's clock is set

ASSUME ClockAssumption == /\ Skew \in Nat
                          /\ Precision \in Nat
                          /\ TicksPerMs \in Nat \ {0}
                          /\ MaxTicks \in Nat
                          /\ MaxOffset \in Nat

VARIABLES real,       \* the true time, in ticks
          offset,     \* how far the system's clock is ahead of it, in ticks
          counters,   \* does the machine have time stamp counters?
          started,    \* per processor: what its counter was at time 0
          cpu,        \* where the thread runs
          at,         \* where it is in nn_clock_init or nn_clock_now
          tsc,        \* local variable of nn_clock_now
          last_tsc, last_time,
          now,        \* history: what the last call returned,
          asked,      \* ... the true time when it was made,
          said,       \* ... and when the system gave the time it returned;
          read,       \* ... when the system gave last_time;
          setBack     \* ... was its clock set back since it was last asked?

machine == <<real, counters, started, cpu>>
clock == <<at, tsc, last_tsc, last_time, now, asked, said, read>>
vars == <<machine, offset, setBack, clock>>

(* A counter is never 0 again once the machine runs.                         *)
Init == /\ real = 0
        /\ offset \in 0 .. MaxOffset
        /\ counters \in BOOLEAN
        /\ started \in [Cpus -> 1 .. Skew + 1]
        /\ cpu \in Cpus
        /\ at = "init"
        /\ tsc = 0 /\ last_tsc = 0 /\ last_time = 0
        /\ now = 0 /\ asked = 0 /\ said = 0 /\ read = 0 /\ setBack = FALSE

nn_clock_rdtsc == IF counters THEN real + started[cpu] ELSE 0
nn_clock_time == (real + offset) \div TicksPerMs

Tick == /\ real < MaxTicks
        /\ real' = real + 1
        /\ UNCHANGED <<counters, started, cpu, offset, setBack, clock>>

Migrate == /\ \E c \in Cpus \ {cpu} : cpu' = c
           /\ UNCHANGED <<real, counters, started, offset, setBack, clock>>

(* An administrator or a time service sets the system's clock.               *)
SetTime == /\ \E o \in (0 .. MaxOffset) \ {offset} :
                /\ offset' = o
                /\ setBack' = (setBack \/ o < offset)
           /\ UNCHANGED <<machine, clock>>

-----------------------------------------------------------------------------
(* nn_clock_init, whose two readings are two steps.                          *)
InitTsc == /\ at = "init"
           /\ last_tsc' = nn_clock_rdtsc
           /\ at' = "init_time"
           /\ UNCHANGED <<machine, offset, setBack, tsc, last_time, now, asked,
                          said, read>>

InitTime == /\ at = "init_time"
            /\ last_time' = nn_clock_time
            /\ read' = real
            /\ setBack' = FALSE
            /\ at' = "idle"
            /\ UNCHANGED <<machine, offset, tsc, last_tsc, now, asked, said>>

(* nn_clock_now.                                                             *)
Ask == /\ at = "idle"
       /\ tsc' = nn_clock_rdtsc
       /\ asked' = real
       /\ at' = "compare"
       /\ UNCHANGED <<machine, offset, setBack, last_tsc, last_time, now, said, read>>

Return(t, r) == now' = t /\ said' = r /\ at' = "idle"

Plain == /\ at = "compare"
         /\ tsc = 0
         /\ Return(nn_clock_time, real)
         /\ setBack' = FALSE
         /\ UNCHANGED <<machine, offset, tsc, last_tsc, last_time, asked, read>>

Near == tsc >= last_tsc /\ tsc - last_tsc <= Precision \div 2

(* Mutant of Cached: the window moves along with every call.                 *)
CachedAlong == /\ at = "compare"
               /\ tsc # 0 /\ Near
               /\ Return(last_time, read)
               /\ last_tsc' = tsc
               /\ UNCHANGED <<machine, offset, setBack, tsc, last_time, asked, read>>

Cached == /\ at = "compare"
          /\ tsc # 0 /\ Near
          /\ Return(last_time, read)
          /\ UNCHANGED <<machine, offset, setBack, tsc, last_tsc, last_time, asked, read>>

(* Mutant of Measure: the new time is returned and not kept.                 *)
MeasureOnly == /\ at = "compare"
               /\ tsc # 0 /\ ~Near
               /\ last_tsc' = tsc
               /\ Return(nn_clock_time, real)
               /\ setBack' = FALSE
               /\ UNCHANGED <<machine, offset, tsc, last_time, asked, read>>

Measure == /\ at = "compare"
           /\ tsc # 0 /\ ~Near
           /\ last_tsc' = tsc
           /\ last_time' = nn_clock_time
           /\ read' = real
           /\ Return(nn_clock_time, real)
           /\ setBack' = FALSE
           /\ UNCHANGED <<machine, offset, tsc, asked>>

Next == \/ Tick \/ Migrate \/ SetTime
        \/ InitTsc \/ InitTime \/ Ask \/ Plain \/ Cached \/ Measure

Spec == Init /\ [][Next]_vars

-----------------------------------------------------------------------------
(* A call returns what the system's clock showed at most half the precision, *)
(* and what the processors disagree by, before the call began: however often *)
(* the cached time is used, its error does not add up, a delay between the   *)
(* two readings does no harm, and when the system's clock is set the callers *)
(* of nn_clock_now learn of it as soon.                                      *)
Fresh == at = "idle" => asked <= said + Precision \div 2 + Skew

(* The cache and the counters never make time go backwards, whatever         *)
(* processor the caller runs on: a later answer is less than an earlier one  *)
(* only if the system's own clock was set back after it was read.            *)
Monotone == [][now' >= now \/ setBack]_vars
=============================================================================
