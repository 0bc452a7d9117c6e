--------------------------------- MODULE Osal ---------------------------------
(* The timers of the operating system layers, on which every timeout of the      *)
(* library rests: a thread starts one and asks again and again whether it is     *)
(* over.  The layers have the arithmetic in common and differ in the clock they  *)
(* read.  Time passes by itself, in microseconds.                                *)
EXTENDS Calls, Timer

CONSTANTS UsecsPerTick,  \* USECS_PER_TICK of rtk
          TickModulus,   \* the tick counter of rtk counts up to this, external
          Epoch,         \* what erika adds to its seconds
          Starts,        \* times at which a timer is started
          Timeouts,      \* timeouts, in microseconds
          MaxPassed      \* bound: time looked at after the start

Layers == {"linux", "win32", "intime", "erika", "rtk"}

\* Linux, and macosx, rtems and vxworks: the monotonic clock.
osal_getrelativetime(t) == ToTime(t)
\* win32: a counter times a double that is not exact; rounded down, the product may
\* be one less.
osal_getrelativetime_win32(t) == {ToTime(t), ToTime(t - 1)}
\* intime: the clock of the day, which may be set.
osal_gettimeofday_intime(t) == ToTime(t + bus.set)
\* erika: the time stamp counter, from the year 2000.
osal_gettimeofday_erika(t) == [ToTime(t) EXCEPT !.sec = @ + Epoch]
\* rtk: ticks.
gettimeofday_rtk(t) ==
    LET tick == (t \div UsecsPerTick) % TickModulus
        CFG_TICKS_PER_SECOND == USECS_PER_SEC \div UsecsPerTick
    IN [sec |-> tick \div CFG_TICKS_PER_SECOND,
        usec |-> (tick % CFG_TICKS_PER_SECOND) * UsecsPerTick]

\* What the clock of the layer may show now.
Readings(t) ==
    CASE context = "linux" -> {osal_getrelativetime(t)}
      [] context = "win32" -> osal_getrelativetime_win32(t)
      [] context = "intime" -> {osal_gettimeofday_intime(t)}
      [] context = "erika" -> {osal_gettimeofday_erika(t)}
      [] OTHER -> {gettimeofday_rtk(t)}

Begin == \E layer \in Layers, t \in Starts :
            Start("timer", layer, [now |-> t, set |-> 0])

osal_timer_start ==
    /\ In("timer", "idle")
    /\ \E timeout \in Timeouts, r \in Readings(bus.now) :
         me' = [service |-> "timer", started |-> bus.now, timeout |-> timeout, start |-> r,
                stop |-> timeradd(r, ToTime(timeout)),
                expired |-> FALSE, diff |-> ToTime(0), end |-> r]
    /\ Goto("running") /\ UNCHANGED <<context, bus>>

\* The thread asks, and a caller of osal_time_diff compares two readings.
osal_timer_is_expired ==
    /\ scenario = "timer" /\ pc \in {"running", "asked"}
    /\ \E r \in Readings(bus.now) :
         me' = [me EXCEPT !.expired = ~timercmp(r, me.stop), !.end = r,
                          !.diff = osal_time_diff(me.start, r)]
    /\ Goto("asked") /\ UNCHANGED <<context, bus>>

TimePasses ==
    /\ scenario = "timer" /\ pc \in {"running", "asked"}
    /\ bus.now < me.started + MaxPassed
    /\ bus' = [bus EXCEPT !.now = @ + 1]
    /\ Goto("running") /\ UNCHANGED <<me, context>>

\* Someone sets the clock of the day.
ClockIsSet ==
    /\ In("timer", "running") /\ context = "intime" /\ bus.set = 0
    /\ \E d \in {-3, 3} : bus' = [bus EXCEPT !.set = d]
    /\ UNCHANGED <<scenario, pc, me, context>>

Next == \/ Begin \/ osal_timer_start \/ osal_timer_is_expired \/ TimePasses \/ ClockIsSet

-------------------------------------------------------------------------------
\* How coarse the clock of a layer is.
Grain == CASE context = "win32" -> 2 [] context = "rtk" -> UsecsPerTick [] OTHER -> 1

\* The clock did not jump: nobody set it, and the tick counter did not start again.
Steady == /\ bus.set = 0
          /\ context = "rtk" =>
               me.started \div (UsecsPerTick * TickModulus)
                 = bus.now \div (UsecsPerTick * TickModulus)

\* A timer is over neither before its time nor after it, up to the grain of a clock
\* that does not jump.
ExpiresOnTime ==
    In("timer", "asked") /\ Steady =>
       IF me.expired THEN bus.now - me.started > me.timeout - Grain
                     ELSE bus.now - me.started < me.timeout + Grain

\* The difference of two times is a time, and how far they are apart.
DiffIsElapsed ==
    In("timer", "asked") => /\ me.diff.usec \in 0 .. USECS_PER_SEC - 1
                            /\ Usecs(me.diff) = Usecs(me.end) - Usecs(me.start)
===============================================================================
