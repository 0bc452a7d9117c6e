--------------------------------- MODULE Timer ---------------------------------
(* The arithmetic of times in seconds and microseconds, as the operating system *)
(* layers have it in macros and in osal_time_diff.  A time is a record of sec    *)
(* and usec.                                                                     *)
EXTENDS Integers

CONSTANT USECS_PER_SEC
ASSUME SecondAssumption == USECS_PER_SEC \in Nat \ {0}

Times == [sec : Int, usec : 0 .. USECS_PER_SEC - 1]

\* How many microseconds a time stands for.
Usecs(t) == t.sec * USECS_PER_SEC + t.usec

\* The time of a number of microseconds.
ToTime(usecs) == [sec |-> usecs \div USECS_PER_SEC, usec |-> usecs % USECS_PER_SEC]

\* Variant: no carry.
timeradd_NoCarry(a, b) == [sec |-> a.sec + b.sec, usec |-> (a.usec + b.usec) % USECS_PER_SEC]

timeradd(a, b) ==
    IF a.usec + b.usec >= USECS_PER_SEC
    THEN [sec |-> a.sec + b.sec + 1, usec |-> a.usec + b.usec - USECS_PER_SEC]
    ELSE [sec |-> a.sec + b.sec, usec |-> a.usec + b.usec]

\* timercmp(a, b, <)
timercmp(a, b) == IF a.sec = b.sec THEN a.usec < b.usec ELSE a.sec < b.sec

osal_time_diff(start, end) ==
    IF end.usec < start.usec
    THEN [sec |-> end.sec - start.sec - 1, usec |-> end.usec + USECS_PER_SEC - start.usec]
    ELSE [sec |-> end.sec - start.sec, usec |-> end.usec - start.usec]
===============================================================================
