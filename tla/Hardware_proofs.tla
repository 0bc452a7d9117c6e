---------------------------- MODULE Hardware_proofs ----------------------------
(* Theorems of MCHardware and ErrorList: the timers, the controllers of the rtk  *)
(* port and the list of errors; and, for Queues_proofs, what the steps of the    *)
(* VxWorks port do, its types and the order in which it closes.                  *)
EXTENDS MCHardware, ErrorList, SequenceTheorems, FiniteSetTheorems,
        FunctionTheorems, TLAPS

-------------------------------------------------------------------------------
(* Times and timers *)

\* A number of microseconds is split without loss.
LEMMA SplitIsWhole ==
    ASSUME NEW usecs \in Int
    PROVE  ToTime(usecs) \in Times /\ Usecs(ToTime(usecs)) = usecs
<1> DEFINE M == USECS_PER_SEC
<1>1. M \in Nat /\ M > 0
  BY SecondAssumption
<1>2. usecs \div M \in Int /\ usecs % M \in 0 .. M - 1
  BY <1>1
<1>3. usecs = M * (usecs \div M) + (usecs % M)
  BY <1>1
<1> HIDE DEF M
<1>4. M * (usecs \div M) = (usecs \div M) * M
  BY <1>1, <1>2
<1>. QED
  BY <1>2, <1>3, <1>4 DEF ToTime, Times, Usecs, M

\* What osal_timer_is_expired compares (timercmp) is how many microseconds there
\* are.
THEOREM LessIsEarlier ==
    ASSUME NEW a \in Times, NEW b \in Times
    PROVE  timercmp(a, b) <=> Usecs(a) < Usecs(b)
<1> DEFINE M == USECS_PER_SEC
<1>1. /\ M \in Nat /\ M > 0
      /\ a.sec \in Int /\ b.sec \in Int
      /\ a.usec \in 0 .. M - 1 /\ b.usec \in 0 .. M - 1
  BY SecondAssumption DEF Times
<1> HIDE DEF M
<1>2. ASSUME NEW x \in Int, NEW y \in Int, x < y
      PROVE  x * M + M <= y * M
  <2>1. (y - x) * M >= M
    <3>1. y - x - 1 \in Nat
      BY <1>2
    <3>2. (y - x - 1) * M >= 0
      BY <1>1, <3>1
    <3>. QED
      BY <1>1, <1>2, <3>2
  <2>2. (y - x) * M = y * M - x * M
    BY <1>1
  <2>. QED
    BY <1>1, <2>1, <2>2
<1>3. CASE a.sec = b.sec
  <2>1. a.sec * M = b.sec * M
    BY <1>3
  <2>2. a.sec * M \in Int /\ b.sec * M \in Int
    BY <1>1
  <2>. QED
    BY <1>1, <1>3, <2>1, <2>2 DEF timercmp, Usecs, M
<1>4. CASE a.sec < b.sec
  <2>1. a.sec * M + M <= b.sec * M
    BY <1>1, <1>2, <1>4
  <2>2. a.sec * M \in Int /\ b.sec * M \in Int
    BY <1>1
  <2>. QED
    BY <1>1, <1>4, <2>1, <2>2 DEF timercmp, Usecs, M
<1>5. CASE b.sec < a.sec
  <2>1. b.sec * M + M <= a.sec * M
    BY <1>1, <1>2, <1>5
  <2>2. a.sec * M \in Int /\ b.sec * M \in Int
    BY <1>1
  <2>. QED
    BY <1>1, <1>5, <2>1, <2>2 DEF timercmp, Usecs, M
<1>. QED
  BY <1>1, <1>3, <1>4, <1>5

\* timeradd is addition, and its result is a time.
THEOREM AddIsSum ==
    ASSUME NEW a \in Times, NEW b \in Times
    PROVE  timeradd(a, b) \in Times /\ Usecs(timeradd(a, b)) = Usecs(a) + Usecs(b)
<1> DEFINE M == USECS_PER_SEC
<1>1. /\ M \in Nat /\ M > 0
      /\ a.sec \in Int /\ b.sec \in Int
      /\ a.usec \in 0 .. M - 1 /\ b.usec \in 0 .. M - 1
  BY SecondAssumption DEF Times
<1>2. timeradd(a, b) \in Times
  BY <1>1 DEF timeradd, Times
<1> HIDE DEF M
<1>3. /\ (a.sec + b.sec) * M = a.sec * M + b.sec * M
      /\ (a.sec + b.sec + 1) * M = a.sec * M + b.sec * M + M
      /\ a.sec * M \in Int /\ b.sec * M \in Int
  BY <1>1
<1>4. Usecs(timeradd(a, b)) = Usecs(a) + Usecs(b)
  BY <1>1, <1>3 DEF timeradd, Usecs, M
<1>. QED
  BY <1>2, <1>4

\* osal_time_diff is subtraction, and its result is a time.
THEOREM DiffIsDifference ==
    ASSUME NEW a \in Times, NEW b \in Times
    PROVE  /\ osal_time_diff(a, b) \in Times
           /\ Usecs(osal_time_diff(a, b)) = Usecs(b) - Usecs(a)
<1> DEFINE M == USECS_PER_SEC
<1>1. /\ M \in Nat /\ M > 0
      /\ a.sec \in Int /\ b.sec \in Int
      /\ a.usec \in 0 .. M - 1 /\ b.usec \in 0 .. M - 1
  BY SecondAssumption DEF Times
<1>2. osal_time_diff(a, b) \in Times
  BY <1>1 DEF osal_time_diff, Times
<1> HIDE DEF M
<1>3. /\ (b.sec - a.sec) * M = b.sec * M - a.sec * M
      /\ (b.sec - a.sec - 1) * M = b.sec * M - a.sec * M - M
      /\ a.sec * M \in Int /\ b.sec * M \in Int
  BY <1>1
<1>4. Usecs(osal_time_diff(a, b)) = Usecs(b) - Usecs(a)
  BY <1>1, <1>3 DEF osal_time_diff, Usecs, M
<1>. QED
  BY <1>2, <1>4

\* A timer that osal_timer_start started at one reading of the clock is expired at
\* another one exactly if the timeout lies between them.
THEOREM ExpiredAfterTimeout ==
    ASSUME NEW start \in Times, NEW now \in Times, NEW timeout \in Nat
    PROVE  ~ timercmp(now, timeradd(start, ToTime(timeout)))
             <=> Usecs(now) >= Usecs(start) + timeout
<1> DEFINE stop == timeradd(start, ToTime(timeout))
<1>1. stop \in Times /\ Usecs(stop) = Usecs(start) + timeout
  BY SplitIsWhole, AddIsSum
<1>2. Usecs(start) \in Int /\ Usecs(now) \in Int
  BY SecondAssumption DEF Usecs, Times
<1>3. timercmp(now, stop) <=> Usecs(now) < Usecs(stop)
  BY <1>1, LessIsEarlier
<1> HIDE DEF stop
<1>4. ~ timercmp(now, stop) <=> Usecs(now) >= Usecs(start) + timeout
  BY <1>1, <1>2, <1>3
<1>. QED
  BY <1>4 DEF stop

-------------------------------------------------------------------------------
(* A behaviour is about one of the modules *)

LEMMA FrameApart ==
  ASSUME FR!Next
  PROVE  scenario \in {"none", "frame"} /\ scenario' = "frame"
  BY DEF FR!Next, FR!Begin, FR!Start, FR!Calling, FR!In, FR!CallBroadcast, FR!CallAddressed,
     FR!CallLogical, FR!CallWord, FR!CallLRWDC, FR!One, FR!Call, FR!Goto, FR!LostOut,
     FR!LostBack, FR!Lost, FR!Answered, FR!NoFrame, FR!ReturnRead, FR!ReturnWord,
     FR!ReturnWrite, FR!ReturnLogical, FR!ReturnLRWDC, FR!Return

LEMMA ClockApart ==
  ASSUME CL!Next
  PROVE  scenario \in {"none", "timer"} /\ scenario' = "timer"
  BY DEF CL!Next, CL!Begin, CL!Start, CL!In, CL!Goto, CL!osal_timer_start,
     CL!osal_timer_is_expired, CL!TimePasses, CL!ClockIsSet

LEMMA MuxApart ==
  ASSUME MX!Next
  PROVE  scenario \in {"none", "mux"} /\ scenario' = "mux"
  <1>1. CASE MX!ecx_setupnic
    BY <1>1 DEF MX!ecx_setupnic
  <1>2. CASE \E t \in MX!Tasks : MX!Call(t)
    BY <1>2 DEF MX!Call, MX!At, MX!Jump, MX!ecx_getindex, MX!ScanNext, MX!Found,
       MX!MarkPrimary, MX!SendPrimary, MX!MarkSecondary, MX!SendSecondary, MX!PollPrimary,
       MX!PollSecondary, MX!PollAgain, MX!WaitOver, MX!MarkResend, MX!Resend, MX!Rewait,
       MX!RewaitOver, MX!Retry, MX!GiveUp, MX!UseAnswer, MX!ecx_setbufstat, MX!Mark,
       MX!Poll, MX!OutframSend
  <1>3. CASE \/ MX!mux_rx_callback \/ MX!Posted \/ MX!Overrun \/ MX!LoseFrame
             \/ MX!CloseDrain \/ MX!CloseDelete
    BY <1>3 DEF MX!mux_rx_callback, MX!Posted, MX!Overrun, MX!LoseFrame, MX!CloseDrain,
       MX!CloseDelete, MX!AllIdle
  <1> QED BY <1>1, <1>2, <1>3 DEF MX!Next

LEMMA EmacApart ==
  ASSUME EM!Next
  PROVE  scenario \in {"none", "emac"} /\ scenario' = "emac"
  BY DEF EM!Next, EM!bfin_EMAC_init, EM!Start, EM!Emac, EM!Keep, EM!DmaBegins, EM!DmaFills,
     EM!DmaCompletes, EM!RecvNothing, EM!RecvBad, EM!RecvBegins, EM!RecvCopies,
     EM!RecvReturns, EM!Sends, EM!SendBegins, EM!SendCopies, EM!SendEnables,
     EM!SendReturns, EM!DmaSends, EM!DmaSent, EM!vars

LEMMA FecApart ==
  ASSUME FE!Next
  PROVE  scenario \in {"none", "fec"} /\ scenario' = "fec"
  BY DEF FE!Next, FE!fec_ecat_init, FE!Start, FE!Fec, FE!Keep, FE!FrameComes, FE!MacSends,
     FE!MacStops, FE!MacStopped, FE!fec_ecat_recv, FE!fec_ecat_send, FE!Transmit

\* Before the scenario begins.
Fresh == scenario = "none" => pc = "idle" /\ me = NoCall

LEMMA FreshNext ==
  ASSUME Fresh, [Next]_vars
  PROVE  Fresh'
  BY FrameApart, ClockApart, MuxApart, EmacApart, FecApart DEF Fresh, Next, vars

LEMMA FreshAlways == Spec => []Fresh
  <1>1. Init => Fresh
    BY DEF Init, Fresh
  <1>2. Fresh /\ [Next]_vars => Fresh'
    BY FreshNext
  <1> QED BY <1>1, <1>2, PTL DEF Spec

-------------------------------------------------------------------------------
(* The timers of the layers *)

\* The instance has the arithmetic of Timer.
LEMMA SameArithmetic ==
  /\ \A a, b : /\ CL!timeradd(a, b) = timeradd(a, b)
               /\ CL!timercmp(a, b) = timercmp(a, b)
               /\ CL!osal_time_diff(a, b) = osal_time_diff(a, b)
  /\ \A t : CL!ToTime(t) = ToTime(t) /\ CL!Usecs(t) = Usecs(t)
  BY DEF CL!timeradd, timeradd, CL!timercmp, timercmp, CL!osal_time_diff, osal_time_diff,
     CL!ToTime, ToTime, CL!Usecs, Usecs

\* The microseconds that the clock of the layer may show at a time, when it was set by d.
Shown(t, d) ==
    CASE context = "linux"  -> {t}
      [] context = "win32"  -> {t, t - 1}
      [] context = "intime" -> {t + d}
      [] context = "erika"  -> {t + Epoch * USECS_PER_SEC}
      [] OTHER -> {((t \div UsecsPerTick) % TickModulus) * UsecsPerTick}

LEMMA Distributes ==
  ASSUME NEW x \in Int, NEW y \in Int, NEW z \in Int
  PROVE  (x + y) * z = x * z + y * z
  OBVIOUS

\* Quotient and remainder.
LEMMA DivMod ==
  ASSUME NEW a \in Int, NEW b \in Nat, b > 0
  PROVE  /\ a \div b \in Int /\ a % b \in 0 .. b - 1
         /\ a = (a \div b) * b + (a % b)
         /\ a \in Nat => a \div b \in Nat
  <1> DEFINE q == a \div b
             r == a % b
  <1>1. q \in Int /\ r \in 0 .. b - 1
    OBVIOUS
  <1>2. a = b * q + r
    BY <1>1
  <1>3. a \in Nat => q \in Nat
    OBVIOUS
  <1> HIDE DEF q, r
  <1>4. b * q = q * b
    BY <1>1
  <1>5. a = q * b + r
    BY <1>1, <1>2, <1>4
  <1>6. q \in Int /\ r \in 0 .. b - 1 /\ a = q * b + r /\ (a \in Nat => q \in Nat)
    BY <1>1, <1>3, <1>5, Zenon
  <1> QED BY <1>6 DEF q, r

\* They are the only ones.
LEMMA DivIsUnique ==
  ASSUME NEW b \in Nat \ {0}, NEW q \in Int, NEW p \in Int,
         NEW r \in 0 .. b - 1, NEW s \in 0 .. b - 1, q * b + r = p * b + s
  PROVE  q = p /\ r = s
  <1>1. ASSUME NEW x \in Int, NEW y \in Int, x < y
        PROVE  x * b + b <= y * b
    <2>1. (y - x - 1) * b >= 0
      <3>1. y - x - 1 \in Nat
        BY <1>1
      <3> HIDE <1>1
      <3>2. \A z \in Nat : z * b >= 0
        OBVIOUS
      <3> QED BY <3>1, <3>2
    <2>2. (y - x - 1) * b = y * b - x * b - b
      OBVIOUS
    <2>3. x * b \in Int /\ y * b \in Int
      OBVIOUS
    <2> QED BY <2>1, <2>2, <2>3
  <1>2. q * b \in Int /\ p * b \in Int
    OBVIOUS
  <1>3. ~(q < p) /\ ~(p < q)
    BY <1>1, <1>2
  <1> QED BY <1>3

\* The ticks of a second are its microseconds.
LEMMA TicksAreUsecs ==
  ASSUME ClockAssumption, NEW t \in Nat
  PROVE  /\ CL!gettimeofday_rtk(t) \in Times
         /\ Usecs(CL!gettimeofday_rtk(t)) = ((t \div UsecsPerTick) % TickModulus) * UsecsPerTick
  <1> DEFINE U == UsecsPerTick
             S == USECS_PER_SEC
             k == (t \div U) % TickModulus
             c == S \div U
             n == k \div c
             x == k % c
  <1>1. U \in Nat \ {0} /\ S \in Nat \ {0} /\ TickModulus \in Nat \ {0} /\ S % U = 0
    BY ClockAssumption, SecondAssumption DEF ClockAssumption
  <1>2. CL!gettimeofday_rtk(t) = [sec |-> n, usec |-> x * U]
    BY DEF CL!gettimeofday_rtk
  <1>3. t \div U \in Nat
    BY <1>1, DivMod
  <1>4. k \in Nat
    BY <1>1, <1>3, DivMod
  <1>5. c \in Nat /\ S = c * U
    BY <1>1, DivMod
  <1> HIDE DEF k, c, U, S
  <1>6. c # 0
    BY <1>1, <1>5
  <1>7. n \in Int /\ x \in 0 .. c - 1 /\ k = n * c + x
    BY <1>4, <1>5, <1>6, DivMod
  <1> HIDE DEF n, x
  <1>8. x * U \in Nat /\ x * U < S
    <2>1. x * U \in Nat
      <3>1. \A i \in Nat, j \in Nat : i * j \in Nat
        OBVIOUS
      <3> QED BY <1>1, <1>7, <3>1
    <2>2. (c - x) * U >= U
      <3>1. (c - x - 1) * U >= 0
        <4>1. c - x - 1 \in Nat
          BY <1>5, <1>7
        <4>2. \A i \in Nat, j \in Nat : i * j >= 0
          OBVIOUS
        <4> QED BY <1>1, <4>1, <4>2
      <3>2. (c - x - 1) * U = (c - x) * U - U
        BY <1>1, <1>5, <1>7
      <3>3. (c - x) * U \in Int
        BY <1>1, <1>5, <1>7
      <3> QED BY <1>1, <3>1, <3>2, <3>3
    <2>3. (c - x) * U = c * U - x * U
      BY <1>1, <1>5, <1>7
    <2> QED BY <1>1, <1>5, <2>1, <2>2, <2>3
  <1>9. n * S + x * U = k * U
    <2>1. (n * c + x) * U = (n * c) * U + x * U
      BY <1>1, <1>5, <1>7
    <2>2. (n * c) * U = n * (c * U)
      BY <1>1, <1>5, <1>7
    <2> QED BY <1>5, <1>7, <2>1, <2>2
  <1>10. [sec |-> n, usec |-> x * U] \in Times
    BY <1>1, <1>7, <1>8 DEF Times, S
  <1>11. Usecs([sec |-> n, usec |-> x * U]) = k * U
    BY <1>9 DEF Usecs, S
  <1> QED BY <1>2, <1>10, <1>11 DEF k, U

\* What a clock reads is a time, and shows its microseconds.
LEMMA ReadingsAre ==
  ASSUME ClockAssumption, NEW t \in Nat, bus.set \in Int, NEW r \in CL!Readings(t)
  PROVE  r \in Times /\ Usecs(r) \in Shown(t, bus.set)
  <1>1. ASSUME NEW u \in Int PROVE CL!ToTime(u) \in Times /\ Usecs(CL!ToTime(u)) = u
    BY SplitIsWhole, SameArithmetic
  <1>2. CASE context = "linux"
    BY <1>1, <1>2 DEF CL!Readings, CL!osal_getrelativetime, Shown
  <1>3. CASE context = "win32"
    <2>1. t - 1 \in Int
      OBVIOUS
    <2> QED BY <1>1, <1>3, <2>1 DEF CL!Readings, CL!osal_getrelativetime_win32, Shown
  <1>4. CASE context = "intime"
    <2>1. t + bus.set \in Int
      OBVIOUS
    <2> QED BY <1>1, <1>4, <2>1 DEF CL!Readings, CL!osal_gettimeofday_intime, Shown
  <1>5. CASE context = "erika"
    <2> DEFINE s == CL!ToTime(t)
    <2>1. s \in Times /\ Usecs(s) = t
      BY <1>1
    <2> HIDE DEF s
    <2>2. r = [s EXCEPT !.sec = @ + Epoch]
      BY <1>5 DEF CL!Readings, CL!osal_gettimeofday_erika, s
    <2>3. r \in Times /\ r.sec = s.sec + Epoch /\ r.usec = s.usec /\ s.sec \in Int
      BY <2>1, <2>2 DEF Times, ClockAssumption
    <2>4. (s.sec + Epoch) * USECS_PER_SEC = s.sec * USECS_PER_SEC + Epoch * USECS_PER_SEC
      <3>1. s.sec \in Int /\ Epoch \in Int /\ USECS_PER_SEC \in Int
        BY <2>3, SecondAssumption DEF ClockAssumption
      <3> QED BY <3>1, Distributes, Zenon
    <2>5. /\ s.sec * USECS_PER_SEC \in Int /\ Epoch * USECS_PER_SEC \in Int /\ s.usec \in Int
          /\ Usecs(r) = (s.sec + Epoch) * USECS_PER_SEC + s.usec
          /\ t = s.sec * USECS_PER_SEC + s.usec
      BY <2>1, <2>3, SecondAssumption DEF ClockAssumption, Usecs, Times
    <2>6. Usecs(r) = t + Epoch * USECS_PER_SEC
      BY <2>4, <2>5
    <2> QED BY <1>5, <2>3, <2>6 DEF Shown
  <1>6. CASE context \notin {"linux", "win32", "intime", "erika"}
    <2>1. r = CL!gettimeofday_rtk(t)
      BY <1>6 DEF CL!Readings
    <2>2. Shown(t, bus.set) = {((t \div UsecsPerTick) % TickModulus) * UsecsPerTick}
      BY <1>6 DEF Shown
    <2> QED BY <2>1, <2>2, TicksAreUsecs
  <1> QED BY <1>2, <1>3, <1>4, <1>5, <1>6

\* The ticks of a time within the round of the tick counter.
LEMMA TickIs ==
  ASSUME ClockAssumption, NEW x \in Nat
  PROVE  LET k == x \div (UsecsPerTick * TickModulus)
             a == ((x \div UsecsPerTick) % TickModulus) * UsecsPerTick
         IN  /\ a \in Int /\ k * (UsecsPerTick * TickModulus) \in Int
             /\ \E e \in 0 .. UsecsPerTick - 1 : x = k * (UsecsPerTick * TickModulus) + a + e
  <1> DEFINE U == UsecsPerTick
             M == TickModulus
             N == U * M
             q == x \div U
             p == q \div M
             d == q % M
             e == x % U
             k == x \div N
             r == x % N
  <1>1. U \in Nat /\ U > 0 /\ M \in Nat /\ M > 0
    BY DEF ClockAssumption
  <1> HIDE DEF U, M
  <1>2. q \in Nat /\ e \in 0 .. U - 1 /\ x = q * U + e
    BY <1>1, DivMod
  <1>3. p \in Nat /\ d \in 0 .. M - 1 /\ q = p * M + d
    BY <1>1, <1>2, DivMod
  <1>4. N \in Nat /\ N > 0
    <2>1. \A i \in Nat, j \in Nat : i > 0 /\ j > 0 => i * j \in Nat /\ i * j > 0
      OBVIOUS
    <2> QED BY <1>1, <2>1
  <1> HIDE DEF N
  <1>5. k \in Int /\ r \in 0 .. N - 1 /\ x = k * N + r
    BY <1>4, DivMod
  <1> HIDE DEF q, p, d, e, k, r
  <1>6. x = p * N + (d * U + e)
    <2>1. (p * M + d) * U = (p * M) * U + d * U
      <3>1. p * M \in Int /\ d \in Int /\ U \in Int
        BY <1>1, <1>3
      <3> QED BY <3>1, Distributes, Zenon
    <2>2. (p * M) * U = p * N
      BY <1>1, <1>3 DEF N
    <2>3. p * N \in Int /\ d * U \in Int
      BY <1>1, <1>3, <1>4
    <2> HIDE DEF N
    <2> QED BY <1>2, <1>3, <2>1, <2>2, <2>3
  <1>7. d * U + e \in 0 .. N - 1
    <2>1. d * U >= 0 /\ d * U \in Int
      <3>1. \A i \in Nat, j \in Nat : i * j >= 0 /\ i * j \in Int
        OBVIOUS
      <3> QED BY <1>1, <1>3, <3>1
    <2>2. d * U + U <= M * U
      <3>1. (M - d - 1) * U >= 0
        <4>1. M - d - 1 \in Nat
          BY <1>1, <1>3
        <4>2. \A i \in Nat, j \in Nat : i * j >= 0
          OBVIOUS
        <4> QED BY <1>1, <4>1, <4>2
      <3>2. (M - d - 1) * U = M * U - d * U - U
        BY <1>1, <1>3
      <3> QED BY <1>1, <2>1, <3>1, <3>2
    <2>3. M * U = N
      BY <1>1 DEF N
    <2> HIDE DEF N
    <2> QED BY <1>1, <1>2, <1>4, <2>1, <2>2, <2>3
  <1> HIDE DEF N
  <1>8. k = p
    <2> DEFINE f == d * U + e
    <2>1. f \in 0 .. N - 1 /\ k * N + r = p * N + f
      BY <1>5, <1>6, <1>7
    <2> HIDE DEF f
    <2> QED BY <1>3, <1>4, <1>5, <2>1, DivIsUnique
  <1>9. x = k * N + d * U + e /\ d * U \in Int /\ k * N \in Int
    <2>1. k * N \in Int /\ d * U \in Int /\ e \in Int
      BY <1>1, <1>2, <1>3, <1>4, <1>5
    <2> QED BY <1>6, <1>8, <2>1
  <1> QED BY <1>2, <1>9 DEF U, M, N, q, d, k

\* Two readings of a clock that does not jump are as far apart as the times they are
\* made at, up to its grain.
LEMMA ElapsedIs ==
  ASSUME ClockAssumption, context \in CL!Layers, CL!Steady,
         me.started \in Nat, bus.now \in Nat,
         NEW a \in Shown(me.started, 0), NEW b \in Shown(bus.now, 0)
  PROVE  /\ a \in Int /\ b \in Int /\ CL!Grain \in Int
         /\ (bus.now - me.started) - CL!Grain < b - a
         /\ b - a < (bus.now - me.started) + CL!Grain
  <1> DEFINE s == me.started
             t == bus.now
  <1>1. CASE context = "rtk"
    <2>1. s \div (UsecsPerTick * TickModulus) = t \div (UsecsPerTick * TickModulus)
      BY <1>1 DEF CL!Steady
    <2> DEFINE k == (s \div (UsecsPerTick * TickModulus)) * (UsecsPerTick * TickModulus)
    <2>2. PICK e \in 0 .. UsecsPerTick - 1 : s = k + a + e /\ a \in Int /\ k \in Int
      BY <1>1, TickIs DEF Shown
    <2>3. PICK f \in 0 .. UsecsPerTick - 1 : t = k + b + f /\ b \in Int
      BY <1>1, <2>1, TickIs DEF Shown
    <2>4. UsecsPerTick \in Nat /\ CL!Grain = UsecsPerTick
      BY <1>1 DEF CL!Grain, ClockAssumption
    <2> HIDE DEF k, s, t
    <2>5. a \in Int /\ b \in Int /\ (t - s) - UsecsPerTick < b - a
          /\ b - a < (t - s) + UsecsPerTick
      BY <2>2, <2>3, <2>4
    <2> QED BY <2>4, <2>5 DEF s, t
  <1>2. CASE context = "win32"
    BY <1>2 DEF Shown, CL!Grain
  <1>3. CASE context = "linux"
    BY <1>3 DEF Shown, CL!Grain
  <1>4. CASE context = "intime"
    BY <1>4 DEF Shown, CL!Grain
  <1>5. CASE context = "erika"
    <2> DEFINE g == Epoch * USECS_PER_SEC
    <2>1. g \in Int
      BY SecondAssumption DEF ClockAssumption
    <2>2. a = s + g /\ b = t + g
      BY <1>5 DEF Shown
    <2>3. CL!Grain = 1
      BY <1>5 DEF CL!Grain
    <2> HIDE DEF g
    <2> QED BY <2>1, <2>2, <2>3
  <1> QED BY <1>1, <1>2, <1>3, <1>4, <1>5 DEF CL!Layers

-------------------------------------------------------------------------------
TimerType == [service : {"timer"}, started : Nat, timeout : Nat, start : Times, stop : Times,
              expired : BOOLEAN, diff : Times, end : Times]

\* The clock was not set when the timer was started, ...
ClockInv ==
    /\ context \in CL!Layers /\ bus \in [now : Nat, set : Int]
    /\ pc \in {"idle", "running", "asked"}
    /\ pc = "idle" => bus.set = 0
    /\ pc # "idle" => /\ me \in TimerType
                      /\ Usecs(me.start) \in Shown(me.started, 0)
                      /\ me.stop = timeradd(me.start, ToTime(me.timeout))
    \* ... and what was asked last is what it shows now.
    /\ pc = "asked" => /\ Usecs(me.end) \in Shown(bus.now, bus.set)
                       /\ me.expired <=> ~timercmp(me.end, me.stop)
                       /\ me.diff = osal_time_diff(me.start, me.end)
TimerInv == scenario = "timer" => ClockInv

LEMMA TimerStarts ==
  ASSUME ClockAssumption, ClockInv, scenario = "timer", CL!osal_timer_start
  PROVE  ClockInv'
  <1>1. PICK timeout \in Timeouts, r \in CL!Readings(bus.now) :
          me' = [service |-> "timer", started |-> bus.now, timeout |-> timeout, start |-> r,
                 stop |-> CL!timeradd(r, CL!ToTime(timeout)),
                 expired |-> FALSE, diff |-> CL!ToTime(0), end |-> r]
    BY DEF CL!osal_timer_start
  <1>2. pc = "idle" /\ pc' = "running" /\ UNCHANGED <<context, bus>>
    BY DEF CL!osal_timer_start, CL!In, CL!Goto
  <1>3. r \in Times /\ Usecs(r) \in Shown(bus.now, 0) /\ bus.now \in Nat
    BY <1>2, ReadingsAre DEF ClockInv
  <1>4. timeout \in Nat
    BY DEF ClockAssumption
  <1>5. timeradd(r, ToTime(timeout)) \in Times /\ ToTime(0) \in Times
    BY <1>3, <1>4, SplitIsWhole, AddIsSum
  <1>6. me' \in TimerType /\ me'.start = r /\ me'.started = bus.now
        /\ me'.stop = timeradd(me'.start, ToTime(me'.timeout))
    BY <1>1, <1>3, <1>4, <1>5, SameArithmetic DEF TimerType
  <1> QED BY <1>2, <1>3, <1>6 DEF ClockInv, Shown

LEMMA TimerAsked ==
  ASSUME ClockAssumption, ClockInv, scenario = "timer", CL!osal_timer_is_expired
  PROVE  ClockInv'
  <1>1. PICK r \in CL!Readings(bus.now) :
          me' = [me EXCEPT !.expired = ~CL!timercmp(r, me.stop), !.end = r,
                           !.diff = CL!osal_time_diff(me.start, r)]
    BY DEF CL!osal_timer_is_expired
  <1>2. pc # "idle" /\ pc' = "asked" /\ UNCHANGED <<context, bus>>
    BY DEF CL!osal_timer_is_expired, CL!Goto
  <1>3. r \in Times /\ Usecs(r) \in Shown(bus.now, bus.set)
    BY <1>2, ReadingsAre DEF ClockInv
  <1> DEFINE x == ~timercmp(r, me.stop)
             y == osal_time_diff(me.start, r)
  <1>4. me \in TimerType
    BY <1>2 DEF ClockInv
  <1>5. y \in Times /\ x \in BOOLEAN
    BY <1>3, <1>4, DiffIsDifference DEF TimerType
  <1>6. me' = [me EXCEPT !.expired = x, !.end = r, !.diff = y]
    BY <1>1, SameArithmetic
  <1> HIDE DEF x, y
  <1>7. /\ me' \in TimerType /\ me'.end = r /\ (me'.expired <=> x) /\ me'.diff = y
        /\ me'.start = me.start /\ me'.stop = me.stop /\ me'.started = me.started
        /\ me'.timeout = me.timeout
    BY <1>3, <1>4, <1>5, <1>6 DEF TimerType
  <1> QED BY <1>2, <1>3, <1>7 DEF ClockInv, Shown, x, y

LEMMA TimerNext ==
  ASSUME ClockAssumption, TimerInv, Fresh, [Next]_vars
  PROVE  TimerInv'
  <1>1. CASE CL!Next
    <2>1. CASE CL!Begin
      <3>1. PICK layer \in CL!Layers, t \in Starts :
               CL!Start("timer", layer, [now |-> t, set |-> 0])
        BY <2>1 DEF CL!Begin
      <3>2. /\ pc = "idle" /\ pc' = pc /\ context' = layer /\ bus' = [now |-> t, set |-> 0]
            /\ t \in Nat
        BY <3>1 DEF CL!Start, Fresh, ClockAssumption
      <3> QED BY <3>2 DEF TimerInv, ClockInv
    <2>2. CASE CL!osal_timer_start
      BY <2>2, TimerStarts DEF TimerInv, CL!osal_timer_start, CL!In
    <2>3. CASE CL!osal_timer_is_expired
      BY <2>3, TimerAsked DEF TimerInv, CL!osal_timer_is_expired
    <2>4. CASE CL!TimePasses
      <3>1. /\ pc # "idle" /\ pc' = "running" /\ UNCHANGED <<me, context>>
            /\ bus' = [bus EXCEPT !.now = @ + 1] /\ ClockInv
        BY <2>4 DEF CL!TimePasses, CL!Goto, TimerInv
      <3>2. bus' \in [now : Nat, set : Int]
        BY <3>1 DEF ClockInv
      <3> QED BY <3>1, <3>2 DEF TimerInv, ClockInv, Shown
    <2>5. CASE CL!ClockIsSet
      <3>1. /\ pc = "running" /\ UNCHANGED <<pc, me, context>> /\ ClockInv
            /\ \E d \in {-3, 3} : bus' = [bus EXCEPT !.set = d]
        BY <2>5 DEF CL!ClockIsSet, CL!In, TimerInv
      <3>2. bus' \in [now : Nat, set : Int]
        BY <3>1 DEF ClockInv
      <3> QED BY <3>1, <3>2 DEF TimerInv, ClockInv, Shown
    <2> QED BY <1>1, <2>1, <2>2, <2>3, <2>4, <2>5 DEF CL!Next
  <1>2. CASE UNCHANGED vars
    BY <1>2 DEF vars, TimerInv, ClockInv, Shown
  <1>3. CASE FR!Next \/ MX!Next \/ EM!Next \/ FE!Next
    BY <1>3, FrameApart, MuxApart, EmacApart, FecApart DEF TimerInv
  <1> QED BY <1>1, <1>2, <1>3 DEF Next

\* Whatever the layer, the ticks and the times: the timer of a clock that does not jump
\* is over neither before its timeout nor after it, up to the grain of the clock, and
\* osal_time_diff is the time between its two arguments.
THEOREM TimersAreExact == Spec => []TimersExpire
  <1>1. Init => TimerInv
    BY DEF Init, TimerInv
  <1>2. ClockInv /\ scenario = "timer" => TimersExpire
    <2> SUFFICES ASSUME ClockInv, pc = "asked" PROVE TimersExpire
      BY DEF TimersExpire, CL!ExpiresOnTime, CL!DiffIsElapsed, CL!In
    <2>1. /\ me.start \in Times /\ me.end \in Times /\ me.timeout \in Nat /\ me.started \in Nat
          /\ bus.now \in Nat /\ bus.set \in Int
      BY DEF ClockInv, TimerType
    <2>2. me.expired <=> Usecs(me.end) >= Usecs(me.start) + me.timeout
      BY <2>1, ExpiredAfterTimeout DEF ClockInv
    <2>3. ASSUME CL!Steady
          PROVE  IF me.expired THEN bus.now - me.started > me.timeout - CL!Grain
                               ELSE bus.now - me.started < me.timeout + CL!Grain
      <3>1. /\ Usecs(me.start) \in Shown(me.started, 0)
            /\ Usecs(me.end) \in Shown(bus.now, 0)
        BY <2>3 DEF ClockInv, CL!Steady
      <3>2. /\ Usecs(me.start) \in Int /\ Usecs(me.end) \in Int /\ CL!Grain \in Int
            /\ (bus.now - me.started) - CL!Grain < Usecs(me.end) - Usecs(me.start)
            /\ Usecs(me.end) - Usecs(me.start) < (bus.now - me.started) + CL!Grain
        BY <2>1, <2>3, <3>1, ClockAssumption, ElapsedIs DEF ClockInv
      <3> QED BY <2>1, <2>2, <3>2
    <2>4. /\ me.diff.usec \in 0 .. USECS_PER_SEC - 1
          /\ Usecs(me.diff) = Usecs(me.end) - Usecs(me.start)
      <3>1. me.diff = osal_time_diff(me.start, me.end)
        BY DEF ClockInv
      <3>2. me.diff \in Times /\ Usecs(me.diff) = Usecs(me.end) - Usecs(me.start)
        BY <2>1, <3>1, DiffIsDifference
      <3> QED BY <3>2 DEF Times
    <2> QED BY <2>3, <2>4, SameArithmetic DEF TimersExpire, CL!ExpiresOnTime, CL!DiffIsElapsed
  <1>3. TimerInv => TimersExpire
    BY <1>2 DEF TimerInv, TimersExpire, CL!ExpiresOnTime, CL!DiffIsElapsed, CL!In
  <1> QED BY <1>1, <1>3, TimerNext, FreshAlways, ClockAssumption, PTL DEF Spec

-------------------------------------------------------------------------------
(* The controller of the Blackfin port *)

EmacType ==
    /\ DOMAIN context = {"rxIdx", "rxStatusWord", "txStatusWord", "rxBuffer", "txBuffer",
                         "asserts", "reader", "copy", "got", "sender"}
    /\ DOMAIN bus = {"bound", "frames", "slot", "fill", "bad", "tx", "sending", "wire",
                     "sent", "overrun", "collided"}
    /\ context.rxIdx \in {0, 1} /\ context.rxStatusWord \in [1 .. 2 -> {"none", "ok", "bad"}]
    /\ context.rxBuffer \in [1 .. 2 -> [1 .. 2 -> Nat]] /\ context.txBuffer \in [1 .. 2 -> Nat]
    /\ context.copy \in Seq(Nat) /\ context.got \in Seq(Seq(Nat))
    /\ context.sender \in [1 .. 2 -> [state : {"out", "copying", "waiting"}, half : 0 .. 2]]
    /\ bus.frames \in Nat /\ bus.slot \in {0, 1} /\ bus.fill \in 0 .. 3
    /\ bus.sending \in Seq(Nat) /\ bus.wire \in Seq(Seq(Nat)) /\ bus.sent \in Nat

\* Frames that came in and were not read, where the next of them is, and the other one.
Unread == bus.frames - Len(context.got) - IF bus.fill = 0 THEN 0 ELSE 1
Here == context.rxIdx + 1
There == 2 - context.rxIdx

\* The DMA engine is as many buffers ahead of the reader as there are unread frames, and
\* each of these is whole where the reader will look for it.
ReadInv ==
    /\ Unread \in {0, 1, 2}
    /\ bus.slot = IF Unread = 1 THEN 1 - context.rxIdx ELSE context.rxIdx
    /\ bus.fill # 0 => Unread # 2
    /\ context.rxStatusWord[Here] = "none" <=> Unread = 0
    /\ context.rxStatusWord[There] = "none" <=> Unread # 2
    /\ Unread # 0 => \A h \in 1 .. 2 : context.rxBuffer[Here][h] = Len(context.got) + 1
    /\ Unread = 2 => \A h \in 1 .. 2 : context.rxBuffer[There][h] = Len(context.got) + 2
    /\ \A h \in 1 .. 2 : h < bus.fill => context.rxBuffer[bus.slot + 1][h] = bus.frames
    /\ context.reader = "copying" =>
          /\ Unread # 0 /\ Len(context.copy) <= 2
          /\ \A h \in 1 .. Len(context.copy) : context.copy[h] = Len(context.got) + 1
    /\ \A i \in 1 .. Len(context.got) : context.got[i] = <<i, i>>

\* One task at most is in the call, and the frame it sends is on its way to the wire.
SendInv ==
    LET busy == {s \in {1, 2} : context.sender[s].state # "out"}
    IN /\ \A s \in {1, 2} : context.sender[s].state = "out" => context.sender[s] = EM!Free
       /\ busy = {} => bus.tx = "off" /\ ~context.txStatusWord /\ bus.sent = Len(bus.wire)
       /\ \A s \in busy :
             /\ busy = {s}
             /\ context.sender[s].state = "copying" =>
                   /\ bus.tx = "off" /\ ~context.txStatusWord /\ bus.sent = Len(bus.wire) + 1
                   /\ \A h \in 1 .. 2 : h <= context.sender[s].half => context.txBuffer[h] = s
             /\ context.sender[s].state = "waiting" =>
                   \/ /\ bus.tx = "on" /\ ~context.txStatusWord /\ bus.sent = Len(bus.wire) + 1
                      /\ \A h \in 1 .. 2 : context.txBuffer[h] = s
                      /\ Len(bus.sending) <= 2
                      /\ \A h \in 1 .. Len(bus.sending) : bus.sending[h] = s
                   \/ bus.tx = "off" /\ context.txStatusWord /\ bus.sent = Len(bus.wire)
       /\ \A i \in 1 .. Len(bus.wire) : bus.wire[i][1] = bus.wire[i][2]

EmacInv == scenario = "emac" => /\ EmacType
                                /\ ~bus.overrun => ReadInv
                                /\ ~bus.collided => SendInv

\* The receiving half of the controller, and the sending half.
Receiving == <<context.rxIdx, context.rxStatusWord, context.rxBuffer, context.reader,
               context.copy, context.got, bus.frames, bus.slot, bus.fill, bus.overrun>>
Sending == <<context.txStatusWord, context.txBuffer, context.sender, bus.tx, bus.sending,
             bus.wire, bus.sent, bus.collided>>

LEMMA ReadUnchanged ==
  ASSUME UNCHANGED Receiving, ~bus.overrun => ReadInv
  PROVE  ~bus'.overrun => ReadInv'
  BY DEF Receiving, ReadInv, Unread, Here, There

LEMMA SendUnchanged ==
  ASSUME UNCHANGED Sending, ~bus.collided => SendInv
  PROVE  ~bus'.collided => SendInv'
  BY DEF Sending, SendInv, EM!Free

LEMMA EmacNumbers ==
  ASSUME EmacType
  PROVE  /\ context.rxIdx \in {0, 1} /\ bus.slot \in {0, 1} /\ bus.fill \in 0 .. 3
         /\ bus.frames \in Nat /\ bus.sent \in Nat
         /\ Len(context.got) \in Nat /\ Len(context.copy) \in Nat
         /\ Len(bus.wire) \in Nat /\ Len(bus.sending) \in Nat
  BY DEF EmacType

LEMMA EmacBegins ==
  ASSUME EM!bfin_EMAC_init
  PROVE  EmacInv'
  <1>1. PICK asserts \in BOOLEAN, bound \in {<<MaxFrames, 0>>, <<0, MaxSent>>} :
          /\ context' = [rxIdx |-> 0, rxStatusWord |-> <<"none", "none">>,
                         txStatusWord |-> FALSE,
                         rxBuffer |-> [i \in 1 .. 2 |-> [h \in {1, 2} |-> 0]],
                         txBuffer |-> [h \in {1, 2} |-> 0], asserts |-> asserts,
                         reader |-> "out", copy |-> <<>>, got |-> <<>>,
                         sender |-> [s \in {1, 2} |-> [state |-> "out", half |-> 0]]]
          /\ bus' = [bound |-> bound, frames |-> 0, slot |-> 0, fill |-> 0, bad |-> FALSE,
                     tx |-> "off", sending |-> <<>>, wire |-> <<>>, sent |-> 0,
                     overrun |-> FALSE, collided |-> FALSE]
    BY DEF EM!bfin_EMAC_init, EM!Start, EM!ETH_RX_BUF_SIZE, EM!Halves, EM!NoFrame,
       EM!Senders, EM!Free
  <1>2. /\ context'.rxIdx = 0 /\ context'.rxStatusWord = <<"none", "none">>
        /\ context'.rxBuffer = [i \in 1 .. 2 |-> [h \in {1, 2} |-> 0]]
        /\ context'.txBuffer = [h \in {1, 2} |-> 0] /\ context'.copy = <<>>
        /\ context'.got = <<>>
        /\ context'.sender = [s \in {1, 2} |-> [state |-> "out", half |-> 0]]
        /\ bus'.frames = 0 /\ bus'.slot = 0 /\ bus'.fill = 0 /\ bus'.sending = <<>>
        /\ bus'.wire = <<>> /\ bus'.sent = 0
    BY <1>1
  <1>3. /\ DOMAIN context' = {"rxIdx", "rxStatusWord", "txStatusWord", "rxBuffer", "txBuffer",
                             "asserts", "reader", "copy", "got", "sender"}
        /\ DOMAIN bus' = {"bound", "frames", "slot", "fill", "bad", "tx", "sending", "wire",
                         "sent", "overrun", "collided"}
    BY <1>1
  <1>4. 1 .. 2 = {1, 2}
        /\ [state |-> "out", half |-> 0] \in [state : {"out", "copying", "waiting"}, half : 0 .. 2]
    OBVIOUS
  <1>5. <<"none", "none">> \in [1 .. 2 -> {"none", "ok", "bad"}]
    OBVIOUS
  <1>6. EmacType'
    BY <1>2, <1>3, <1>4, <1>5 DEF EmacType
  <1>7. ReadInv'
    BY <1>1 DEF ReadInv, Unread, Here, There
  <1>8. SendInv'
    BY <1>1 DEF SendInv, EM!Free
  <1> QED BY <1>6, <1>7, <1>8 DEF EmacInv

LEMMA EmacReceives ==
  ASSUME scenario = "emac", EmacInv,
         EM!DmaBegins \/ EM!DmaFills \/ EM!DmaCompletes
  PROVE  EmacInv'
  <1>1. EmacType /\ (~bus.overrun => ReadInv)
    BY DEF EmacInv
  <1>2. CASE EM!DmaBegins
    <2>1. PICK bad \in BOOLEAN :
            bus' = [bus EXCEPT !.frames = @ + 1, !.fill = 1, !.bad = bad,
                         !.overrun = @ \/ context.rxStatusWord[bus.slot + 1] # "none"]
      BY <1>2 DEF EM!DmaBegins
    <2>2. context' = context /\ bus.fill = 0
      BY <1>2 DEF EM!DmaBegins
    <2> DEFINE o == bus.overrun \/ context.rxStatusWord[bus.slot + 1] # "none"
    <2>3. bus' = [bus EXCEPT !.frames = @ + 1, !.fill = 1, !.bad = bad, !.overrun = o]
      BY <2>1, Zenon
    <2> HIDE DEF o
    <2>4. /\ bus'.frames = bus.frames + 1 /\ bus'.fill = 1 /\ DOMAIN bus' = DOMAIN bus
          /\ UNCHANGED <<bus.slot, bus.tx, bus.sending, bus.wire, bus.sent, bus.collided>>
          /\ bus'.overrun = o
      BY <1>1, <2>3 DEF EmacType
    <2>5. UNCHANGED Sending
      BY <2>2, <2>4 DEF Sending
    <2>6. ASSUME ~bus'.overrun PROVE ReadInv'
      <3>1. ReadInv /\ context.rxStatusWord[bus.slot + 1] = "none"
        BY <1>1, <2>4, <2>6, Zenon DEF o
      <3>2. Unread' = Unread /\ Here' = Here /\ There' = There
        BY <1>1, <2>2, <2>4, EmacNumbers DEF Unread, Here, There
      <3>3. Unread # 2
        BY <1>1, <3>1, EmacNumbers DEF ReadInv, Here, There
      <3>4. \A h \in 1 .. 2 : ~(h < bus'.fill)
        BY <2>4
      <3> QED BY <2>2, <2>4, <3>1, <3>2, <3>3, <3>4 DEF ReadInv
    <2>7. EmacType'
      BY <1>1, <2>2, <2>4 DEF EmacType
    <2> QED BY <2>5, <2>6, <2>7, SendUnchanged DEF EmacInv
  <1>3. CASE EM!DmaFills
    <2>1. /\ bus.fill \in {1, 2} /\ bus' = [bus EXCEPT !.fill = @ + 1]
          /\ context' = [context EXCEPT !.rxBuffer[bus.slot + 1][bus.fill] = bus.frames]
      BY <1>3 DEF EM!DmaFills, EM!Halves
    <2> DEFINE buffer == [context.rxBuffer EXCEPT ![bus.slot + 1][bus.fill] = bus.frames]
    <2>2. /\ bus.slot + 1 \in 1 .. 2 /\ bus.frames \in Nat
          /\ context.rxBuffer \in [1 .. 2 -> [1 .. 2 -> Nat]]
      BY <1>1 DEF EmacType
    <2>3. /\ buffer \in [1 .. 2 -> [1 .. 2 -> Nat]]
          /\ buffer[bus.slot + 1][bus.fill] = bus.frames
          /\ \A i, h \in 1 .. 2 : i # bus.slot + 1 \/ h # bus.fill =>
                buffer[i][h] = context.rxBuffer[i][h]
      BY <2>1, <2>2
    <2>4. context' = [context EXCEPT !.rxBuffer = buffer]
      BY <1>1, <2>1 DEF EmacType
    <2> HIDE DEF buffer
    <2>5. /\ DOMAIN context' = DOMAIN context /\ context'.rxBuffer = buffer
          /\ UNCHANGED <<context.rxIdx, context.rxStatusWord, context.reader, context.copy,
                         context.got, context.txStatusWord, context.txBuffer, context.sender>>
      BY <1>1, <2>4 DEF EmacType
    <2>6. /\ DOMAIN bus' = DOMAIN bus /\ bus'.fill = bus.fill + 1
          /\ UNCHANGED <<bus.frames, bus.slot, bus.overrun, bus.tx, bus.sending, bus.wire,
                         bus.sent, bus.collided>>
      BY <1>1, <2>1 DEF EmacType
    <2>7. UNCHANGED Sending
      BY <2>5, <2>6 DEF Sending
    <2>8. ASSUME ~bus'.overrun PROVE ReadInv'
      <3>1. ReadInv
        BY <1>1, <2>6, <2>8
      <3>2. Unread' = Unread /\ Here' = Here /\ There' = There
        BY <1>1, <2>1, <2>5, <2>6, EmacNumbers DEF Unread, Here, There
      <3>3. Here # There /\ Here \in 1 .. 2 /\ There \in 1 .. 2
        BY <1>1, EmacNumbers DEF Here, There
      <3>4. Unread \in {0, 1} /\ bus.slot + 1 = IF Unread = 1 THEN There ELSE Here
        BY <1>1, <2>1, <3>1, EmacNumbers DEF ReadInv, Here, There
      <3>5. Unread # 0 => \A h \in 1 .. 2 : buffer[Here][h] = Len(context.got) + 1
        BY <2>3, <3>1, <3>2, <3>3, <3>4 DEF ReadInv
      <3>6. \A h \in 1 .. 2 : h < bus'.fill => buffer[bus.slot + 1][h] = bus.frames
        BY <2>1, <2>2, <2>3, <2>6, <3>1 DEF ReadInv
      <3>7. Unread # 2 /\ (context.reader = "copying" => Unread # 0 /\ Len(context.copy) <= 2)
        BY <3>1, <3>4 DEF ReadInv
      <3> QED BY <2>5, <2>6, <3>1, <3>2, <3>5, <3>6, <3>7 DEF ReadInv
    <2>9. EmacType'
      <3>1. bus.fill + 1 \in 0 .. 3
        BY <2>1
      <3> QED BY <1>1, <2>3, <2>5, <2>6, <3>1 DEF EmacType
    <2> QED BY <2>7, <2>8, <2>9, SendUnchanged DEF EmacInv
  <1>4. CASE EM!DmaCompletes
    <2>1. /\ bus.fill = 3 /\ bus' = [bus EXCEPT !.fill = 0, !.slot = (@ + 1) % 2]
          /\ context' = [context EXCEPT !.rxStatusWord[bus.slot + 1] =
                                           IF bus.bad THEN "bad" ELSE "ok"]
      BY <1>4 DEF EM!DmaCompletes, EM!ETH_RX_BUF_SIZE
    <2> DEFINE word == IF bus.bad THEN "bad" ELSE "ok"
               status == [context.rxStatusWord EXCEPT ![bus.slot + 1] = word]
    <2>2. /\ bus.slot + 1 \in 1 .. 2 /\ context.rxStatusWord \in [1 .. 2 -> {"none", "ok", "bad"}]
          /\ word \in {"none", "ok", "bad"} /\ word # "none"
      BY <1>1 DEF EmacType
    <2> HIDE DEF word
    <2>3. /\ status \in [1 .. 2 -> {"none", "ok", "bad"}] /\ status[bus.slot + 1] # "none"
          /\ \A i \in 1 .. 2 : i # bus.slot + 1 => status[i] = context.rxStatusWord[i]
      BY <2>2
    <2>4. context' = [context EXCEPT !.rxStatusWord = status]
      BY <1>1, <2>1, Zenon DEF EmacType, word
    <2> HIDE DEF status
    <2>5. /\ DOMAIN context' = DOMAIN context /\ context'.rxStatusWord = status
          /\ UNCHANGED <<context.rxIdx, context.rxBuffer, context.reader, context.copy,
                         context.got, context.txStatusWord, context.txBuffer, context.sender>>
      BY <1>1, <2>4 DEF EmacType
    <2>6. /\ DOMAIN bus' = DOMAIN bus /\ bus'.fill = 0 /\ bus'.slot = 1 - bus.slot
          /\ UNCHANGED <<bus.frames, bus.overrun, bus.tx, bus.sending, bus.wire,
                         bus.sent, bus.collided>>
      <3>1. (bus.slot + 1) % 2 = 1 - bus.slot
        BY <1>1 DEF EmacType
      <3> QED BY <1>1, <2>1, <3>1 DEF EmacType
    <2>7. UNCHANGED Sending
      BY <2>5, <2>6 DEF Sending
    <2>8. ASSUME ~bus'.overrun PROVE ReadInv'
      <3>1. ReadInv
        BY <1>1, <2>6, <2>8
      <3>2. /\ Unread' = Unread + 1 /\ Here' = Here /\ There' = There
            /\ bus.frames = Len(context.got) + Unread + 1
        BY <1>1, <2>1, <2>5, <2>6, EmacNumbers DEF Unread, Here, There
      <3>3. Here # There /\ Here \in 1 .. 2 /\ There \in 1 .. 2
        BY <1>1, EmacNumbers DEF Here, There
      <3>4. Unread \in {0, 1} /\ bus.slot + 1 = IF Unread = 1 THEN There ELSE Here
        BY <1>1, <2>1, <3>1, EmacNumbers DEF ReadInv, Here, There
      <3>5. /\ Unread = 0 => \A h \in 1 .. 2 : context.rxBuffer[Here][h] = Len(context.got) + 1
            /\ Unread = 1 => \A h \in 1 .. 2 : context.rxBuffer[There][h] = Len(context.got) + 2
        BY <2>1, <3>1, <3>2, <3>4 DEF ReadInv
      <3>6. /\ status[Here] # "none"
            /\ status[There] = "none" <=> Unread' # 2
        BY <2>3, <3>1, <3>2, <3>3, <3>4 DEF ReadInv
      <3>7. bus'.slot = IF Unread' = 1 THEN 1 - context.rxIdx ELSE context.rxIdx
        BY <1>1, <2>6, <3>1, <3>2, <3>4, EmacNumbers DEF ReadInv
      <3>8. Unread' # 0 => \A h \in 1 .. 2 : context.rxBuffer[Here][h] = Len(context.got) + 1
        BY <3>1, <3>2, <3>4, <3>5 DEF ReadInv
      <3>9. context.reader = "copying" => Unread' # 0
        BY <3>2, <3>4
      <3> QED BY <2>5, <2>6, <3>1, <3>2, <3>4, <3>5, <3>6, <3>7, <3>8, <3>9 DEF ReadInv
    <2>9. EmacType'
      <3>1. 1 - bus.slot \in {0, 1}
        BY <1>1 DEF EmacType
      <3> QED BY <1>1, <2>3, <2>5, <2>6, <3>1 DEF EmacType
    <2> QED BY <2>7, <2>8, <2>9, SendUnchanged DEF EmacInv
  <1> QED BY <1>2, <1>3, <1>4

LEMMA EmacReads ==
  ASSUME scenario = "emac", EmacInv,
         EM!RecvBad \/ EM!RecvBegins \/ EM!RecvCopies \/ EM!RecvReturns
  PROVE  EmacInv'
  <1>1. EmacType /\ (~bus.overrun => ReadInv) /\ bus' = bus
    BY DEF EmacInv, EM!RecvBad, EM!RecvBegins, EM!RecvCopies, EM!RecvReturns
  <1>2. CASE EM!RecvBad
    <2>1. /\ context.reader = "out"
          /\ context' = [context EXCEPT !.reader = IF context.asserts THEN "stopped" ELSE "out"]
      BY <1>2 DEF EM!RecvBad
    <2>2. /\ context'.reader # "copying" /\ DOMAIN context' = DOMAIN context
          /\ UNCHANGED <<context.rxIdx, context.rxStatusWord, context.rxBuffer, context.copy,
                         context.got, context.txStatusWord, context.txBuffer, context.sender>>
      BY <1>1, <2>1 DEF EmacType
    <2>3. UNCHANGED Sending
      BY <1>1, <2>2 DEF Sending
    <2>4. ASSUME ~bus'.overrun PROVE ReadInv'
      BY <1>1, <2>2, <2>4 DEF ReadInv, Unread, Here, There
    <2>5. EmacType'
      BY <1>1, <2>2 DEF EmacType
    <2> QED BY <2>3, <2>4, <2>5, SendUnchanged DEF EmacInv
  <1>3. CASE EM!RecvBegins
    <2>1. /\ context.rxStatusWord[Here] = "ok"
          /\ context' = [context EXCEPT !.reader = "copying", !.copy = <<>>]
      BY <1>3 DEF EM!RecvBegins, EM!Status, Here
    <2>2. /\ context'.reader = "copying" /\ context'.copy = <<>>
          /\ DOMAIN context' = DOMAIN context
          /\ UNCHANGED <<context.rxIdx, context.rxStatusWord, context.rxBuffer,
                         context.got, context.txStatusWord, context.txBuffer, context.sender>>
      BY <1>1, <2>1 DEF EmacType
    <2>3. UNCHANGED Sending
      BY <1>1, <2>2 DEF Sending
    <2>4. ASSUME ~bus'.overrun PROVE ReadInv'
      BY <1>1, <2>1, <2>2, <2>4 DEF ReadInv, Unread, Here, There
    <2>5. EmacType'
      BY <1>1, <2>2 DEF EmacType
    <2> QED BY <2>3, <2>4, <2>5, SendUnchanged DEF EmacInv
  <1>4. CASE EM!RecvCopies
    <2> DEFINE part == context.rxBuffer[Here][Len(context.copy) + 1]
               copy == Append(context.copy, part)
    <2>1. /\ context.reader = "copying" /\ Len(context.copy) < 2
          /\ context' = [context EXCEPT !.copy = copy]
      BY <1>4 DEF EM!RecvCopies, Here
    <2>2. Here \in 1 .. 2 /\ Len(context.copy) + 1 \in 1 .. 2
      BY <1>1, <2>1, EmacNumbers DEF Here
    <2>3. part \in Nat
      BY <1>1, <2>2 DEF EmacType
    <2> HIDE DEF part
    <2>4. /\ copy \in Seq(Nat) /\ Len(copy) = Len(context.copy) + 1
          /\ copy[Len(context.copy) + 1] = part
          /\ \A h \in 1 .. Len(context.copy) : copy[h] = context.copy[h]
      BY <1>1, <2>3 DEF EmacType
    <2> HIDE DEF copy
    <2>5. /\ context'.copy = copy /\ DOMAIN context' = DOMAIN context
          /\ UNCHANGED <<context.rxIdx, context.rxStatusWord, context.rxBuffer, context.reader,
                         context.got, context.txStatusWord, context.txBuffer, context.sender>>
      BY <1>1, <2>1 DEF EmacType
    <2>6. UNCHANGED Sending
      BY <1>1, <2>5 DEF Sending
    <2>7. ASSUME ~bus'.overrun PROVE ReadInv'
      <3>1. ReadInv
        BY <1>1, <2>7
      <3>2. part = Len(context.got) + 1
        BY <2>1, <2>2, <3>1 DEF ReadInv, part
      <3>3. \A h \in 1 .. Len(copy) : copy[h] = Len(context.got) + 1
        BY <1>1, <2>1, <2>4, <3>1, <3>2, EmacNumbers DEF ReadInv
      <3>4. Unread' = Unread /\ Here' = Here /\ There' = There /\ Len(copy) <= 2
        BY <1>1, <2>1, <2>4, <2>5, EmacNumbers DEF Unread, Here, There
      <3> QED BY <1>1, <2>5, <3>1, <3>3, <3>4 DEF ReadInv
    <2>8. EmacType'
      BY <1>1, <2>4, <2>5 DEF EmacType
    <2> QED BY <2>6, <2>7, <2>8, SendUnchanged DEF EmacInv
  <1>5. CASE EM!RecvReturns
    <2> DEFINE got == Append(context.got, context.copy)
               status == [context.rxStatusWord EXCEPT ![Here] = "none"]
    <2>1. /\ context.reader = "copying" /\ Len(context.copy) = 2
          /\ context' = [context EXCEPT !.reader = "out", !.got = got, !.copy = <<>>,
                                        !.rxStatusWord = status, !.rxIdx = (@ + 1) % 2]
      BY <1>1, <1>5 DEF EM!RecvReturns, EM!ETH_RX_BUF_SIZE, Here, EmacType
    <2>2. Here \in 1 .. 2 /\ There \in 1 .. 2 /\ Here # There
      BY <1>1, EmacNumbers DEF Here, There
    <2>3. /\ status \in [1 .. 2 -> {"none", "ok", "bad"}]
          /\ status[Here] = "none" /\ status[There] = context.rxStatusWord[There]
      BY <1>1, <2>2 DEF EmacType
    <2>4. /\ got \in Seq(Seq(Nat)) /\ Len(got) = Len(context.got) + 1
          /\ got[Len(context.got) + 1] = context.copy
          /\ \A i \in 1 .. Len(context.got) : got[i] = context.got[i]
      BY <1>1 DEF EmacType
    <2> HIDE DEF got, status
    <2>5. /\ context'.rxIdx = 1 - context.rxIdx /\ context'.got = got /\ context'.copy = <<>>
          /\ context'.reader = "out" /\ context'.rxStatusWord = status
          /\ DOMAIN context' = DOMAIN context
          /\ UNCHANGED <<context.rxBuffer, context.txStatusWord, context.txBuffer,
                         context.sender>>
      <3>1. (context.rxIdx + 1) % 2 = 1 - context.rxIdx
        BY <1>1 DEF EmacType
      <3> QED BY <1>1, <2>1, <3>1 DEF EmacType
    <2>6. UNCHANGED Sending
      BY <1>1, <2>5 DEF Sending
    <2>7. ASSUME ~bus'.overrun PROVE ReadInv'
      <3>1. ReadInv
        BY <1>1, <2>7
      <3>2. Unread' = Unread - 1 /\ Here' = There /\ There' = Here
        <4>1. Here' = There /\ There' = Here
          BY <1>1, <2>5, EmacNumbers DEF Here, There
        <4>2. Len(context'.got) = Len(context.got) + 1 /\ UNCHANGED <<bus.frames, bus.fill>>
          BY <1>1, <2>4, <2>5
        <4>3. Unread' = Unread - 1
          BY <1>1, <4>2, EmacNumbers DEF Unread
        <4> QED BY <4>1, <4>3
      <3>3. Unread \in {1, 2}
        BY <2>1, <3>1 DEF ReadInv
      <3>4. context.copy = <<Len(context.got) + 1, Len(context.got) + 1>>
        <4>1. \A h \in 1 .. 2 : context.copy[h] = Len(context.got) + 1
          BY <2>1, <3>1 DEF ReadInv
        <4> QED BY <1>1, <2>1, <4>1 DEF EmacType
      <3>5. \A i \in 1 .. Len(got) : got[i] = <<i, i>>
        <4>1. \A i \in 1 .. Len(context.got) : got[i] = <<i, i>>
          BY <2>4, <3>1 DEF ReadInv
        <4>2. \A i \in 1 .. Len(got) : i \in 1 .. Len(context.got) \/ i = Len(context.got) + 1
          BY <1>1, <2>4, EmacNumbers
        <4> QED BY <2>4, <3>4, <4>1, <4>2
      <3>6. bus.slot = IF Unread' = 1 THEN 1 - context'.rxIdx ELSE context'.rxIdx
        BY <1>1, <2>5, <3>1, <3>2, <3>3, EmacNumbers DEF ReadInv
      <3>7. Unread' # 0 => \A h \in 1 .. 2 : context.rxBuffer[There][h] = Len(got) + 1
        <4>1. Unread = 2 => \A h \in 1 .. 2 : context.rxBuffer[There][h] = Len(context.got) + 2
          BY <3>1 DEF ReadInv
        <4>2. Len(got) + 1 = Len(context.got) + 2
          BY <1>1, <2>4, EmacNumbers
        <4> QED BY <3>2, <3>3, <4>1, <4>2
      <3>8. /\ Unread' \in {0, 1}
            /\ status[There] = "none" <=> Unread' = 0
            /\ status[Here] = "none"
        BY <2>3, <3>1, <3>2, <3>3 DEF ReadInv
      <3>9. \A h \in 1 .. 2 : h < bus.fill => context.rxBuffer[bus.slot + 1][h] = bus.frames
        BY <3>1 DEF ReadInv
      <3> QED BY <1>1, <2>5, <3>2, <3>5, <3>6, <3>7, <3>8, <3>9 DEF ReadInv
    <2>8. EmacType'
      <3>1. 1 - context.rxIdx \in {0, 1}
        BY <1>1 DEF EmacType
      <3> QED BY <1>1, <2>3, <2>4, <2>5, <3>1 DEF EmacType
    <2> QED BY <2>6, <2>7, <2>8, SendUnchanged DEF EmacInv
  <1> QED BY <1>2, <1>3, <1>4, <1>5

LEMMA EmacSends ==
  ASSUME scenario = "emac", EmacInv, NEW s \in {1, 2},
         EM!SendBegins(s) \/ EM!SendCopies(s) \/ EM!SendEnables(s) \/ EM!SendReturns(s)
  PROVE  EmacInv'
  <1>1. EmacType /\ (~bus.collided => SendInv) /\ (~bus.overrun => ReadInv)
    BY DEF EmacInv
  <1> DEFINE mine == context.sender[s]
             r == 3 - s
  <1>2. /\ r \in {1, 2} /\ r # s /\ {1, 2} = {s, r}
        /\ mine \in [state : {"out", "copying", "waiting"}, half : 0 .. 2]
        /\ context.sender[r] \in [state : {"out", "copying", "waiting"}, half : 0 .. 2]
    BY <1>1 DEF EmacType
  <1>3. ASSUME NEW new \in [state : {"out", "copying", "waiting"}, half : 0 .. 2],
               context'.sender = [context.sender EXCEPT ![s] = new]
        PROVE  /\ context'.sender \in
                    [1 .. 2 -> [state : {"out", "copying", "waiting"}, half : 0 .. 2]]
               /\ context'.sender[s] = new /\ context'.sender[r] = context.sender[r]
    BY <1>1, <1>2, <1>3 DEF EmacType
  <1> HIDE DEF r
  <1>4. CASE EM!SendBegins(s)
    <2> DEFINE new == [state |-> "copying", half |-> 0]
               c == bus.collided \/ \E q \in {1, 2} : context.sender[q] # EM!Free
    <2>1. /\ mine.state = "out" /\ context' = [context EXCEPT !.sender[s] = new]
          /\ bus' = [bus EXCEPT !.sent = @ + 1, !.collided = c]
      BY <1>4 DEF EM!SendBegins, EM!Sends, EM!Senders
    <2> HIDE DEF c
    <2>2. /\ context'.sender = [context.sender EXCEPT ![s] = new]
          /\ DOMAIN context' = DOMAIN context
          /\ UNCHANGED <<context.rxIdx, context.rxStatusWord, context.rxBuffer, context.reader,
                         context.copy, context.got, context.txStatusWord, context.txBuffer>>
      BY <1>1, <2>1 DEF EmacType
    <2>3. /\ bus'.sent = bus.sent + 1 /\ bus'.collided = c /\ DOMAIN bus' = DOMAIN bus
          /\ UNCHANGED <<bus.frames, bus.slot, bus.fill, bus.overrun, bus.tx, bus.sending,
                         bus.wire>>
      BY <1>1, <2>1 DEF EmacType
    <2>4. /\ context'.sender \in
                    [1 .. 2 -> [state : {"out", "copying", "waiting"}, half : 0 .. 2]]
          /\ context'.sender[s] = new /\ context'.sender[r] = context.sender[r]
      <3>1. new \in [state : {"out", "copying", "waiting"}, half : 0 .. 2]
        OBVIOUS
      <3> QED BY <1>3, <2>2, <3>1
    <2>5. UNCHANGED Receiving
      BY <2>2, <2>3 DEF Receiving
    <2>6. ASSUME ~bus'.collided PROVE SendInv'
      <3>1. SendInv /\ \A q \in {1, 2} : context.sender[q] = EM!Free
        BY <1>1, <2>3, <2>6, Zenon DEF c
      <3>2. bus.tx = "off" /\ ~context.txStatusWord /\ bus.sent = Len(bus.wire)
        BY <3>1 DEF SendInv, EM!Free
      <3>3. context'.sender[r] = EM!Free /\ new.state = "copying" /\ new.half = 0
        BY <1>2, <2>4, <3>1
      <3> HIDE DEF new
      <3>4. /\ {q \in {1, 2} : context'.sender[q].state # "out"} = {s}
            /\ \A h \in 1 .. 2 : ~(h <= new.half)
        BY <1>2, <2>4, <3>3 DEF EM!Free
      <3> QED BY <1>2, <2>2, <2>3, <2>4, <3>1, <3>2, <3>3, <3>4 DEF SendInv, EM!Free
    <2>7. EmacType'
      BY <1>1, <2>2, <2>3, <2>4 DEF EmacType
    <2> QED BY <1>1, <2>5, <2>6, <2>7, ReadUnchanged DEF EmacInv
  <1>5. CASE EM!SendCopies(s)
    <2> DEFINE new == [mine EXCEPT !.half = @ + 1]
               buffer == [context.txBuffer EXCEPT ![mine.half + 1] = s]
    <2>1. /\ mine.state = "copying" /\ mine.half < 2 /\ bus' = bus
          /\ context' = [context EXCEPT !.sender[s].half = @ + 1, !.txBuffer[mine.half + 1] = s]
      BY <1>5 DEF EM!SendCopies, EM!Sends
    <2>2. /\ mine.half + 1 \in 1 .. 2 /\ new.state = "copying" /\ new.half = mine.half + 1
          /\ new \in [state : {"out", "copying", "waiting"}, half : 0 .. 2]
      BY <1>2, <2>1
    <2>3. context' = [context EXCEPT !.sender[s] = new, !.txBuffer = buffer]
      BY <1>1, <2>1 DEF EmacType
    <2> HIDE DEF new
    <2>4. /\ buffer \in [1 .. 2 -> Nat] /\ buffer[mine.half + 1] = s
          /\ \A h \in 1 .. 2 : h # mine.half + 1 => buffer[h] = context.txBuffer[h]
      BY <1>1, <2>2 DEF EmacType
    <2> HIDE DEF buffer
    <2>5. /\ context'.sender = [context.sender EXCEPT ![s] = new] /\ context'.txBuffer = buffer
          /\ DOMAIN context' = DOMAIN context
          /\ UNCHANGED <<context.rxIdx, context.rxStatusWord, context.rxBuffer, context.reader,
                         context.copy, context.got, context.txStatusWord>>
      BY <1>1, <2>3 DEF EmacType
    <2>6. /\ context'.sender \in
                    [1 .. 2 -> [state : {"out", "copying", "waiting"}, half : 0 .. 2]]
          /\ context'.sender[s] = new /\ context'.sender[r] = context.sender[r]
      BY <1>3, <2>2, <2>5
    <2>7. UNCHANGED Receiving
      BY <2>1, <2>5 DEF Receiving
    <2>8. ASSUME ~bus'.collided PROVE SendInv'
      <3>1. SendInv
        BY <1>1, <2>1, <2>8
      <3>2. /\ {q \in {1, 2} : context.sender[q].state # "out"} = {s}
            /\ bus.tx = "off" /\ ~context.txStatusWord /\ bus.sent = Len(bus.wire) + 1
            /\ \A h \in 1 .. 2 : h <= mine.half => context.txBuffer[h] = s
        BY <2>1, <3>1 DEF SendInv
      <3>3. {q \in {1, 2} : context'.sender[q].state # "out"} = {s}
        BY <1>2, <2>2, <2>6, <3>2
      <3>4. \A h \in 1 .. 2 : h <= new.half => buffer[h] = s
        BY <1>2, <2>2, <2>4, <3>2
      <3>5. \A q \in {1, 2} : context'.sender[q].state = "out" => context'.sender[q] = EM!Free
        BY <1>2, <2>2, <2>6, <3>1 DEF SendInv
      <3> QED BY <1>2, <2>1, <2>2, <2>5, <2>6, <3>1, <3>2, <3>3, <3>4, <3>5 DEF SendInv
    <2>9. EmacType'
      BY <1>1, <2>1, <2>4, <2>5, <2>6 DEF EmacType
    <2> QED BY <1>1, <2>7, <2>8, <2>9, ReadUnchanged DEF EmacInv
  <1>6. CASE EM!SendEnables(s)
    <2> DEFINE new == [state |-> "waiting", half |-> 0]
    <2>1. /\ mine.state = "copying" /\ mine.half = 2
          /\ context' = [context EXCEPT !.sender[s] = new]
          /\ bus' = [bus EXCEPT !.tx = "on", !.sending = <<>>]
      BY <1>6 DEF EM!SendEnables, EM!Sends
    <2>2. /\ context'.sender = [context.sender EXCEPT ![s] = new]
          /\ DOMAIN context' = DOMAIN context
          /\ UNCHANGED <<context.rxIdx, context.rxStatusWord, context.rxBuffer, context.reader,
                         context.copy, context.got, context.txStatusWord, context.txBuffer>>
      BY <1>1, <2>1 DEF EmacType
    <2>3. /\ bus'.tx = "on" /\ bus'.sending = <<>> /\ DOMAIN bus' = DOMAIN bus
          /\ UNCHANGED <<bus.frames, bus.slot, bus.fill, bus.overrun, bus.collided, bus.wire,
                         bus.sent>>
      BY <1>1, <2>1 DEF EmacType
    <2>4. /\ context'.sender \in
                    [1 .. 2 -> [state : {"out", "copying", "waiting"}, half : 0 .. 2]]
          /\ context'.sender[s] = new /\ context'.sender[r] = context.sender[r]
      <3>1. new \in [state : {"out", "copying", "waiting"}, half : 0 .. 2]
        OBVIOUS
      <3> QED BY <1>3, <2>2, <3>1
    <2>5. UNCHANGED Receiving
      BY <2>2, <2>3 DEF Receiving
    <2>6. ASSUME ~bus'.collided PROVE SendInv'
      <3>1. SendInv
        BY <1>1, <2>3, <2>6
      <3>2. /\ {q \in {1, 2} : context.sender[q].state # "out"} = {s}
            /\ ~context.txStatusWord /\ bus.sent = Len(bus.wire) + 1
            /\ \A h \in 1 .. 2 : context.txBuffer[h] = s
        BY <2>1, <3>1 DEF SendInv
      <3>3. {q \in {1, 2} : context'.sender[q].state # "out"} = {s}
        BY <1>2, <2>4, <3>2
      <3>4. \A q \in {1, 2} : context'.sender[q].state = "out" => context'.sender[q] = EM!Free
        BY <1>2, <2>4, <3>1 DEF SendInv
      <3> QED BY <1>2, <2>2, <2>3, <2>4, <3>1, <3>2, <3>3, <3>4 DEF SendInv
    <2>7. EmacType'
      BY <1>1, <2>2, <2>3, <2>4 DEF EmacType
    <2> QED BY <1>1, <2>5, <2>6, <2>7, ReadUnchanged DEF EmacInv
  <1>7. CASE EM!SendReturns(s)
    <2>1. /\ mine.state = "waiting" /\ context.txStatusWord /\ bus' = bus
          /\ context' = [context EXCEPT !.sender[s] = EM!Free, !.txStatusWord = FALSE]
      BY <1>7 DEF EM!SendReturns, EM!Sends
    <2>2. /\ context'.sender = [context.sender EXCEPT ![s] = EM!Free]
          /\ ~context'.txStatusWord /\ DOMAIN context' = DOMAIN context
          /\ UNCHANGED <<context.rxIdx, context.rxStatusWord, context.rxBuffer, context.reader,
                         context.copy, context.got, context.txBuffer>>
      BY <1>1, <2>1 DEF EmacType
    <2>4. /\ context'.sender \in
                    [1 .. 2 -> [state : {"out", "copying", "waiting"}, half : 0 .. 2]]
          /\ context'.sender[s] = EM!Free /\ context'.sender[r] = context.sender[r]
      <3>1. EM!Free \in [state : {"out", "copying", "waiting"}, half : 0 .. 2]
        BY DEF EM!Free
      <3> QED BY <1>3, <2>2, <3>1
    <2>5. UNCHANGED Receiving
      BY <2>1, <2>2 DEF Receiving
    <2>6. ASSUME ~bus'.collided PROVE SendInv'
      <3>1. SendInv
        BY <1>1, <2>1, <2>6
      <3>2. /\ {q \in {1, 2} : context.sender[q].state # "out"} = {s}
            /\ bus.tx = "off" /\ bus.sent = Len(bus.wire)
        BY <2>1, <3>1 DEF SendInv
      <3>3. {q \in {1, 2} : context'.sender[q].state # "out"} = {}
        BY <1>2, <2>4, <3>2 DEF EM!Free
      <3>4. \A q \in {1, 2} : context'.sender[q].state = "out" => context'.sender[q] = EM!Free
        BY <1>2, <2>4, <3>1 DEF SendInv
      <3> QED BY <2>1, <2>2, <3>1, <3>2, <3>3, <3>4 DEF SendInv
    <2>7. EmacType'
      BY <1>1, <2>1, <2>2, <2>4 DEF EmacType
    <2> QED BY <1>1, <2>5, <2>6, <2>7, ReadUnchanged DEF EmacInv
  <1> QED BY <1>4, <1>5, <1>6, <1>7

LEMMA EmacTransmits ==
  ASSUME scenario = "emac", EmacInv, EM!DmaSends \/ EM!DmaSent
  PROVE  EmacInv'
  <1>1. EmacType /\ (~bus.collided => SendInv) /\ (~bus.overrun => ReadInv)
    BY DEF EmacInv
  <1>2. ASSUME ~bus.collided, bus.tx = "on"
        PROVE  \E s \in {1, 2} :
                 /\ {q \in {1, 2} : context.sender[q].state # "out"} = {s}
                 /\ context.sender[s].state = "waiting"
                 /\ ~context.txStatusWord /\ bus.sent = Len(bus.wire) + 1
                 /\ \A h \in 1 .. 2 : context.txBuffer[h] = s
                 /\ \A h \in 1 .. Len(bus.sending) : bus.sending[h] = s
    <2>1. SendInv
      BY <1>1, <1>2
    <2>2. PICK s \in {1, 2} : context.sender[s].state # "out"
      BY <1>2, <2>1 DEF SendInv
    <2>3. context.sender[s].state \in {"out", "copying", "waiting"}
      BY <1>1 DEF EmacType
    <2> QED BY <1>2, <2>1, <2>2, <2>3 DEF SendInv
  <1>3. CASE EM!DmaSends
    <2> DEFINE part == context.txBuffer[Len(bus.sending) + 1]
               sending == Append(bus.sending, part)
    <2>1. /\ bus.tx = "on" /\ Len(bus.sending) < 2 /\ context' = context
          /\ bus' = [bus EXCEPT !.sending = sending]
      BY <1>3 DEF EM!DmaSends
    <2>2. Len(bus.sending) + 1 \in 1 .. 2 /\ part \in Nat
      BY <1>1, <2>1, EmacNumbers DEF EmacType
    <2>3. /\ sending \in Seq(Nat) /\ Len(sending) = Len(bus.sending) + 1
          /\ sending[Len(bus.sending) + 1] = part
          /\ \A h \in 1 .. Len(bus.sending) : sending[h] = bus.sending[h]
          /\ \A h \in 1 .. Len(sending) : h \in 1 .. Len(bus.sending) \/ h = Len(bus.sending) + 1
      <3> HIDE DEF part
      <3> QED BY <1>1, <2>2 DEF EmacType
    <2> HIDE DEF sending
    <2>4. /\ bus'.sending = sending /\ DOMAIN bus' = DOMAIN bus
          /\ UNCHANGED <<bus.frames, bus.slot, bus.fill, bus.overrun, bus.collided, bus.wire,
                         bus.sent, bus.tx>>
      BY <1>1, <2>1 DEF EmacType
    <2>5. UNCHANGED Receiving
      BY <2>1, <2>4 DEF Receiving
    <2>6. ASSUME ~bus'.collided PROVE SendInv'
      <3>1. SendInv
        BY <1>1, <2>4, <2>6
      <3>2. PICK s \in {1, 2} :
                 /\ {q \in {1, 2} : context.sender[q].state # "out"} = {s}
                 /\ context.sender[s].state = "waiting"
                 /\ ~context.txStatusWord /\ bus.sent = Len(bus.wire) + 1
                 /\ \A h \in 1 .. 2 : context.txBuffer[h] = s
                 /\ \A h \in 1 .. Len(bus.sending) : bus.sending[h] = s
        BY <1>2, <2>1, <2>4, <2>6
      <3>3. \A h \in 1 .. Len(sending) : sending[h] = s
        BY <2>2, <2>3, <3>2
      <3>4. Len(sending) <= 2
        BY <1>1, <2>1, <2>3, EmacNumbers
      <3> QED BY <2>1, <2>4, <3>1, <3>2, <3>3, <3>4 DEF SendInv
    <2>7. EmacType'
      BY <1>1, <2>1, <2>3, <2>4 DEF EmacType
    <2> QED BY <1>1, <2>5, <2>6, <2>7, ReadUnchanged DEF EmacInv
  <1>4. CASE EM!DmaSent
    <2> DEFINE wire == Append(bus.wire, bus.sending)
    <2>1. /\ bus.tx = "on" /\ Len(bus.sending) = 2
          /\ bus' = [bus EXCEPT !.tx = "off", !.wire = wire, !.sending = <<>>]
          /\ context' = [context EXCEPT !.txStatusWord = TRUE]
      BY <1>4 DEF EM!DmaSent
    <2>2. /\ wire \in Seq(Seq(Nat)) /\ Len(wire) = Len(bus.wire) + 1
          /\ wire[Len(bus.wire) + 1] = bus.sending
          /\ \A i \in 1 .. Len(bus.wire) : wire[i] = bus.wire[i]
          /\ \A i \in 1 .. Len(wire) : i \in 1 .. Len(bus.wire) \/ i = Len(bus.wire) + 1
      BY <1>1 DEF EmacType
    <2> HIDE DEF wire
    <2>3. /\ bus'.tx = "off" /\ bus'.wire = wire /\ bus'.sending = <<>>
          /\ DOMAIN bus' = DOMAIN bus
          /\ UNCHANGED <<bus.frames, bus.slot, bus.fill, bus.overrun, bus.collided, bus.sent>>
      BY <1>1, <2>1 DEF EmacType
    <2>4. /\ context'.txStatusWord /\ DOMAIN context' = DOMAIN context
          /\ UNCHANGED <<context.rxIdx, context.rxStatusWord, context.rxBuffer, context.reader,
                         context.copy, context.got, context.txBuffer, context.sender>>
      BY <1>1, <2>1 DEF EmacType
    <2>5. UNCHANGED Receiving
      BY <2>3, <2>4 DEF Receiving
    <2>6. ASSUME ~bus'.collided PROVE SendInv'
      <3>1. SendInv
        BY <1>1, <2>3, <2>6
      <3>2. PICK s \in {1, 2} :
                 /\ {q \in {1, 2} : context.sender[q].state # "out"} = {s}
                 /\ context.sender[s].state = "waiting"
                 /\ ~context.txStatusWord /\ bus.sent = Len(bus.wire) + 1
                 /\ \A h \in 1 .. 2 : context.txBuffer[h] = s
                 /\ \A h \in 1 .. Len(bus.sending) : bus.sending[h] = s
        BY <1>2, <2>1, <2>3, <2>6
      <3>3. \A i \in 1 .. Len(wire) : wire[i][1] = wire[i][2]
        <4>1. bus.sending[1] = s /\ bus.sending[2] = s
          BY <2>1, <3>2
        <4>2. \A i \in 1 .. Len(bus.wire) : bus.wire[i][1] = bus.wire[i][2]
          BY <3>1 DEF SendInv
        <4> QED BY <2>2, <4>1, <4>2
      <3> QED BY <2>2, <2>3, <2>4, <3>1, <3>2, <3>3 DEF SendInv
    <2>7. EmacType'
      BY <1>1, <2>2, <2>3, <2>4 DEF EmacType
    <2> QED BY <1>1, <2>5, <2>6, <2>7, ReadUnchanged DEF EmacInv
  <1> QED BY <1>3, <1>4

LEMMA EmacNext ==
  ASSUME EmacInv, [Next]_vars
  PROVE  EmacInv'
  <1>1. CASE EM!Next
    <2>1. CASE EM!bfin_EMAC_init
      BY <2>1, EmacBegins
    <2>2. CASE EM!DmaBegins \/ EM!DmaFills \/ EM!DmaCompletes
      <3>1. scenario = "emac"
        BY <2>2 DEF EM!DmaBegins, EM!DmaFills, EM!DmaCompletes, EM!Emac
      <3> QED BY <2>2, <3>1, EmacReceives
    <2>3. CASE EM!RecvBad \/ EM!RecvBegins \/ EM!RecvCopies \/ EM!RecvReturns
      <3>1. scenario = "emac"
        BY <2>3 DEF EM!RecvBad, EM!RecvBegins, EM!RecvCopies, EM!RecvReturns, EM!Emac
      <3> QED BY <2>3, <3>1, EmacReads
    <2>4. ASSUME NEW s \in EM!Senders,
                 EM!SendBegins(s) \/ EM!SendCopies(s) \/ EM!SendEnables(s) \/ EM!SendReturns(s)
          PROVE  EmacInv'
      <3>1. scenario = "emac" /\ s \in {1, 2}
        BY <2>4 DEF EM!SendBegins, EM!SendCopies, EM!SendEnables, EM!SendReturns, EM!Sends,
           EM!Emac, EM!Senders
      <3> QED BY <2>4, <3>1, EmacSends
    <2>5. CASE EM!DmaSends \/ EM!DmaSent
      <3>1. scenario = "emac"
        BY <2>5 DEF EM!DmaSends, EM!DmaSent, EM!Emac
      <3> QED BY <2>5, <3>1, EmacTransmits
    <2>6. CASE EM!RecvNothing
      <3>1. UNCHANGED <<scenario, context, bus>>
        BY <2>6 DEF EM!RecvNothing, EM!vars
      <3> QED BY <3>1, ReadUnchanged, SendUnchanged DEF EmacInv, EmacType, Receiving, Sending
    <2> QED BY <1>1, <2>1, <2>2, <2>3, <2>4, <2>5, <2>6 DEF EM!Next
  <1>2. CASE UNCHANGED vars
    <2>1. UNCHANGED <<scenario, context, bus>>
      BY <1>2 DEF vars
    <2> QED BY <2>1, ReadUnchanged, SendUnchanged DEF EmacInv, EmacType, Receiving, Sending
  <1>3. CASE FR!Next \/ MX!Next \/ CL!Next \/ FE!Next
    BY <1>3, FrameApart, MuxApart, ClockApart, FecApart DEF EmacInv
  <1> QED BY <1>1, <1>2, <1>3 DEF Next

\* The instance counts as FiniteSets does.
LEMMA SameCount ==
  ASSUME NEW S
  PROVE  EM!Cardinality(S) = Cardinality(S) /\ MX!Cardinality(S) = Cardinality(S)
  BY Zenon DEF EM!Cardinality, MX!Cardinality, Cardinality, EM!IsFiniteSet, MX!IsFiniteSet, IsFiniteSet

LEMMA EmacSound ==
  ASSUME EmacInv
  PROVE  EM!ReadInOrder /\ EM!SentWhole
  <1>1. ASSUME scenario = "emac", ~bus.overrun
        PROVE  context.got = [i \in 1 .. Len(context.got) |-> <<i, i>>]
    <2>1. /\ context.got \in Seq(Seq(Nat))
          /\ \A i \in 1 .. Len(context.got) : context.got[i] = <<i, i>>
      BY <1>1 DEF EmacInv, ReadInv, EmacType
    <2>2. context.got \in [1 .. Len(context.got) -> Seq(Nat)]
      BY <2>1, LenProperties
    <2>3. context.got = [i \in 1 .. Len(context.got) |-> context.got[i]]
      BY <2>2
    <2> QED BY <2>1, <2>3
  <1>2. ASSUME scenario = "emac", ~bus.collided
        PROVE  /\ \A i \in DOMAIN bus.wire : bus.wire[i][1] = bus.wire[i][2]
               /\ bus.sent - Cardinality({s \in {1, 2} : context.sender[s] # EM!Free})
                     <= Len(bus.wire)
    <2>1. SendInv /\ EmacType
      BY <1>2 DEF EmacInv
    <2>2. \A i \in DOMAIN bus.wire : bus.wire[i][1] = bus.wire[i][2]
      <3>1. DOMAIN bus.wire = 1 .. Len(bus.wire)
        BY <2>1, LenProperties DEF EmacType
      <3> QED BY <2>1, <3>1 DEF SendInv
    <2> DEFINE busy == {s \in {1, 2} : context.sender[s] # EM!Free}
    <2>3. busy = {s \in {1, 2} : context.sender[s].state # "out"}
      BY <2>1 DEF SendInv, EM!Free
    <2>4. bus.sent \in Nat /\ Len(bus.wire) \in Nat
      BY <2>1, EmacNumbers
    <2>5. CASE busy = {}
      <3>1. bus.sent = Len(bus.wire) /\ Cardinality(busy) = 0
        BY <2>1, <2>3, <2>5, FS_EmptySet DEF SendInv
      <3> QED BY <2>2, <2>4, <3>1
    <2>6. CASE busy # {}
      <3>1. PICK s \in {1, 2} : busy = {s} /\ context.sender[s].state # "out"
        BY <2>1, <2>3, <2>6 DEF SendInv
      <3>2. context.sender[s].state \in {"copying", "waiting"}
        BY <2>1, <3>1 DEF EmacType
      <3>3. bus.sent <= Len(bus.wire) + 1
        BY <2>1, <2>3, <2>4, <3>1, <3>2 DEF SendInv
      <3>4. Cardinality(busy) = 1
        BY <3>1, FS_Singleton
      <3> HIDE DEF busy
      <3>5. bus.sent - Cardinality(busy) <= Len(bus.wire)
        BY <2>4, <3>3, <3>4
      <3> QED BY <2>2, <3>5 DEF busy
    <2> QED BY <2>5, <2>6
  <1>3. EM!ReadInOrder
    BY <1>1, Zenon DEF EM!ReadInOrder, EM!Emac
  <1>4. EM!SentWhole
    <2>1. EM!Senders = {1, 2}
      BY DEF EM!Senders
    <2> QED BY <1>2, <2>1, SameCount DEF EM!SentWhole, EM!Emac
  <1> QED BY <1>3, <1>4

-------------------------------------------------------------------------------
(* The controller of the Freescale port: its receive ring *)

\* How far a slot is ahead of another one in a ring.
Ahead(i, from) == IF i >= from THEN i - from ELSE i + NUM_BUFFERS - from

LEMMA RingSteps ==
  ASSUME BuffersAssumption
  PROVE  /\ \A i \in FE!Slots : FE!Up(i) = (IF i + 1 = NUM_BUFFERS THEN 0 ELSE i + 1)
                                /\ FE!Up(i) \in FE!Slots
         /\ \A i, j \in FE!Slots : Ahead(i, j) \in 0 .. NUM_BUFFERS - 1
         /\ \A i, j \in FE!Slots : Ahead(i, j) = 0 <=> i = j
         /\ \A i, j, k \in FE!Slots : Ahead(i, k) = Ahead(j, k) => i = j
         /\ \A i, j \in FE!Slots : Ahead(i, FE!Up(j)) =
                                      IF i = j THEN NUM_BUFFERS - 1 ELSE Ahead(i, j) - 1
         /\ \A i, j \in FE!Slots : Ahead(FE!Up(i), j) =
                                      IF Ahead(i, j) = NUM_BUFFERS - 1 THEN 0 ELSE Ahead(i, j) + 1
  <1>1. NUM_BUFFERS \in Nat /\ NUM_BUFFERS >= 2 /\ FE!Slots = 0 .. NUM_BUFFERS - 1
    BY DEF BuffersAssumption, FE!Slots
  <1>2. ASSUME NEW i \in FE!Slots
        PROVE  FE!Up(i) = IF i + 1 = NUM_BUFFERS THEN 0 ELSE i + 1
    <2>1. CASE i + 1 = NUM_BUFFERS
      BY <1>1, <2>1 DEF FE!Up
    <2>2. CASE i + 1 # NUM_BUFFERS
      <3>1. i + 1 \in 0 .. NUM_BUFFERS - 1
        BY <1>1, <2>2
      <3> QED BY <1>1, <2>2, <3>1 DEF FE!Up
    <2> QED BY <2>1, <2>2
  <1>3. \A i \in FE!Slots : FE!Up(i) \in FE!Slots
    BY <1>1, <1>2
  <1>4. \A i, j \in FE!Slots : Ahead(i, j) \in 0 .. NUM_BUFFERS - 1
    BY <1>1 DEF Ahead
  <1>5. \A i, j \in FE!Slots : Ahead(i, j) = 0 <=> i = j
    BY <1>1 DEF Ahead
  <1>6. \A i, j, k \in FE!Slots : Ahead(i, k) = Ahead(j, k) => i = j
    BY <1>1 DEF Ahead
  <1>7. \A i, j \in FE!Slots : Ahead(i, FE!Up(j)) =
                                  IF i = j THEN NUM_BUFFERS - 1 ELSE Ahead(i, j) - 1
    BY <1>1, <1>2 DEF Ahead
  <1>8. \A i, j \in FE!Slots : Ahead(FE!Up(i), j) =
                                  IF Ahead(i, j) = NUM_BUFFERS - 1 THEN 0 ELSE Ahead(i, j) + 1
    BY <1>1, <1>2 DEF Ahead
  <1> QED BY <1>2, <1>3, <1>4, <1>5, <1>6, <1>7, <1>8

Kinds == {"none", "whole", "damaged", "large", "first", "last"}
Descriptors == [frame : Nat, kind : Kinds]
Ends == {"whole", "last"}

\* The n descriptors from next on, up to at, wait for the driver.
RingOk(n, rx, next, at) ==
    /\ n \in 0 .. NUM_BUFFERS /\ rx \in [FE!Slots -> Descriptors]
    /\ next \in FE!Slots /\ at \in FE!Slots
    /\ \A i \in FE!Slots : rx[i] # FE!Empty <=> Ahead(i, next) < n
    /\ Ahead(at, next) = IF n = NUM_BUFFERS THEN 0 ELSE n

\* They are of frames that came after those that were read, in order.
OrderOk(rx, next, got, top) ==
    /\ top \in Nat /\ got \in Seq(Nat)
    /\ \A i \in FE!Slots : rx[i] # FE!Empty =>
          rx[i].frame \in 1 .. top /\ \A k \in 1 .. Len(got) : got[k] < rx[i].frame
    /\ \A i, j \in FE!Slots :
          rx[i] # FE!Empty /\ rx[j] # FE!Empty /\ Ahead(i, next) < Ahead(j, next)
                           /\ rx[i].kind \in Ends => rx[i].frame < rx[j].frame
    /\ \A k \in 1 .. Len(got) : got[k] \in 1 .. top
    /\ \A k, l \in 1 .. Len(got) : k < l => got[k] < got[l]

\* Each whole frame and each end of one in two parts was read, or is waiting.
KeptOk(rx, got, kinds) ==
    \A f \in 1 .. Len(kinds) :
       kinds[f] \in {"whole", "split"} <=>
          \/ \E k \in 1 .. Len(got) : got[k] = f
          \/ \E i \in FE!Slots : rx[i].kind \in Ends /\ rx[i].frame = f

LEMMA EmptyIs ==
  /\ FE!Empty \in Descriptors /\ FE!Empty.kind \notin Ends
  /\ \A f \in Nat, k \in Kinds : /\ [frame |-> f, kind |-> k] \in Descriptors
                                 /\ k # "none" => [frame |-> f, kind |-> k] # FE!Empty
  BY DEF FE!Empty, Descriptors, Kinds, Ends

LEMMA RingPut ==
  ASSUME BuffersAssumption, NEW n, NEW rx, NEW next, NEW at, RingOk(n, rx, next, at),
         rx[at] = FE!Empty, NEW d \in Descriptors, d # FE!Empty
  PROVE  n < NUM_BUFFERS /\ RingOk(n + 1, [rx EXCEPT ![at] = d], next, FE!Up(at))
  <1>1. NUM_BUFFERS \in Nat /\ NUM_BUFFERS >= 2
    BY DEF BuffersAssumption
  <1>2. n \in Nat /\ n < NUM_BUFFERS /\ Ahead(at, next) = n
    BY <1>1, RingSteps DEF RingOk
  <1>3. \A i \in FE!Slots : [rx EXCEPT ![at] = d][i] = IF i = at THEN d ELSE rx[i]
    BY DEF RingOk
  <1>4. \A i \in FE!Slots : [rx EXCEPT ![at] = d][i] # FE!Empty <=> Ahead(i, next) < n + 1
    <2> SUFFICES ASSUME NEW i \in FE!Slots
                 PROVE  [rx EXCEPT ![at] = d][i] # FE!Empty <=> Ahead(i, next) < n + 1
      OBVIOUS
    <2>1. /\ Ahead(i, next) \in Nat /\ (Ahead(i, next) = n => i = at)
          /\ rx[i] # FE!Empty <=> Ahead(i, next) < n
      <3>1. next \in FE!Slots /\ at \in FE!Slots /\ (rx[i] # FE!Empty <=> Ahead(i, next) < n)
        BY DEF RingOk
      <3>2. Ahead(i, next) \in Nat
        BY <1>1, <3>1, RingSteps
      <3>3. Ahead(i, next) = Ahead(at, next) => i = at
        BY <3>1, RingSteps
      <3> QED BY <1>2, <3>1, <3>2, <3>3
    <2>2. CASE i = at
      BY <1>2, <1>3, <2>1, <2>2
    <2>3. CASE i # at
      <3>1. [rx EXCEPT ![at] = d][i] = rx[i]
        BY <1>3, <2>3
      <3>2. Ahead(i, next) # n
        BY <2>1, <2>3
      <3> QED BY <1>2, <2>1, <3>1, <3>2
    <2> QED BY <2>2, <2>3
  <1>5. Ahead(FE!Up(at), next) = IF n + 1 = NUM_BUFFERS THEN 0 ELSE n + 1
    BY <1>1, <1>2, RingSteps DEF RingOk
  <1>6. [rx EXCEPT ![at] = d] \in [FE!Slots -> Descriptors] /\ FE!Up(at) \in FE!Slots
    BY RingSteps DEF RingOk
  <1>7. n + 1 \in 0 .. NUM_BUFFERS /\ next \in FE!Slots
    BY <1>1, <1>2 DEF RingOk
  <1> QED BY <1>2, <1>4, <1>5, <1>6, <1>7 DEF RingOk

LEMMA RingTake ==
  ASSUME BuffersAssumption, NEW n, NEW rx, NEW next, NEW at, RingOk(n, rx, next, at),
         rx[next] # FE!Empty
  PROVE  RingOk(n - 1, [rx EXCEPT ![next] = FE!Empty], FE!Up(next), at)
  <1>1. NUM_BUFFERS \in Nat /\ NUM_BUFFERS >= 2
    BY DEF BuffersAssumption
  <1>2. n \in 1 .. NUM_BUFFERS /\ next \in FE!Slots /\ at \in FE!Slots
    BY <1>1, RingSteps DEF RingOk
  <1> DEFINE new == [rx EXCEPT ![next] = FE!Empty]
  <1>3. new \in [FE!Slots -> Descriptors] /\ \A i \in FE!Slots : new[i] = IF i = next THEN FE!Empty ELSE rx[i]
    BY EmptyIs DEF RingOk
  <1> HIDE DEF new
  <1>4. ASSUME NEW i \in FE!Slots
        PROVE  new[i] # FE!Empty <=> Ahead(i, FE!Up(next)) < n - 1
    <2>1. CASE i = next
      BY <1>1, <1>2, <1>3, <2>1, RingSteps
    <2>2. CASE i # next
      <3>1. Ahead(i, FE!Up(next)) = Ahead(i, next) - 1 /\ Ahead(i, next) \in Nat
        BY <1>1, <1>2, <2>2, RingSteps
      <3>2. rx[i] # FE!Empty <=> Ahead(i, next) < n
        BY DEF RingOk
      <3> QED BY <1>2, <1>3, <2>2, <3>1, <3>2
    <2> QED BY <2>1, <2>2
  <1>5. Ahead(at, FE!Up(next)) = IF n - 1 = NUM_BUFFERS THEN 0 ELSE n - 1
    <2>1. Ahead(at, next) = IF n = NUM_BUFFERS THEN 0 ELSE n
      BY DEF RingOk
    <2>2. Ahead(at, FE!Up(next)) = IF at = next THEN NUM_BUFFERS - 1 ELSE Ahead(at, next) - 1
      BY <1>2, RingSteps
    <2>3. Ahead(at, next) = 0 <=> at = next
      BY <1>2, RingSteps
    <2> QED BY <1>1, <1>2, <2>1, <2>2, <2>3
  <1>6. n - 1 \in 0 .. NUM_BUFFERS /\ FE!Up(next) \in FE!Slots
    BY <1>1, <1>2, RingSteps
  <1> QED BY <1>2, <1>3, <1>4, <1>5, <1>6 DEF RingOk, new

LEMMA OrderPut ==
  ASSUME BuffersAssumption, NEW n, NEW rx, NEW next, NEW at, RingOk(n, rx, next, at),
         rx[at] = FE!Empty, NEW d \in Descriptors, d # FE!Empty,
         NEW got, NEW top, OrderOk(rx, next, got, top),
         d.frame \in 1 .. top + 1, d.frame >= top,
         \A i \in FE!Slots : rx[i].kind \in Ends => rx[i].frame < d.frame,
         \A k \in 1 .. Len(got) : got[k] < d.frame
  PROVE  OrderOk([rx EXCEPT ![at] = d], next, got, d.frame)
  <1> DEFINE new == [rx EXCEPT ![at] = d]
  <1>1. NUM_BUFFERS \in Nat /\ top \in Nat /\ got \in Seq(Nat) /\ d.frame \in Nat
    BY DEF BuffersAssumption, OrderOk, Descriptors
  <1>2. n \in Nat /\ next \in FE!Slots /\ at \in FE!Slots /\ Ahead(at, next) = n
        /\ \A i \in FE!Slots : rx[i] # FE!Empty <=> Ahead(i, next) < n
    BY <1>1, RingSteps DEF RingOk
  <1>3. \A i \in FE!Slots : new[i] = IF i = at THEN d ELSE rx[i]
    BY DEF RingOk
  <1> HIDE DEF new
  <1>4. ASSUME NEW i \in FE!Slots, new[i] # FE!Empty
        PROVE  new[i].frame \in 1 .. d.frame /\ \A k \in 1 .. Len(got) : got[k] < new[i].frame
    BY <1>1, <1>3, <1>4 DEF OrderOk
  <1>5. ASSUME NEW i \in FE!Slots, NEW j \in FE!Slots, new[i] # FE!Empty, new[j] # FE!Empty,
               Ahead(i, next) < Ahead(j, next), new[i].kind \in Ends
        PROVE  new[i].frame < new[j].frame
    <2>1. Ahead(i, next) \in Nat /\ Ahead(j, next) \in Nat
      BY <1>1, <1>2, RingSteps
    <2>2. i # at
      BY <1>2, <1>3, <1>5, <2>1
    <2>3. CASE j = at
      BY <1>3, <1>5, <2>2, <2>3
    <2>4. CASE j # at
      BY <1>3, <1>5, <2>2, <2>4 DEF OrderOk
    <2> QED BY <2>3, <2>4
  <1>6. /\ \A k \in 1 .. Len(got) : got[k] \in 1 .. d.frame
        /\ \A k, l \in 1 .. Len(got) : k < l => got[k] < got[l]
    BY <1>1 DEF OrderOk
  <1> QED BY <1>1, <1>4, <1>5, <1>6 DEF OrderOk, new

LEMMA OrderTake ==
  ASSUME BuffersAssumption, NEW n, NEW rx, NEW next, NEW at, RingOk(n, rx, next, at),
         rx[next] # FE!Empty, NEW got, NEW top, OrderOk(rx, next, got, top)
  PROVE  OrderOk([rx EXCEPT ![next] = FE!Empty], FE!Up(next),
                 IF rx[next].kind \in Ends THEN Append(got, rx[next].frame) ELSE got, top)
  <1> DEFINE new == [rx EXCEPT ![next] = FE!Empty]
             f == rx[next].frame
             all == IF rx[next].kind \in Ends THEN Append(got, f) ELSE got
  <1>1. NUM_BUFFERS \in Nat /\ top \in Nat /\ got \in Seq(Nat) /\ next \in FE!Slots
        /\ f \in 1 .. top
    BY DEF BuffersAssumption, OrderOk, RingOk
  <1>2. \A i \in FE!Slots : new[i] = IF i = next THEN FE!Empty ELSE rx[i]
    BY DEF RingOk
  <1>3. ASSUME NEW i \in FE!Slots, new[i] # FE!Empty
        PROVE  /\ i # next /\ rx[i] # FE!Empty /\ new[i] = rx[i]
               /\ Ahead(i, next) \in Nat /\ Ahead(i, next) > 0
               /\ Ahead(i, FE!Up(next)) = Ahead(i, next) - 1
    <2>1. i # next /\ rx[i] # FE!Empty /\ new[i] = rx[i]
      BY <1>2, <1>3
    <2> HIDE DEF new
    <2> QED BY <1>1, <2>1, RingSteps
  <1>4. Ahead(next, next) = 0
    BY <1>1, RingSteps
  <1> HIDE DEF new, f
  <1>5. \A i \in FE!Slots : new[i] # FE!Empty =>
           /\ new[i].frame \in 1 .. top
           /\ \A k \in 1 .. Len(got) : got[k] < new[i].frame
           /\ rx[next].kind \in Ends => f < new[i].frame
    <2> SUFFICES ASSUME NEW i \in FE!Slots, new[i] # FE!Empty
                 PROVE  /\ new[i].frame \in 1 .. top
                        /\ \A k \in 1 .. Len(got) : got[k] < new[i].frame
                        /\ rx[next].kind \in Ends => f < new[i].frame
      OBVIOUS
    <2>1. /\ rx[i] # FE!Empty /\ new[i] = rx[i] /\ Ahead(next, next) < Ahead(i, next)
      BY <1>3, <1>4
    <2>2. rx[i].frame \in 1 .. top /\ \A k \in 1 .. Len(got) : got[k] < rx[i].frame
      BY <2>1 DEF OrderOk
    <2>3. rx[next].kind \in Ends => f < rx[i].frame
      BY <1>1, <2>1 DEF OrderOk, f
    <2> QED BY <2>1, <2>2, <2>3
  <1>6. \A i, j \in FE!Slots :
          new[i] # FE!Empty /\ new[j] # FE!Empty
             /\ Ahead(i, FE!Up(next)) < Ahead(j, FE!Up(next)) /\ new[i].kind \in Ends
          => new[i].frame < new[j].frame
    <2> SUFFICES ASSUME NEW i \in FE!Slots, NEW j \in FE!Slots,
                        new[i] # FE!Empty, new[j] # FE!Empty,
                        Ahead(i, FE!Up(next)) < Ahead(j, FE!Up(next)), new[i].kind \in Ends
                 PROVE  new[i].frame < new[j].frame
      OBVIOUS
    <2>1. Ahead(i, next) < Ahead(j, next)
      BY <1>3
    <2> QED BY <1>3, <2>1 DEF OrderOk
  <1>7. /\ \A k \in 1 .. Len(got) : got[k] \in 1 .. top /\ got[k] < f
        /\ \A k, l \in 1 .. Len(got) : k < l => got[k] < got[l]
    BY <1>1 DEF OrderOk, f
  <1>8. CASE rx[next].kind \in Ends
    <2> DEFINE more == Append(got, f)
    <2>1. /\ more \in Seq(Nat) /\ Len(more) = Len(got) + 1 /\ Len(got) \in Nat
          /\ \A k \in 1 .. Len(got) : more[k] = got[k]
          /\ more[Len(got) + 1] = f
          /\ \A k \in 1 .. Len(more) : k \in 1 .. Len(got) \/ k = Len(got) + 1
      BY <1>1
    <2> HIDE DEF more
    <2>2. \A i \in FE!Slots : new[i] # FE!Empty =>
             new[i].frame \in 1 .. top /\ \A k \in 1 .. Len(more) : more[k] < new[i].frame
      BY <1>5, <1>8, <2>1
    <2>3. \A k \in 1 .. Len(more) : more[k] \in 1 .. top
      BY <1>1, <1>7, <2>1
    <2>4. \A k, l \in 1 .. Len(more) : k < l => more[k] < more[l]
      BY <1>7, <2>1
    <2>5. OrderOk(new, FE!Up(next), more, top)
      BY <1>1, <1>6, <2>1, <2>2, <2>3, <2>4 DEF OrderOk
    <2> QED BY <1>8, <2>5 DEF new, f, more
  <1>9. CASE rx[next].kind \notin Ends
    <2>1. OrderOk(new, FE!Up(next), got, top)
      BY <1>1, <1>5, <1>6, <1>7 DEF OrderOk
    <2> QED BY <1>9, <2>1 DEF new
  <1> QED BY <1>8, <1>9

LEMMA KeptPut ==
  ASSUME NEW rx \in [FE!Slots -> Descriptors], NEW at \in FE!Slots, rx[at] = FE!Empty,
         NEW d \in Descriptors, NEW got \in Seq(Nat), NEW K, NEW kinds \in Seq(K),
         NEW kind \in K, KeptOk(rx, got, kinds), d.frame = Len(kinds) + 1,
         d.kind \in Ends <=> kind \in {"whole", "split"},
         \A i \in FE!Slots : rx[i].kind \in Ends => rx[i].frame <= Len(kinds),
         \A k \in 1 .. Len(got) : got[k] <= Len(kinds)
  PROVE  KeptOk([rx EXCEPT ![at] = d], got, Append(kinds, kind))
  <1> DEFINE new == [rx EXCEPT ![at] = d]
             more == Append(kinds, kind)
  <1>1. \A i \in FE!Slots : new[i] = IF i = at THEN d ELSE rx[i]
    OBVIOUS
  <1>2. /\ Len(kinds) \in Nat /\ Len(more) = Len(kinds) + 1 /\ more[Len(kinds) + 1] = kind
        /\ \A f \in 1 .. Len(kinds) : more[f] = kinds[f]
        /\ \A f \in 1 .. Len(more) : f \in 1 .. Len(kinds) \/ f = Len(kinds) + 1
    OBVIOUS
  <1>3. FE!Empty.kind \notin Ends
    BY EmptyIs
  <1>4. /\ \A i \in FE!Slots : rx[i].kind \in Ends => rx[i].frame # d.frame
        /\ \A k \in 1 .. Len(got) : got[k] # d.frame
    <2>1. \A i \in FE!Slots : rx[i].frame \in Nat
      BY DEF Descriptors
    <2>2. \A k \in 1 .. Len(got) : got[k] \in Nat
      OBVIOUS
    <2> QED BY <1>2, <2>1, <2>2
  <1> HIDE DEF new, more
  <1>5. ASSUME NEW f \in 1 .. Len(kinds)
        PROVE  more[f] \in {"whole", "split"} <=>
                  \/ \E k \in 1 .. Len(got) : got[k] = f
                  \/ \E i \in FE!Slots : new[i].kind \in Ends /\ new[i].frame = f
    <2>1. f # d.frame /\ more[f] = kinds[f]
      BY <1>2
    <2>2. \A i \in FE!Slots : new[i].kind \in Ends /\ new[i].frame = f
                                 <=> rx[i].kind \in Ends /\ rx[i].frame = f
      BY <1>1, <1>3, <2>1
    <2> QED BY <2>1, <2>2 DEF KeptOk
  <1>6. more[d.frame] \in {"whole", "split"} <=>
           \/ \E k \in 1 .. Len(got) : got[k] = d.frame
           \/ \E i \in FE!Slots : new[i].kind \in Ends /\ new[i].frame = d.frame
    BY <1>1, <1>2, <1>4
  <1>7. \A f \in 1 .. Len(more) : f \in 1 .. Len(kinds) \/ f = d.frame
    BY <1>2
  <1> QED BY <1>5, <1>6, <1>7 DEF KeptOk, new, more

LEMMA KeptFirst ==
  ASSUME NEW rx \in [FE!Slots -> Descriptors], NEW at \in FE!Slots, rx[at] = FE!Empty,
         NEW d \in Descriptors, NEW got, NEW kinds,
         KeptOk(rx, got, kinds), d.kind \notin Ends
  PROVE  KeptOk([rx EXCEPT ![at] = d], got, kinds)
  <1>1. FE!Empty.kind \notin Ends
    BY EmptyIs
  <1>2. \A i \in FE!Slots : [rx EXCEPT ![at] = d][i] = IF i = at THEN d ELSE rx[i]
    OBVIOUS
  <1>3. \A f : \A i \in FE!Slots : [rx EXCEPT ![at] = d][i].kind \in Ends /\ [rx EXCEPT ![at] = d][i].frame = f
                                 <=> rx[i].kind \in Ends /\ rx[i].frame = f
    BY <1>1, <1>2
  <1> QED BY <1>3 DEF KeptOk

LEMMA KeptTake ==
  ASSUME NEW rx \in [FE!Slots -> Descriptors], NEW next \in FE!Slots,
         NEW got \in Seq(Nat), NEW kinds, KeptOk(rx, got, kinds)
  PROVE  KeptOk([rx EXCEPT ![next] = FE!Empty],
                IF rx[next].kind \in Ends THEN Append(got, rx[next].frame) ELSE got, kinds)
  <1> DEFINE new == [rx EXCEPT ![next] = FE!Empty]
             f == rx[next].frame
             more == Append(got, f)
  <1>1. FE!Empty.kind \notin Ends /\ f \in Nat
    BY EmptyIs DEF Descriptors
  <1>2. \A i \in FE!Slots : new[i] = IF i = next THEN FE!Empty ELSE rx[i]
    OBVIOUS
  <1> HIDE DEF f
  <1>3. /\ Len(got) \in Nat /\ Len(more) = Len(got) + 1 /\ more[Len(got) + 1] = f
        /\ \A k \in 1 .. Len(got) : more[k] = got[k]
        /\ \A k \in 1 .. Len(more) : k \in 1 .. Len(got) \/ k = Len(got) + 1
        /\ \A k \in 1 .. Len(got) : k \in 1 .. Len(more)
        /\ Len(got) + 1 \in 1 .. Len(more)
    BY <1>1
  <1> HIDE DEF new, more
  <1>4. CASE rx[next].kind \in Ends
    <2>1. ASSUME NEW g
          PROVE  (\E k \in 1 .. Len(more) : more[k] = g) <=>
                    g = f \/ \E k \in 1 .. Len(got) : got[k] = g
      BY <1>3
    <2>2. ASSUME NEW g
          PROVE  (\E i \in FE!Slots : rx[i].kind \in Ends /\ rx[i].frame = g) <=>
                    g = f \/ \E i \in FE!Slots : new[i].kind \in Ends /\ new[i].frame = g
      <3> QED
        <4>1. \A i \in FE!Slots : new[i].kind \in Ends <=> i # next /\ rx[i].kind \in Ends
          BY <1>1, <1>2
        <4> QED BY <1>2, <1>4, <4>1 DEF f
    <2>3. \A g : ((\E k \in 1 .. Len(more) : more[k] = g)
                     \/ \E i \in FE!Slots : new[i].kind \in Ends /\ new[i].frame = g)
             <=> ((\E k \in 1 .. Len(got) : got[k] = g)
                     \/ \E i \in FE!Slots : rx[i].kind \in Ends /\ rx[i].frame = g)
      <3> SUFFICES ASSUME NEW g
                   PROVE ((\E k \in 1 .. Len(more) : more[k] = g)
                     \/ \E i \in FE!Slots : new[i].kind \in Ends /\ new[i].frame = g)
             <=> ((\E k \in 1 .. Len(got) : got[k] = g)
                     \/ \E i \in FE!Slots : rx[i].kind \in Ends /\ rx[i].frame = g)
        OBVIOUS
      <3>1. (\E k \in 1 .. Len(more) : more[k] = g) <=>
                    g = f \/ \E k \in 1 .. Len(got) : got[k] = g
        BY <2>1
      <3>2. (\E i \in FE!Slots : rx[i].kind \in Ends /\ rx[i].frame = g) <=>
                    g = f \/ \E i \in FE!Slots : new[i].kind \in Ends /\ new[i].frame = g
        BY <2>2
      <3> QED BY <3>1, <3>2
    <2>4. KeptOk(new, more, kinds)
      BY <2>3 DEF KeptOk
    <2> QED BY <1>4, <2>4 DEF new, more, f
  <1>5. CASE rx[next].kind \notin Ends
    <2>1. \A g : \A i \in FE!Slots : new[i].kind \in Ends /\ new[i].frame = g
                                   <=> rx[i].kind \in Ends /\ rx[i].frame = g
      BY <1>1, <1>2, <1>5
    <2>2. KeptOk(new, got, kinds)
      BY <2>1 DEF KeptOk
    <2> QED BY <1>5, <2>2 DEF new
  <1> QED BY <1>4, <1>5

-------------------------------------------------------------------------------
(* Its transmit ring, and both of them *)

\* The frames that were produced and are not on the wire wait in the ring, in order.
TxOk(tx, at, next, wire, sent) ==
    /\ tx \in [FE!Slots -> Nat] /\ at \in FE!Slots /\ next \in FE!Slots
    /\ wire \in Seq(Nat) /\ sent \in Nat /\ sent - Len(wire) \in 0 .. NUM_BUFFERS
    /\ \A k \in 1 .. Len(wire) : wire[k] = k
    /\ \A i \in FE!Slots : tx[i] = IF Ahead(i, at) < sent - Len(wire)
                                   THEN Len(wire) + 1 + Ahead(i, at) ELSE 0
    /\ Ahead(next, at) = IF sent - Len(wire) = NUM_BUFFERS THEN 0 ELSE sent - Len(wire)

LEMMA TxProduce ==
  ASSUME BuffersAssumption, NEW tx, NEW at, NEW next, NEW wire, NEW sent,
         TxOk(tx, at, next, wire, sent), tx[next] = 0
  PROVE  TxOk([tx EXCEPT ![next] = sent + 1], at, FE!Up(next), wire, sent + 1)
  <1> DEFINE new == [tx EXCEPT ![next] = sent + 1]
             w == Len(wire)
  <1>1. NUM_BUFFERS \in Nat /\ NUM_BUFFERS >= 2 /\ w \in Nat /\ sent \in Nat
        /\ at \in FE!Slots /\ next \in FE!Slots
    BY DEF BuffersAssumption, TxOk
  <1>2. new \in [FE!Slots -> Nat] /\ \A i \in FE!Slots : new[i] = IF i = next THEN sent + 1 ELSE tx[i]
    BY DEF TxOk
  <1> HIDE DEF new
  <1>3. /\ sent - w \in 0 .. NUM_BUFFERS
        /\ Ahead(next, at) = IF sent - w = NUM_BUFFERS THEN 0 ELSE sent - w
        /\ \A i \in FE!Slots : tx[i] = IF Ahead(i, at) < sent - w THEN w + 1 + Ahead(i, at) ELSE 0
    BY DEF TxOk
  <1> HIDE DEF w
  <1>4. Ahead(next, at) \in Nat /\ sent - w < NUM_BUFFERS /\ Ahead(next, at) = sent - w
    BY <1>1, <1>3, RingSteps
  <1>5. Ahead(FE!Up(next), at) = IF sent + 1 - w = NUM_BUFFERS THEN 0 ELSE sent + 1 - w
    BY <1>1, <1>4, RingSteps
  <1>6. ASSUME NEW i \in FE!Slots
        PROVE  new[i] = IF Ahead(i, at) < sent + 1 - w THEN w + 1 + Ahead(i, at) ELSE 0
    <2>1. Ahead(i, at) \in Nat /\ (Ahead(i, at) = Ahead(next, at) => i = next)
      BY <1>1, RingSteps
    <2>2. CASE i = next
      BY <1>1, <1>2, <1>4, <2>2
    <2>3. CASE i # next
      <3>1. Ahead(i, at) # sent - w
        BY <1>4, <2>1, <2>3
      <3>2. new[i] = tx[i] /\ tx[i] = IF Ahead(i, at) < sent - w THEN w + 1 + Ahead(i, at) ELSE 0
        BY <1>2, <1>3, <2>3
      <3> QED BY <1>1, <2>1, <3>1, <3>2
    <2> QED BY <2>2, <2>3
  <1>7. FE!Up(next) \in FE!Slots /\ sent + 1 - w \in 0 .. NUM_BUFFERS /\ sent + 1 \in Nat
    BY <1>1, <1>3, <1>4, RingSteps
  <1>8. wire \in Seq(Nat) /\ \A k \in 1 .. w : wire[k] = k
    BY DEF TxOk, w
  <1> QED BY <1>1, <1>2, <1>5, <1>6, <1>7, <1>8 DEF TxOk, new, w

LEMMA TxSend ==
  ASSUME BuffersAssumption, NEW tx, NEW at, NEW next, NEW wire, NEW sent,
         TxOk(tx, at, next, wire, sent), tx[at] # 0
  PROVE  TxOk([tx EXCEPT ![at] = 0], FE!Up(at), next, Append(wire, tx[at]), sent)
         /\ Len(wire) < sent
  <1> DEFINE new == [tx EXCEPT ![at] = 0]
             w == Len(wire)
             f == tx[at]
             more == Append(wire, f)
  <1>1. NUM_BUFFERS \in Nat /\ NUM_BUFFERS >= 2 /\ w \in Nat /\ sent \in Nat
        /\ at \in FE!Slots /\ next \in FE!Slots
    BY DEF BuffersAssumption, TxOk
  <1>2. new \in [FE!Slots -> Nat] /\ \A i \in FE!Slots : new[i] = IF i = at THEN 0 ELSE tx[i]
    BY DEF TxOk
  <1> HIDE DEF new
  <1>3. /\ sent - w \in 0 .. NUM_BUFFERS
        /\ Ahead(next, at) = IF sent - w = NUM_BUFFERS THEN 0 ELSE sent - w
        /\ \A i \in FE!Slots : tx[i] = IF Ahead(i, at) < sent - w THEN w + 1 + Ahead(i, at) ELSE 0
    BY DEF TxOk
  <1> HIDE DEF w
  <1>4. Ahead(at, at) = 0 /\ sent - w > 0 /\ f = w + 1
    BY <1>1, <1>3, RingSteps
  <1>5. wire \in Seq(Nat) /\ w = Len(wire) /\ \A k \in 1 .. w : wire[k] = k
    BY DEF TxOk, w
  <1> HIDE DEF f
  <1>6. more \in Seq(Nat) /\ Len(more) = w + 1 /\ \A k \in 1 .. w + 1 : more[k] = k
    <2>1. f \in Nat
      BY <1>1, <1>4
    <2>2. /\ more \in Seq(Nat) /\ Len(more) = Len(wire) + 1 /\ more[Len(wire) + 1] = f
          /\ \A k \in 1 .. Len(wire) : more[k] = wire[k]
      BY <1>5, <2>1
    <2> HIDE DEF more
    <2>3. \A k \in 1 .. w + 1 : k \in 1 .. w \/ k = w + 1
      BY <1>1
    <2> QED BY <1>4, <1>5, <2>2, <2>3
  <1> HIDE DEF more
  <1>7. ASSUME NEW i \in FE!Slots
        PROVE  new[i] = IF Ahead(i, FE!Up(at)) < sent - (w + 1)
                        THEN (w + 1) + 1 + Ahead(i, FE!Up(at)) ELSE 0
    <2>1. Ahead(i, at) \in Nat /\ Ahead(i, FE!Up(at)) =
                                      IF i = at THEN NUM_BUFFERS - 1 ELSE Ahead(i, at) - 1
      BY <1>1, RingSteps
    <2>2. CASE i = at
      BY <1>1, <1>2, <1>3, <2>1, <2>2
    <2>3. CASE i # at
      <3>1. new[i] = tx[i] /\ tx[i] = IF Ahead(i, at) < sent - w THEN w + 1 + Ahead(i, at) ELSE 0
        BY <1>2, <1>3, <2>3
      <3> QED BY <1>1, <2>1, <2>3, <3>1
    <2> QED BY <2>2, <2>3
  <1>8. Ahead(next, FE!Up(at)) = IF sent - (w + 1) = NUM_BUFFERS THEN 0 ELSE sent - (w + 1)
    <2>1. /\ Ahead(next, FE!Up(at)) = IF next = at THEN NUM_BUFFERS - 1 ELSE Ahead(next, at) - 1
          /\ Ahead(next, at) = 0 <=> next = at
      BY <1>1, RingSteps
    <2> QED BY <1>1, <1>3, <1>4, <2>1
  <1>9. FE!Up(at) \in FE!Slots /\ sent - (w + 1) \in 0 .. NUM_BUFFERS
    BY <1>1, <1>3, <1>4, RingSteps
  <1>10. TxOk(new, FE!Up(at), next, more, sent)
    BY <1>1, <1>2, <1>6, <1>7, <1>8, <1>9 DEF TxOk
  <1>11. Len(wire) < sent
    BY <1>1, <1>4, <1>5
  <1> QED BY <1>10, <1>11 DEF new, more, f

FecDomains ==
    /\ DOMAIN context = {"rx", "rxNext", "got", "tx", "txNext", "tdar", "sender", "sent"}
    /\ DOMAIN bus = {"bound", "rxAt", "frames", "kinds", "txAt", "mac", "wire"}
FrameKinds == {"whole", "damaged", "large", "split", "dropped"}

FecRx == /\ \E n : RingOk(n, context.rx, context.rxNext, bus.rxAt)
         /\ OrderOk(context.rx, context.rxNext, context.got, bus.frames)
         /\ KeptOk(context.rx, context.got, bus.kinds)
         /\ bus.kinds \in Seq(FrameKinds) /\ Len(bus.kinds) = bus.frames
\* The controller stops only when all is sent, and a call starts it again.
FecTx == /\ TxOk(context.tx, bus.txAt, context.txNext, bus.wire, context.sent)
         /\ context.sender \in {"out", "produced"} /\ bus.mac \in {"idle", "stopping"}
         /\ bus.mac = "stopping" => context.tdar
         /\ context.sender = "out" /\ (context.tdar => bus.mac = "stopping") =>
               context.sent = Len(bus.wire)

FecInv == scenario = "fec" => FecDomains /\ FecRx /\ FecTx

RxParts == <<context.rx, context.rxNext, context.got, bus.rxAt, bus.frames, bus.kinds>>
TxParts == <<context.tx, context.txNext, context.tdar, context.sender, context.sent,
             bus.txAt, bus.mac, bus.wire>>
LEMMA FecUnchanged ==
  /\ FecRx /\ UNCHANGED RxParts => FecRx'
  /\ FecTx /\ UNCHANGED TxParts => FecTx'
  BY DEF FecRx, FecTx, RxParts, TxParts

LEMMA FecBegins ==
  ASSUME BuffersAssumption, FE!fec_ecat_init
  PROVE  FecInv'
  <1>1. PICK bound \in {<<MaxFrames, 0>>, <<0, MaxSent>>} :
          /\ context' = [rx |-> [i \in FE!Slots |-> FE!Empty], rxNext |-> 0, got |-> <<>>,
                         tx |-> [i \in FE!Slots |-> 0], txNext |-> 0, tdar |-> FALSE,
                         sender |-> "out", sent |-> 0]
          /\ bus' = [bound |-> bound, rxAt |-> 0, frames |-> 0, kinds |-> <<>>,
                     txAt |-> 0, mac |-> "idle", wire |-> <<>>]
    BY DEF FE!fec_ecat_init, FE!Start
  <1>2. /\ context'.rx = [i \in FE!Slots |-> FE!Empty] /\ context'.rxNext = 0
        /\ context'.got = <<>> /\ context'.tx = [i \in FE!Slots |-> 0]
        /\ context'.txNext = 0 /\ ~context'.tdar /\ context'.sender = "out"
        /\ context'.sent = 0 /\ bus'.rxAt = 0 /\ bus'.frames = 0 /\ bus'.kinds = <<>>
        /\ bus'.txAt = 0 /\ bus'.mac = "idle" /\ bus'.wire = <<>> /\ FecDomains'
    BY <1>1 DEF FecDomains
  <1>3. NUM_BUFFERS \in Nat /\ NUM_BUFFERS >= 2 /\ 0 \in FE!Slots
    BY DEF BuffersAssumption, FE!Slots
  <1>4. Ahead(0, 0) = 0 /\ \A i \in FE!Slots : Ahead(i, 0) \in Nat
    BY <1>3, RingSteps
  <1>5. RingOk(0, [i \in FE!Slots |-> FE!Empty], 0, 0)
    BY <1>3, <1>4, EmptyIs DEF RingOk
  <1>6. OrderOk([i \in FE!Slots |-> FE!Empty], 0, <<>>, 0)
    BY DEF OrderOk
  <1>7. KeptOk([i \in FE!Slots |-> FE!Empty], <<>>, <<>>)
    BY DEF KeptOk
  <1>8. TxOk([i \in FE!Slots |-> 0], 0, 0, <<>>, 0)
    BY <1>3, <1>4 DEF TxOk
  <1>9. <<>> \in Seq(FrameKinds) /\ Len(<<>>) = 0
    OBVIOUS
  <1>10. FecRx'
    BY <1>2, <1>5, <1>6, <1>7, <1>9 DEF FecRx
  <1>11. FecTx'
    BY <1>2, <1>8, <1>9 DEF FecTx
  <1> QED BY <1>2, <1>10, <1>11 DEF FecInv

LEMMA FecFrameComes ==
  ASSUME BuffersAssumption, scenario = "fec", FecInv, FE!FrameComes
  PROVE  FecInv'
  <1> DEFINE n == bus.frames + 1
             one == context.rx[bus.rxAt] = FE!Empty
             both == one /\ context.rx[FE!Up(bus.rxAt)] = FE!Empty
  <1>1. FecDomains /\ FecRx /\ FecTx
    BY DEF FecInv
  <1>2. PICK waiting : RingOk(waiting, context.rx, context.rxNext, bus.rxAt)
    BY <1>1 DEF FecRx
  <1>3. /\ bus.frames \in Nat /\ bus.kinds \in Seq(FrameKinds) /\ Len(bus.kinds) = bus.frames
        /\ OrderOk(context.rx, context.rxNext, context.got, bus.frames)
        /\ KeptOk(context.rx, context.got, bus.kinds)
        /\ context.rx \in [FE!Slots -> Descriptors] /\ context.got \in Seq(Nat)
        /\ bus.rxAt \in FE!Slots
    BY <1>1, <1>2 DEF FecRx, OrderOk, RingOk
  <1>4. /\ \A i \in FE!Slots : context.rx[i].kind \in Ends => context.rx[i].frame \in 1 .. bus.frames
        /\ \A k \in 1 .. Len(context.got) : context.got[k] \in 1 .. bus.frames
    BY <1>3, EmptyIs DEF OrderOk
  <1>5. /\ \A i \in FE!Slots : context.rx[i].kind \in Ends =>
                                  context.rx[i].frame < n /\ context.rx[i].frame <= Len(bus.kinds)
        /\ \A k \in 1 .. Len(context.got) : context.got[k] < n /\ context.got[k] <= Len(bus.kinds)
    BY <1>3, <1>4
  <1>6. n \in Nat /\ n \in 1 .. bus.frames + 1 /\ n >= bus.frames /\ n = Len(bus.kinds) + 1
    BY <1>3
  <1>7. ASSUME NEW kind \in FrameKinds
        PROVE  Append(bus.kinds, kind) \in Seq(FrameKinds) /\ Len(Append(bus.kinds, kind)) = n
    BY <1>3
  <1>8. PICK kind \in {"whole", "damaged", "large", "split"} :
          IF one /\ (kind = "split" => both)
          THEN /\ context' = [context EXCEPT
                    !.rx = IF kind = "split"
                           THEN [@ EXCEPT ![bus.rxAt] = [frame |-> n, kind |-> "first"],
                                          ![FE!Up(bus.rxAt)] = [frame |-> n, kind |-> "last"]]
                           ELSE [@ EXCEPT ![bus.rxAt] = [frame |-> n, kind |-> kind]]]
               /\ bus' = [bus EXCEPT !.frames = n, !.kinds = Append(@, kind),
                            !.rxAt = IF kind = "split" THEN FE!Up(FE!Up(@)) ELSE FE!Up(@)]
          ELSE /\ bus' = [bus EXCEPT !.frames = n, !.kinds = Append(@, "dropped")]
               /\ UNCHANGED context
    BY DEF FE!FrameComes
  <1> HIDE DEF n
  <1>9. ASSUME ~(one /\ (kind = "split" => both)) PROVE FecInv'
    <2> DEFINE kinds == Append(bus.kinds, "dropped")
    <2>1. /\ kinds \in Seq(FrameKinds) /\ Len(kinds) = n /\ kinds[n] = "dropped"
          /\ \A f \in 1 .. bus.frames : kinds[f] = bus.kinds[f]
          /\ \A f \in 1 .. n : f \in 1 .. bus.frames \/ f = n
      <3>1. "dropped" \in FrameKinds
        BY DEF FrameKinds
      <3> QED BY <1>3, <1>6, <3>1
    <2>2. context' = context /\ bus' = [bus EXCEPT !.frames = n, !.kinds = kinds]
      BY <1>8, <1>9, Zenon
    <2> HIDE DEF kinds
    <2>3. /\ bus'.frames = n /\ bus'.kinds = kinds /\ DOMAIN bus' = DOMAIN bus
          /\ UNCHANGED <<bus.rxAt, bus.txAt, bus.mac, bus.wire>>
      BY <1>1, <2>2 DEF FecDomains
    <2>4. KeptOk(context.rx, context.got, kinds)
      <3>1. \A f \in 1 .. bus.frames :
               kinds[f] \in {"whole", "split"} <=>
                  \/ \E k \in 1 .. Len(context.got) : context.got[k] = f
                  \/ \E i \in FE!Slots : context.rx[i].kind \in Ends /\ context.rx[i].frame = f
        BY <1>3, <2>1 DEF KeptOk
      <3>2. ~ \/ \E k \in 1 .. Len(context.got) : context.got[k] = n
              \/ \E i \in FE!Slots : context.rx[i].kind \in Ends /\ context.rx[i].frame = n
        BY <1>5, <1>6
      <3> QED BY <2>1, <3>1, <3>2 DEF KeptOk
    <2>5. OrderOk(context.rx, context.rxNext, context.got, n)
      BY <1>3, <1>6 DEF OrderOk
    <2>6. FecRx'
      BY <1>2, <2>1, <2>2, <2>3, <2>4, <2>5 DEF FecRx
    <2>7. UNCHANGED TxParts
      BY <2>2, <2>3 DEF TxParts
    <2> QED BY <1>1, <2>2, <2>3, <2>6, <2>7, FecUnchanged DEF FecInv, FecDomains
  <1>10. ASSUME kind # "split", one PROVE FecInv'
    <2> DEFINE d == [frame |-> n, kind |-> kind]
               rx == [context.rx EXCEPT ![bus.rxAt] = d]
               kinds == Append(bus.kinds, kind)
               at == FE!Up(bus.rxAt)
    <2>1. d \in Descriptors /\ d # FE!Empty /\ d.frame = n /\ d.kind = kind
          /\ kind \in FrameKinds /\ (d.kind \in Ends <=> kind \in {"whole", "split"})
      BY <1>6, <1>10 DEF Descriptors, Kinds, FE!Empty, FrameKinds, Ends
    <2>2. context' = [context EXCEPT !.rx = rx]
          /\ bus' = [bus EXCEPT !.frames = n, !.kinds = kinds, !.rxAt = at]
      BY <1>1, <1>8, <1>10 DEF FecDomains
    <2> HIDE DEF d, at
    <2>3. RingOk(waiting + 1, rx, context.rxNext, at)
      BY <1>2, <1>10, <2>1, RingPut DEF at
    <2>4. OrderOk(rx, context.rxNext, context.got, n)
      BY <1>2, <1>3, <1>5, <1>6, <1>10, <2>1, OrderPut
    <2>5. KeptOk(rx, context.got, kinds)
      BY <1>3, <1>5, <1>6, <1>10, <2>1, KeptPut
    <2>6. kinds \in Seq(FrameKinds) /\ Len(kinds) = n
      BY <1>7, <2>1
    <2> HIDE DEF rx, kinds
    <2>7. /\ bus'.frames = n /\ bus'.kinds = kinds /\ DOMAIN bus' = DOMAIN bus /\ bus'.rxAt = at
          /\ UNCHANGED <<bus.txAt, bus.mac, bus.wire>>
          /\ context'.rx = rx /\ DOMAIN context' = DOMAIN context
          /\ UNCHANGED <<context.rxNext, context.got, context.tx, context.txNext, context.tdar,
                         context.sender, context.sent>>
      BY <1>1, <2>2 DEF FecDomains
    <2>8. FecRx'
      BY <2>3, <2>4, <2>5, <2>6, <2>7 DEF FecRx
    <2>9. UNCHANGED TxParts
      BY <2>7 DEF TxParts
    <2> QED BY <1>1, <2>7, <2>8, <2>9, FecUnchanged DEF FecInv, FecDomains
  <1>11. ASSUME kind = "split", both PROVE FecInv'
    <2> DEFINE d == [frame |-> n, kind |-> "first"]
               e == [frame |-> n, kind |-> "last"]
               next == FE!Up(bus.rxAt)
               rx1 == [context.rx EXCEPT ![bus.rxAt] = d]
               rx == [rx1 EXCEPT ![next] = e]
               kinds == Append(bus.kinds, "split")
               at == FE!Up(next)
    <2>1. /\ d \in Descriptors /\ d # FE!Empty /\ d.frame = n /\ d.kind \notin Ends
          /\ e \in Descriptors /\ e # FE!Empty /\ e.frame = n /\ e.kind \in Ends
          /\ "split" \in FrameKinds
      BY <1>6 DEF Descriptors, Kinds, FE!Empty, FrameKinds, Ends
    <2>2. context' = [context EXCEPT !.rx = rx]
          /\ bus' = [bus EXCEPT !.frames = n, !.kinds = kinds, !.rxAt = at]
      BY <1>1, <1>8, <1>11 DEF FecDomains
    <2>3. next \in FE!Slots /\ next # bus.rxAt
      BY <1>3, RingSteps DEF BuffersAssumption, FE!Slots
    <2>4. /\ RingOk(waiting + 1, rx1, context.rxNext, next)
          /\ OrderOk(rx1, context.rxNext, context.got, n)
          /\ KeptOk(rx1, context.got, bus.kinds)
      <3> HIDE DEF d, e
      <3>1. RingOk(waiting + 1, rx1, context.rxNext, next)
        BY <1>2, <1>11, <2>1, RingPut
      <3>2. OrderOk(rx1, context.rxNext, context.got, n)
        <4>1. /\ d.frame \in 1 .. bus.frames + 1 /\ d.frame >= bus.frames
              /\ \A i \in FE!Slots : context.rx[i].kind \in Ends => context.rx[i].frame < d.frame
              /\ \A k \in 1 .. Len(context.got) : context.got[k] < d.frame
          BY <1>5, <1>6, <2>1
        <4>2. OrderOk(rx1, context.rxNext, context.got, d.frame)
          BY <1>2, <1>3, <1>11, <2>1, <4>1, OrderPut
        <4> QED BY <2>1, <4>2
      <3>3. KeptOk(rx1, context.got, bus.kinds)
        BY <1>3, <1>11, <2>1, KeptFirst
      <3> QED BY <3>1, <3>2, <3>3
    <2>5. /\ rx1 \in [FE!Slots -> Descriptors] /\ rx1[next] = FE!Empty
          /\ \A i \in FE!Slots : rx1[i].kind \in Ends =>
                                    rx1[i].frame < n /\ rx1[i].frame <= Len(bus.kinds)
      <3> HIDE DEF d, next
      <3> QED BY <1>3, <1>5, <1>11, <2>1, <2>3 DEF next
    <2> HIDE DEF d, e, next, rx1, at
    <2>6. RingOk(waiting + 2, rx, context.rxNext, at)
      <3>1. waiting + 1 + 1 = waiting + 2
        BY <1>2 DEF RingOk
      <3> QED BY <2>1, <2>4, <2>5, <3>1, RingPut DEF at
    <2>7. OrderOk(rx, context.rxNext, context.got, n)
      <3>1. /\ e.frame \in 1 .. n + 1 /\ e.frame >= n
            /\ \A i \in FE!Slots : rx1[i].kind \in Ends => rx1[i].frame < e.frame
            /\ \A k \in 1 .. Len(context.got) : context.got[k] < e.frame
        BY <1>5, <1>6, <2>1, <2>5
      <3>2. OrderOk(rx, context.rxNext, context.got, e.frame)
        BY <2>1, <2>4, <2>5, <3>1, OrderPut
      <3> QED BY <2>1, <3>2
    <2>8. KeptOk(rx, context.got, kinds)
      BY <1>3, <1>5, <1>6, <2>1, <2>3, <2>4, <2>5, KeptPut
    <2>9. kinds \in Seq(FrameKinds) /\ Len(kinds) = n
      BY <1>7, <2>1
    <2> HIDE DEF rx, kinds
    <2>10. /\ bus'.frames = n /\ bus'.kinds = kinds /\ DOMAIN bus' = DOMAIN bus /\ bus'.rxAt = at
           /\ UNCHANGED <<bus.txAt, bus.mac, bus.wire>>
           /\ context'.rx = rx /\ DOMAIN context' = DOMAIN context
           /\ UNCHANGED <<context.rxNext, context.got, context.tx, context.txNext, context.tdar,
                          context.sender, context.sent>>
      BY <1>1, <2>2 DEF FecDomains
    <2>11. FecRx'
      BY <2>6, <2>7, <2>8, <2>9, <2>10 DEF FecRx
    <2>12. UNCHANGED TxParts
      BY <2>10 DEF TxParts
    <2> QED BY <1>1, <2>10, <2>11, <2>12, FecUnchanged DEF FecInv, FecDomains
  <1> QED BY <1>9, <1>10, <1>11

LEMMA FecReceives ==
  ASSUME BuffersAssumption, scenario = "fec", FecInv, FE!fec_ecat_recv
  PROVE  FecInv'
  <1>1. FecDomains /\ FecRx /\ FecTx
    BY DEF FecInv
  <1>2. PICK waiting : RingOk(waiting, context.rx, context.rxNext, bus.rxAt)
    BY <1>1 DEF FecRx
  <1>3. /\ OrderOk(context.rx, context.rxNext, context.got, bus.frames)
        /\ KeptOk(context.rx, context.got, bus.kinds)
        /\ context.rx \in [FE!Slots -> Descriptors] /\ context.got \in Seq(Nat)
        /\ context.rxNext \in FE!Slots
    BY <1>1, <1>2 DEF FecRx, OrderOk, RingOk
  <1> DEFINE i == context.rxNext
             rx == [context.rx EXCEPT ![i] = FE!Empty]
             got == IF context.rx[i].kind \in Ends
                    THEN Append(context.got, context.rx[i].frame) ELSE context.got
  <1>4. /\ context.rx[i] # FE!Empty /\ bus' = bus
        /\ context' = [context EXCEPT !.rx = rx, !.rxNext = FE!Up(i), !.got = got]
    BY <1>1 DEF FE!fec_ecat_recv, FecDomains, Ends
  <1>5. RingOk(waiting - 1, rx, FE!Up(i), bus.rxAt)
    BY <1>2, <1>4, RingTake
  <1>6. OrderOk(rx, FE!Up(i), got, bus.frames)
    BY <1>2, <1>3, <1>4, OrderTake
  <1>7. KeptOk(rx, got, bus.kinds)
    BY <1>3, KeptTake
  <1> HIDE DEF rx, got
  <1>8. /\ DOMAIN context' = DOMAIN context
        /\ context'.rx = rx /\ context'.rxNext = FE!Up(i) /\ context'.got = got
        /\ UNCHANGED <<context.tx, context.txNext, context.tdar, context.sender, context.sent>>
    BY <1>1, <1>4 DEF FecDomains
  <1>9. FecRx'
    BY <1>1, <1>4, <1>5, <1>6, <1>7, <1>8 DEF FecRx
  <1>10. UNCHANGED TxParts
    BY <1>4, <1>8 DEF TxParts
  <1> QED BY <1>1, <1>4, <1>8, <1>9, <1>10, FecUnchanged DEF FecInv, FecDomains

LEMMA FecSends ==
  ASSUME BuffersAssumption, scenario = "fec", FecInv,
         \/ FE!MacSends \/ FE!MacStops \/ FE!MacStopped \/ FE!fec_ecat_send \/ FE!Transmit
  PROVE  FecInv'
  <1>1. FecDomains /\ FecRx /\ FecTx
    BY DEF FecInv
  <1>2. TxOk(context.tx, bus.txAt, context.txNext, bus.wire, context.sent)
    BY <1>1 DEF FecTx
  <1>3. CASE FE!MacSends
    <2> DEFINE tx == [context.tx EXCEPT ![bus.txAt] = 0]
               wire == Append(bus.wire, context.tx[bus.txAt])
    <2>1. /\ context.tdar /\ bus.mac = "idle" /\ context.tx[bus.txAt] # 0
          /\ bus' = [bus EXCEPT !.wire = wire, !.txAt = FE!Up(@)]
          /\ context' = [context EXCEPT !.tx = tx]
      BY <1>1, <1>3 DEF FE!MacSends, FecDomains
    <2>2. TxOk(tx, FE!Up(bus.txAt), context.txNext, wire, context.sent)
      BY <1>2, <2>1, TxSend
    <2> HIDE DEF tx, wire
    <2>3. /\ DOMAIN bus' = DOMAIN bus /\ bus'.wire = wire /\ bus'.txAt = FE!Up(bus.txAt)
          /\ DOMAIN context' = DOMAIN context /\ context'.tx = tx
          /\ UNCHANGED <<context.rx, context.rxNext, context.got, context.txNext, context.tdar,
                         context.sender, context.sent, bus.rxAt, bus.frames, bus.kinds, bus.mac>>
      BY <1>1, <2>1 DEF FecDomains
    <2>4. FecTx'
      BY <1>1, <2>1, <2>2, <2>3 DEF FecTx
    <2>5. UNCHANGED RxParts
      BY <2>3 DEF RxParts
    <2> QED BY <1>1, <2>3, <2>4, <2>5, FecUnchanged DEF FecInv, FecDomains
  <1>4. CASE FE!MacStops
    <2>1. /\ context.tdar /\ bus.mac = "idle" /\ context.tx[bus.txAt] = 0
          /\ bus' = [bus EXCEPT !.mac = "stopping"] /\ context' = context
      BY <1>4 DEF FE!MacStops
    <2>2. /\ DOMAIN bus' = DOMAIN bus /\ bus'.mac = "stopping"
          /\ UNCHANGED <<bus.rxAt, bus.frames, bus.kinds, bus.txAt, bus.wire>>
      BY <1>1, <2>1 DEF FecDomains
    <2>3. context.sent = Len(bus.wire)
      <3>1. /\ NUM_BUFFERS \in Nat /\ Len(bus.wire) \in Nat /\ context.sent \in Nat
            /\ bus.txAt \in FE!Slots
            /\ context.tx[bus.txAt] = IF Ahead(bus.txAt, bus.txAt) < context.sent - Len(bus.wire)
                               THEN Len(bus.wire) + 1 + Ahead(bus.txAt, bus.txAt) ELSE 0
            /\ context.sent - Len(bus.wire) \in 0 .. NUM_BUFFERS
        BY <1>2 DEF TxOk, BuffersAssumption
      <3>2. Ahead(bus.txAt, bus.txAt) = 0
        BY <3>1, RingSteps
      <3> QED BY <2>1, <3>1, <3>2
    <2>4. FecTx'
      BY <1>1, <2>1, <2>2, <2>3 DEF FecTx
    <2>5. UNCHANGED RxParts
      BY <2>1, <2>2 DEF RxParts
    <2> QED BY <1>1, <2>1, <2>2, <2>4, <2>5, FecUnchanged DEF FecInv, FecDomains
  <1>5. CASE FE!MacStopped
    <2>1. /\ bus.mac = "stopping" /\ bus' = [bus EXCEPT !.mac = "idle"]
          /\ context' = [context EXCEPT !.tdar = FALSE]
      BY <1>5 DEF FE!MacStopped
    <2>2. /\ DOMAIN bus' = DOMAIN bus /\ bus'.mac = "idle"
          /\ DOMAIN context' = DOMAIN context /\ ~context'.tdar
          /\ UNCHANGED <<context.rx, context.rxNext, context.got, context.txNext, context.tx,
                         context.sender, context.sent, bus.rxAt, bus.frames, bus.kinds,
                         bus.txAt, bus.wire>>
      BY <1>1, <2>1 DEF FecDomains
    <2>3. FecTx'
      BY <1>1, <2>1, <2>2 DEF FecTx
    <2>4. UNCHANGED RxParts
      BY <2>2 DEF RxParts
    <2> QED BY <1>1, <2>2, <2>3, <2>4, FecUnchanged DEF FecInv, FecDomains
  <1>6. CASE FE!fec_ecat_send
    <2> DEFINE tx == [context.tx EXCEPT ![context.txNext] = context.sent + 1]
    <2>1. /\ context.tx[context.txNext] = 0 /\ bus' = bus
          /\ context' = [context EXCEPT !.sender = "produced", !.sent = @ + 1,
                            !.tx = tx, !.txNext = FE!Up(@)]
      BY <1>1, <1>6 DEF FE!fec_ecat_send, FecDomains
    <2>2. TxOk(tx, bus.txAt, FE!Up(context.txNext), bus.wire, context.sent + 1)
      BY <1>2, <2>1, TxProduce
    <2> HIDE DEF tx
    <2>3. /\ DOMAIN context' = DOMAIN context /\ context'.sender = "produced"
          /\ context'.sent = context.sent + 1 /\ context'.tx = tx
          /\ context'.txNext = FE!Up(context.txNext)
          /\ UNCHANGED <<context.rx, context.rxNext, context.got, context.tdar>>
      BY <1>1, <2>1 DEF FecDomains
    <2>4. FecTx'
      BY <1>1, <2>1, <2>2, <2>3 DEF FecTx
    <2>5. UNCHANGED RxParts
      BY <2>1, <2>3 DEF RxParts
    <2> QED BY <1>1, <2>1, <2>3, <2>4, <2>5, FecUnchanged DEF FecInv, FecDomains
  <1>7. CASE FE!Transmit
    <2>1. /\ ~context.tdar /\ bus' = bus
          /\ context' = [context EXCEPT !.sender = "out", !.tdar = TRUE]
      BY <1>7 DEF FE!Transmit
    <2>2. /\ DOMAIN context' = DOMAIN context /\ context'.sender = "out" /\ context'.tdar
          /\ UNCHANGED <<context.rx, context.rxNext, context.got, context.tx, context.txNext,
                         context.sent>>
      BY <1>1, <2>1 DEF FecDomains
    <2>3. FecTx'
      BY <1>1, <2>1, <2>2 DEF FecTx
    <2>4. UNCHANGED RxParts
      BY <2>1, <2>2 DEF RxParts
    <2> QED BY <1>1, <2>1, <2>2, <2>3, <2>4, FecUnchanged DEF FecInv, FecDomains
  <1> QED BY <1>3, <1>4, <1>5, <1>6, <1>7

LEMMA FecNext ==
  ASSUME BuffersAssumption, FecInv, [Next]_vars
  PROVE  FecInv'
  <1>1. CASE FE!Next
    <2>1. CASE FE!fec_ecat_init
      BY <2>1, FecBegins
    <2>2. CASE FE!FrameComes
      BY <2>2, FecFrameComes DEF FE!FrameComes, FE!Fec
    <2>3. CASE FE!fec_ecat_recv
      BY <2>3, FecReceives DEF FE!fec_ecat_recv, FE!Fec
    <2>4. CASE FE!MacSends \/ FE!MacStops \/ FE!MacStopped \/ FE!fec_ecat_send \/ FE!Transmit
      <3>1. scenario = "fec"
        BY <2>4 DEF FE!MacSends, FE!MacStops, FE!MacStopped, FE!fec_ecat_send, FE!Transmit, FE!Fec
      <3> QED BY <2>4, <3>1, FecSends
    <2> QED BY <1>1, <2>1, <2>2, <2>3, <2>4 DEF FE!Next
  <1>2. CASE UNCHANGED vars
    <2>1. UNCHANGED <<scenario, context, bus>>
      BY <1>2 DEF vars
    <2> QED BY <2>1, FecUnchanged DEF FecInv, FecDomains, RxParts, TxParts
  <1>3. CASE FR!Next \/ MX!Next \/ CL!Next \/ EM!Next
    BY <1>3, FrameApart, MuxApart, ClockApart, EmacApart DEF FecInv
  <1> QED BY <1>1, <1>2, <1>3 DEF Next

LEMMA FecSound ==
  ASSUME BuffersAssumption, FecInv
  PROVE  FE!DamageIsLocal /\ FE!BuffersReturned /\ FE!NothingLeftBehind
  <1>1. ASSUME scenario = "fec", FE!Waiting = {}
        PROVE  /\ \A i, j \in DOMAIN context.got : i < j => context.got[i] < context.got[j]
               /\ {context.got[i] : i \in DOMAIN context.got} =
                     {i \in DOMAIN bus.kinds : bus.kinds[i] \in {"whole", "split"}}
    <2>1. /\ context.got \in Seq(Nat) /\ bus.kinds \in Seq(FrameKinds)
          /\ OrderOk(context.rx, context.rxNext, context.got, bus.frames)
          /\ KeptOk(context.rx, context.got, bus.kinds) /\ Len(bus.kinds) = bus.frames
      BY <1>1 DEF FecInv, FecRx, OrderOk
    <2>2. DOMAIN context.got = 1 .. Len(context.got) /\ DOMAIN bus.kinds = 1 .. Len(bus.kinds)
      BY <2>1, LenProperties
    <2>3. \A i, j \in DOMAIN context.got : i < j => context.got[i] < context.got[j]
      BY <2>1, <2>2 DEF OrderOk
    <2>4. \A i \in FE!Slots : context.rx[i].kind \notin Ends
      BY <1>1, EmptyIs DEF FE!Waiting
    <2>5. \A k \in 1 .. Len(context.got) : context.got[k] \in 1 .. Len(bus.kinds)
      BY <2>1 DEF OrderOk
    <2>6. \A f \in 1 .. Len(bus.kinds) : bus.kinds[f] \in {"whole", "split"} <=>
                                      \E k \in 1 .. Len(context.got) : context.got[k] = f
      BY <2>1, <2>4 DEF KeptOk
    <2> QED BY <2>2, <2>3, <2>5, <2>6
  <1>2. ASSUME scenario = "fec", context.rxNext = bus.rxAt
        PROVE  FE!Waiting \in {{}, FE!Slots}
    <2>1. PICK n : RingOk(n, context.rx, context.rxNext, bus.rxAt)
      BY <1>2 DEF FecInv, FecRx
    <2>2. /\ NUM_BUFFERS \in Nat /\ n \in 0 .. NUM_BUFFERS /\ bus.rxAt \in FE!Slots
          /\ Ahead(bus.rxAt, bus.rxAt) = IF n = NUM_BUFFERS THEN 0 ELSE n
          /\ \A i \in FE!Slots : context.rx[i] # FE!Empty <=> Ahead(i, bus.rxAt) < n
      BY <1>2, <2>1 DEF RingOk, BuffersAssumption
    <2>3. n = 0 \/ n = NUM_BUFFERS
      BY <2>2, RingSteps
    <2>4. \A i \in FE!Slots : Ahead(i, bus.rxAt) \in 0 .. NUM_BUFFERS - 1
      BY <2>2, RingSteps
    <2>5. CASE n = 0
      BY <2>2, <2>4, <2>5 DEF FE!Waiting
    <2>6. CASE n = NUM_BUFFERS
      BY <2>2, <2>4, <2>6 DEF FE!Waiting
    <2> QED BY <2>3, <2>5, <2>6
  <1>3. ASSUME scenario = "fec", context.sender = "out", ~context.tdar
        PROVE  bus.wire = [i \in 1 .. context.sent |-> i]
    <2>1. /\ context.sent = Len(bus.wire) /\ bus.wire \in Seq(Nat)
          /\ \A k \in 1 .. Len(bus.wire) : bus.wire[k] = k
      BY <1>3 DEF FecInv, FecTx, TxOk
    <2>2. bus.wire \in [1 .. Len(bus.wire) -> Nat]
      BY <2>1, LenProperties
    <2> QED BY <2>1, <2>2
  <1>4. FE!DamageIsLocal
    BY <1>1, Zenon DEF FE!DamageIsLocal, FE!Fec
  <1>5. FE!BuffersReturned
    BY <1>2, Zenon DEF FE!BuffersReturned, FE!Fec
  <1>6. FE!NothingLeftBehind
    BY <1>3, Zenon DEF FE!NothingLeftBehind, FE!Fec
  <1> QED BY <1>4, <1>5, <1>6

\* Whatever comes in, is sent, and in which order: the controllers of the two rtk ports
\* give each frame once, in order, whole unless one was written over, send what they
\* were given unless two tasks send at once, and lose no descriptor.
THEOREM RingsAreSound == Spec => []RingsSound
  <1>1. Init => EmacInv /\ FecInv
    BY DEF Init, EmacInv, FecInv
  <1>2. EmacInv /\ FecInv => RingsSound
    BY EmacSound, FecSound, BuffersAssumption DEF RingsSound
  <1>3. EmacInv /\ FecInv /\ [Next]_vars => (EmacInv /\ FecInv)'
    BY EmacNext, FecNext, BuffersAssumption
  <1> QED BY <1>1, <1>2, <1>3, PTL DEF Spec

-------------------------------------------------------------------------------
(* The VxWorks port: what there is *)

Labels == {"idle", "scan", "mark", "send", "mark2", "send2", "poll1", "poll2", "timer",
           "mark3", "resend", "rewait", "again", "use", "release", "closing"}
\* Places of a call on two ports.
RedLabels == {"mark2", "send2", "poll2", "mark3", "resend", "rewait"}
Stats == {"EMPTY", "ALLOC", "TX", "COMPLETE"}

PortsOf(c) == IF c.setup.red THEN {1, 2} ELSE {1}
IdxOf(c) == 0 .. c.setup.maxbuf - 1
Table(c, f) == DOMAIN f = PortsOf(c) /\ \A p \in PortsOf(c) : DOMAIN f[p] = IdxOf(c)
Shape(c) ==
    /\ DOMAIN c = {"setup", "lastidx", "sem", "stat", "rxbuf", "rxsa", "queue", "txbuf",
                   "owned", "toClose"}
    /\ Table(c, c.stat) /\ Table(c, c.rxbuf) /\ Table(c, c.rxsa) /\ Table(c, c.queue)
    /\ DOMAIN c.txbuf = IdxOf(c)

TaskShape(m) ==
    /\ DOMAIN m = {"idx", "cnt", "req", "sends", "in", "answer", "overdue", "missed",
                   "dropped"}
    /\ DOMAIN m.in = {1, 2} /\ m.cnt \in Nat /\ m.req \in Nat /\ m.sends \in Nat

\* What waits in the queue of an index belongs there, and what was received is a frame.
SlotOk(c, p, i) ==
    /\ c.queue[p][i] \in {None, Deleted} \/ /\ c.queue[p][i] \in Frames
                                            /\ c.queue[p][i].idx = i
                                            /\ c.queue[p][i].port = p
    /\ c.rxsa[p][i] \in Ways => c.rxbuf[p][i] \in Contents
ContextOk(c) ==
    /\ c.setup \in Setups /\ Shape(c) /\ c.lastidx \in Nat
    /\ \A p \in PortsOf(c), i \in IdxOf(c) : SlotOk(c, p, i)

BusOk(c, b) ==
    /\ DOMAIN b = {"net", "cut", "cb", "fails"} /\ b.fails \in Nat
    /\ \A f \in b.net : f \in Frames /\ f.idx \in IdxOf(c) /\ f.port \in PortsOf(c)
    /\ b.cb # None => /\ b.cb \in [frame : Frames, full : BOOLEAN]
                      /\ b.cb.frame.idx \in IdxOf(c) /\ b.cb.frame.port \in PortsOf(c)

\* A task in a call has what it sends, and the frames that it has received came from
\* somewhere.
TaskOk(c, m, label) ==
    /\ TaskShape(m) /\ m.idx \in IdxOf(c)
    /\ label \in RedLabels => c.setup.red
    /\ label \notin {"idle", "scan", "closing"} => c.txbuf[m.idx] \in Contents
    /\ \A p \in PortsOf(c) : m.in[p] => c.rxsa[p][m.idx] \in Ways
    /\ label \in {"idle", "scan", "closing"} => m.sends = 0 /\ ~m.in[1] /\ ~m.in[2]
    /\ label # "release" => m.answer = None

MuxType ==
    /\ ContextOk(context) /\ BusOk(context, bus)
    /\ pc \in [context.setup.tasks -> Labels] /\ DOMAIN me = context.setup.tasks
    /\ \A t \in context.setup.tasks : TaskOk(context, me[t], pc[t])

\* Once a queue is deleted no task has anything left to do.
CloseInv ==
    /\ \A p \in PortsOf(context), i \in IdxOf(context) :
          context.queue[p][i] = Deleted <=> <<p, i>> \notin context.toClose
    /\ context.toClose \subseteq PortsOf(context) \X IdxOf(context)
    /\ \A t \in context.setup.tasks :
          /\ pc[t] = "closing" => \A u \in context.setup.tasks : pc[u] = "closing"
          /\ pc[t] = "closing" \/ context.toClose # PortsOf(context) \X IdxOf(context) =>
                pc[t] \in {"idle", "closing"} /\ me[t].req = context.setup.reqs

-------------------------------------------------------------------------------
(* Who has which index *)

Held(t) == pc[t] \notin {"idle", "scan", "closing"}
\* How far index e lies ahead of i in the scan.
Onward(i, e) == IF e >= i THEN e - i ELSE e + context.setup.maxbuf - i

\* One task scans at a time; a status that is not EMPTY has a task that holds the index;
\* and as long as every send succeeds, an index that is held is not EMPTY and has one
\* holder, and a scan has an EMPTY one ahead of it.
IndexInv ==
    /\ \A t \in context.setup.tasks :
          pc[t] = "scan" => /\ context.sem
                            /\ \A u \in context.setup.tasks : pc[u] = "scan" => u = t
    /\ \A p \in PortsOf(context), i \in IdxOf(context) :
          context.stat[p][i] # "EMPTY" =>
             \E t \in context.setup.tasks : Held(t) /\ me[t].idx = i
    /\ bus.fails = 0 =>
          \A t \in context.setup.tasks :
             /\ Held(t) => context.stat[1][me[t].idx] # "EMPTY"
             /\ Held(t) => \A u \in context.setup.tasks :
                              Held(u) /\ u # t => me[u].idx # me[t].idx
             /\ pc[t] = "scan" =>
                   \E e \in IdxOf(context) :
                      /\ context.stat[1][e] = "EMPTY"
                      /\ Onward(me[t].idx, e) + me[t].cnt < context.setup.maxbuf

-------------------------------------------------------------------------------
(* Whose frames are about *)

\* No two tasks hold one index.
Sole == bus.fails = 0 \/ \A t, u \in context.setup.tasks : t = u

\* The frame on the line or in the hands of tNet0 whose index is i.
Flies(b, i, f) == f.idx = i /\ (f \in b.net \/ (b.cb # None /\ b.cb.frame = f))

\* What came in at port p from way sa: the command, with request r; or the dummy, which
\* comes back to where it was sent from if the line is cut, and untouched at the other
\* end if not.
Fits(r, cut, p, sa, content) ==
    IF sa = "primary" THEN content.req = r
                      ELSE IF cut THEN p = 2 ELSE p = 1 /\ content.parts = {}

Receiver == {"poll1", "poll2", "timer", "mark3", "resend", "rewait"}

\* A task at label l, in state m, with request r; the port c and the line b.
AnswerOf(r, l, m, c, b) ==
    LET i == m.idx
    IN /\ c.txbuf[i].req = r
       /\ \A f : Flies(b, i, f) => Fits(r, b.cut, f.port, f.sa, f.content)
       /\ \A p \in PortsOf(c) :
             /\ c.queue[p][i] # None /\ (p = 2 \/ l \notin {"mark", "send"}) =>
                   Fits(r, b.cut, p, c.queue[p][i].sa, c.queue[p][i].content)
             /\ m.in[p] /\ l \in Receiver => Fits(r, b.cut, p, c.rxsa[p][i], c.rxbuf[p][i])
       /\ l \in {"mark2", "send2"} => ~m.in[1] /\ ~m.in[2]
       /\ l = "use" => c.rxbuf[1][i].parts = {} \/ c.rxbuf[1][i].req = r
       /\ l = "release" => m.answer = None \/ m.answer.req = r

\* Where the dummy of the running attempt can be.
DummyFlies(b, i, f) == f \in b.net /\ f.idx = i /\ f.sa = "secondary"
DummyHeld(b, i) == b.cb # None /\ b.cb.frame.idx = i /\ b.cb.frame.sa = "secondary"
DummyWaits(c, i) == c.queue[2][i] # None /\ c.queue[2][i].sa = "secondary"
DummyIn(m, c) == m.in[2] /\ c.rxsa[2][m.idx] = "secondary"

\* At most one dummy is about.
DummyOf(l, m, c, b) ==
    LET i == m.idx
    IN /\ l = "send" => c.queue[2][i] = None /\ \A f : ~Flies(b, i, f)
       /\ l \in {"mark3", "resend", "rewait"} => b.cut
       /\ b.cut /\ l \in {"mark2", "send2", "mark3", "resend", "rewait"} =>
             (\A f : ~DummyFlies(b, i, f)) /\ ~DummyHeld(b, i) /\ ~DummyWaits(c, i)
       /\ b.cut /\ l \in {"poll1", "poll2", "timer"} =>
             /\ \A f, g : DummyFlies(b, i, f) /\ DummyFlies(b, i, g) => f = g
             /\ (\E f : DummyFlies(b, i, f)) => ~DummyHeld(b, i) /\ ~DummyWaits(c, i) /\ ~DummyIn(m, c)
             /\ DummyHeld(b, i) => ~DummyWaits(c, i) /\ ~DummyIn(m, c)
             /\ DummyWaits(c, i) => ~DummyIn(m, c)
       /\ l = "rewait" /\ m.in[2] => c.rxsa[2][i] = "primary"

AnswerTask(t) ==
    Held(t) /\ ~me[t].overdue =>
       /\ AnswerOf(MX!Req(t), pc[t], me[t], context, bus)
       /\ context.setup.red => DummyOf(pc[t], me[t], context, bus)
AnswerInv == Sole => \A t \in context.setup.tasks : AnswerTask(t)

-------------------------------------------------------------------------------
(* A request that nothing disturbs *)

\* The command of request r with index i, as it comes back from its first and, on a cut
\* line, from its second transmission, and the dummy.
Command(r, i, cut) ==
    [idx |-> i, n |-> 0, sa |-> "primary", port |-> IF cut THEN 1 ELSE 2,
     content |-> [req |-> r, parts |-> IF cut THEN {1} ELSE {1, 2}]]
Dummy(i, cut) ==
    [idx |-> i, n |-> 1, sa |-> "secondary", port |-> IF cut THEN 2 ELSE 1,
     content |-> [req |-> None, parts |-> IF cut THEN {2} ELSE {}]]
Again(r, i) ==
    [idx |-> i, n |-> 1, sa |-> "primary", port |-> 2,
     content |-> [req |-> r, parts |-> {1, 2}]]

\* Frame x is on the line, in the hands of tNet0, in the queue, or received.
Spot(x, m, c, b) ==
    LET i == m.idx
        flies == x \in b.net
        held == b.cb # None /\ b.cb.frame = x
        waits == c.queue[x.port][i] # None
        in == m.in[x.port]
    IN /\ flies \/ held \/ waits \/ in
       /\ flies => ~held /\ ~waits /\ ~in
       /\ held => ~waits /\ ~in
       /\ waits => ~in /\ c.queue[x.port][i] = x
       /\ in => c.rxbuf[x.port][i] = x.content /\ c.rxsa[x.port][i] = x.sa
\* No other frames of index i are about.
Only(b, i, xs) == \A f : Flies(b, i, f) => f \in xs
Complete(c, i, p) == c.stat[p][i] = "COMPLETE"

QuietOf(r, l, m, c, b) ==
    LET i == m.idx
        command == Command(r, i, b.cut)
        dummy == Dummy(i, b.cut)
    IN /\ l \in {"mark", "send"} =>
             /\ m.sends = 0 /\ ~Complete(c, i, 1) /\ ~Complete(c, i, 2)
             /\ c.txbuf[i] = [req |-> r, parts |-> {}]
       /\ l = "send" => Only(b, i, {}) /\ c.queue[2][i] = None
       /\ l \in {"mark2", "send2"} =>
             /\ m.sends = 1 /\ ~m.in[1] /\ ~m.in[2]
             /\ ~Complete(c, i, 1) /\ ~Complete(c, i, 2)
             /\ Only(b, i, {command}) /\ Spot(command, m, c, b)
             /\ c.queue[dummy.port][i] = None
       /\ l \in {"poll1", "poll2", "timer"} =>
             /\ m.sends = 1
             /\ Complete(c, i, 1) => m.in[1]
             /\ Complete(c, i, 2) => m.in[2]
             /\ Only(b, i, {command, dummy})
             /\ Spot(command, m, c, b) /\ Spot(dummy, m, c, b)
       /\ l \in {"mark3", "resend", "rewait"} =>
             /\ b.cut /\ m.sends = 1 /\ c.queue[1][i] = None
       /\ l \in {"mark3", "resend"} =>
             /\ Only(b, i, {}) /\ c.queue[2][i] = None
             /\ c.txbuf[i] = [req |-> r, parts |-> {1}]
       /\ l = "resend" => ~Complete(c, i, 2)
       /\ l = "rewait" => /\ Complete(c, i, 2) => m.in[2]
                          /\ Only(b, i, {Again(r, i)}) /\ Spot(Again(r, i), m, c, b)
       /\ l # "again"
       /\ l = "use" => c.rxbuf[1][i] = [req |-> r, parts |-> {1, 2}]
       /\ l = "release" => m.answer = [req |-> r, parts |-> {1, 2}]

QuietTask(t) ==
    Held(t) /\ ~me[t].overdue /\ ~me[t].missed /\ ~me[t].dropped =>
       QuietOf(MX!Req(t), pc[t], me[t], context, bus)
QuietInv ==
    context.setup.red /\ bus.fails = 0 => \A t \in context.setup.tasks : QuietTask(t)

-------------------------------------------------------------------------------
(* What assignments do to the tables *)

LEMMA TableSet ==
  ASSUME NEW c, NEW f, Table(c, f), NEW p \in PortsOf(c), NEW i \in IdxOf(c), NEW x
  PROVE  /\ Table(c, [f EXCEPT ![p][i] = x])
         /\ \A q \in PortsOf(c), k \in IdxOf(c) :
               [f EXCEPT ![p][i] = x][q][k] = IF q = p /\ k = i THEN x ELSE f[q][k]
  BY DEF Table

LEMMA ShapeOf ==
  ASSUME NEW c, NEW d, Shape(c), d.setup = c.setup, DOMAIN d = DOMAIN c,
         Table(c, d.stat), Table(c, d.rxbuf), Table(c, d.rxsa), Table(c, d.queue),
         DOMAIN d.txbuf = IdxOf(c)
  PROVE  Shape(d)
  <1>1. PortsOf(d) = PortsOf(c) /\ IdxOf(d) = IdxOf(c)
    BY DEF PortsOf, IdxOf
  <1>2. Table(d, d.stat) /\ Table(d, d.rxbuf) /\ Table(d, d.rxsa) /\ Table(d, d.queue)
    BY <1>1 DEF Table
  <1>3. DOMAIN d.txbuf = IdxOf(d)
    BY <1>1
  <1> QED BY <1>2, <1>3 DEF Shape

\* Nothing but index i is different.
Beside(c, d, i) ==
    /\ Shape(d) /\ d.setup = c.setup /\ d.toClose = c.toClose
    /\ \A p \in PortsOf(c), k \in IdxOf(c) :
          k # i => /\ d.stat[p][k] = c.stat[p][k] /\ d.queue[p][k] = c.queue[p][k]
                   /\ d.rxbuf[p][k] = c.rxbuf[p][k] /\ d.rxsa[p][k] = c.rxsa[p][k]
                   /\ d.txbuf[k] = c.txbuf[k]

LEMMA BesideSame ==
  ASSUME NEW c, Shape(c), NEW i
  PROVE  /\ Beside(c, c, i)
         /\ \A s : /\ Beside(c, [c EXCEPT !.sem = s], i)
                   /\ [c EXCEPT !.sem = s].sem = s
                   /\ [c EXCEPT !.sem = s].lastidx = c.lastidx
                   /\ [c EXCEPT !.sem = s].owned = c.owned
                   /\ [c EXCEPT !.sem = s].stat = c.stat
                   /\ [c EXCEPT !.sem = s].queue = c.queue
                   /\ [c EXCEPT !.sem = s].rxbuf = c.rxbuf
                   /\ [c EXCEPT !.sem = s].rxsa = c.rxsa
                   /\ [c EXCEPT !.sem = s].txbuf = c.txbuf
  BY DEF Beside, Shape, PortsOf, IdxOf, Table

StatSet(c, d, p, i, x) ==
    /\ Beside(c, d, i)
    /\ \A q \in PortsOf(c) : d.stat[q][i] = IF q = p THEN x ELSE c.stat[q][i]
    /\ d.queue = c.queue /\ d.rxbuf = c.rxbuf /\ d.rxsa = c.rxsa /\ d.txbuf = c.txbuf
    /\ d.lastidx = c.lastidx /\ d.sem = c.sem /\ d.owned = c.owned

LEMMA SetStat ==
  ASSUME NEW c, Shape(c), NEW p \in PortsOf(c), NEW i \in IdxOf(c), NEW x,
         NEW d, d = [c EXCEPT !.stat[p][i] = x]
  PROVE  StatSet(c, d, p, i, x)
  <1> DEFINE new == [c.stat EXCEPT ![p][i] = x]
  <1>t. Table(c, c.stat) /\ Table(c, c.rxbuf) /\ Table(c, c.rxsa) /\ Table(c, c.queue)
    BY DEF Shape
  <1>1. d = [c EXCEPT !.stat = new] /\ DOMAIN d = DOMAIN c
    BY DEF Shape
  <1>2. /\ Table(c, new)
        /\ \A q \in PortsOf(c), k \in IdxOf(c) :
              new[q][k] = IF q = p /\ k = i THEN x ELSE c.stat[q][k]
    BY <1>t DEF Table
  <1> HIDE DEF new
  <1>3. /\ d.stat = new /\ d.setup = c.setup /\ d.toClose = c.toClose
        /\ d.queue = c.queue /\ d.rxbuf = c.rxbuf /\ d.rxsa = c.rxsa /\ d.txbuf = c.txbuf
        /\ d.lastidx = c.lastidx /\ d.sem = c.sem /\ d.owned = c.owned
    BY <1>1 DEF Shape
  <1>4. Table(c, c.stat) /\ Table(c, c.rxbuf) /\ Table(c, c.rxsa) /\ Table(c, c.queue)
        /\ DOMAIN c.txbuf = IdxOf(c)
    BY DEF Shape
  <1>5. Shape(d)
    BY <1>1, <1>2, <1>3, <1>4, ShapeOf
  <1>b. Beside(c, d, i)
    BY <1>2, <1>3, <1>5 DEF Beside
  <1> QED BY <1>2, <1>3, <1>5, <1>b DEF StatSet

TakenSet(c, d, i, y) ==
    /\ Beside(c, d, i)
    /\ \A q \in PortsOf(c) : d.stat[q][i] = IF q = 1 THEN "ALLOC" ELSE c.stat[q][i]
    /\ d.queue = c.queue /\ d.rxbuf = c.rxbuf /\ d.rxsa = c.rxsa /\ d.txbuf[i] = y
    /\ d.lastidx = i /\ d.sem = FALSE /\ d.owned = c.owned

LEMMA SetTaken ==
  ASSUME NEW c, Shape(c), NEW i \in IdxOf(c), NEW y,
         NEW d, d = [c EXCEPT !.stat[1][i] = "ALLOC", !.lastidx = i, !.sem = FALSE, !.txbuf[i] = y]
  PROVE  TakenSet(c, d, i, y)
  <1> DEFINE new == [c.stat EXCEPT ![1][i] = "ALLOC"]
             tx == [c.txbuf EXCEPT ![i] = y]
  <1>0. 1 \in PortsOf(c)
    BY DEF PortsOf
  <1>t. Table(c, c.stat) /\ Table(c, c.rxbuf) /\ Table(c, c.rxsa) /\ Table(c, c.queue)
    BY DEF Shape
  <1>1. d = [c EXCEPT !.stat = new, !.lastidx = i, !.sem = FALSE, !.txbuf = tx] /\ DOMAIN d = DOMAIN c
    BY DEF Shape
  <1>2. /\ Table(c, new)
        /\ \A q \in PortsOf(c), k \in IdxOf(c) :
              new[q][k] = IF q = 1 /\ k = i THEN "ALLOC" ELSE c.stat[q][k]
    BY <1>0, <1>t DEF Table
  <1>3. DOMAIN tx = IdxOf(c) /\ \A k \in IdxOf(c) : tx[k] = IF k = i THEN y ELSE c.txbuf[k]
    BY DEF Shape
  <1> HIDE DEF new, tx
  <1>4. /\ d.stat = new /\ d.setup = c.setup /\ d.toClose = c.toClose
        /\ d.queue = c.queue /\ d.rxbuf = c.rxbuf /\ d.rxsa = c.rxsa /\ d.txbuf = tx
        /\ d.lastidx = i /\ d.sem = FALSE /\ d.owned = c.owned
    BY <1>1 DEF Shape
  <1>5. Table(c, c.stat) /\ Table(c, c.rxbuf) /\ Table(c, c.rxsa) /\ Table(c, c.queue)
        /\ DOMAIN c.txbuf = IdxOf(c)
    BY DEF Shape
  <1>6. Shape(d)
    BY <1>1, <1>2, <1>3, <1>4, <1>5, ShapeOf
  <1>a. \A p \in PortsOf(c), k \in IdxOf(c) :
           k # i => /\ d.stat[p][k] = c.stat[p][k] /\ d.queue[p][k] = c.queue[p][k]
                    /\ d.rxbuf[p][k] = c.rxbuf[p][k] /\ d.rxsa[p][k] = c.rxsa[p][k]
                    /\ d.txbuf[k] = c.txbuf[k]
    BY <1>2, <1>3, <1>4
  <1>c. d.setup = c.setup /\ d.toClose = c.toClose
    BY <1>4
  <1>b. Beside(c, d, i)
    BY <1>a, <1>c, <1>6 DEF Beside
  <1>d. \A q \in PortsOf(c) : d.stat[q][i] = IF q = 1 THEN "ALLOC" ELSE c.stat[q][i]
    BY <1>2, <1>4
  <1>e. d.txbuf[i] = y
    BY <1>3, <1>4
  <1> QED BY <1>4, <1>b, <1>d, <1>e DEF TakenSet

QueueSet(c, d, p, i, x, n) ==
    /\ Beside(c, d, i)
    /\ \A q \in PortsOf(c) : d.queue[q][i] = IF q = p THEN x ELSE c.queue[q][i]
    /\ d.stat = c.stat /\ d.rxbuf = c.rxbuf /\ d.rxsa = c.rxsa /\ d.txbuf = c.txbuf
    /\ d.lastidx = c.lastidx /\ d.sem = c.sem /\ d.owned = n

LEMMA SetQueue ==
  ASSUME NEW c, Shape(c), NEW p \in PortsOf(c), NEW i \in IdxOf(c), NEW x, NEW n,
         NEW d, d = [c EXCEPT !.queue[p][i] = x, !.owned = n]
  PROVE  QueueSet(c, d, p, i, x, n)
  <1> DEFINE new == [c.queue EXCEPT ![p][i] = x]
  <1>t. Table(c, c.stat) /\ Table(c, c.rxbuf) /\ Table(c, c.rxsa) /\ Table(c, c.queue)
    BY DEF Shape
  <1>1. d = [c EXCEPT !.queue = new, !.owned = n] /\ DOMAIN d = DOMAIN c
    BY DEF Shape
  <1>2. /\ Table(c, new)
        /\ \A q \in PortsOf(c), k \in IdxOf(c) :
              new[q][k] = IF q = p /\ k = i THEN x ELSE c.queue[q][k]
    BY <1>t DEF Table
  <1> HIDE DEF new
  <1>3. /\ d.queue = new /\ d.setup = c.setup /\ d.toClose = c.toClose
        /\ d.stat = c.stat /\ d.rxbuf = c.rxbuf /\ d.rxsa = c.rxsa /\ d.txbuf = c.txbuf
        /\ d.lastidx = c.lastidx /\ d.sem = c.sem /\ d.owned = n
    BY <1>1 DEF Shape
  <1>4. Table(c, c.stat) /\ Table(c, c.rxbuf) /\ Table(c, c.rxsa) /\ Table(c, c.queue)
        /\ DOMAIN c.txbuf = IdxOf(c)
    BY DEF Shape
  <1>5. Shape(d)
    BY <1>1, <1>2, <1>3, <1>4, ShapeOf
  <1>b. Beside(c, d, i)
    BY <1>2, <1>3, <1>5 DEF Beside
  <1> QED BY <1>2, <1>3, <1>5, <1>b DEF QueueSet

InSet(c, d, p, i, n, y, z) ==
    /\ Beside(c, d, i)
    /\ \A q \in PortsOf(c) :
          /\ d.queue[q][i] = IF q = p THEN None ELSE c.queue[q][i]
          /\ d.rxbuf[q][i] = IF q = p THEN y ELSE c.rxbuf[q][i]
          /\ d.rxsa[q][i] = IF q = p THEN z ELSE c.rxsa[q][i]
          /\ d.stat[q][i] = IF q = p THEN "COMPLETE" ELSE c.stat[q][i]
    /\ d.txbuf = c.txbuf /\ d.lastidx = c.lastidx /\ d.sem = c.sem /\ d.owned = n

LEMMA SetIn ==
  ASSUME NEW c, Shape(c), NEW p \in PortsOf(c), NEW i \in IdxOf(c), NEW n, NEW y, NEW z,
         NEW d, d = [c EXCEPT !.queue[p][i] = None, !.owned = n, !.rxbuf[p][i] = y,
                              !.rxsa[p][i] = z, !.stat[p][i] = "COMPLETE"]
  PROVE  InSet(c, d, p, i, n, y, z)
  <1> DEFINE queue == [c.queue EXCEPT ![p][i] = None]
             rxbuf == [c.rxbuf EXCEPT ![p][i] = y]
             rxsa == [c.rxsa EXCEPT ![p][i] = z]
             stat == [c.stat EXCEPT ![p][i] = "COMPLETE"]
  <1>t. Table(c, c.stat) /\ Table(c, c.rxbuf) /\ Table(c, c.rxsa) /\ Table(c, c.queue)
    BY DEF Shape
  <1>1. d = [c EXCEPT !.queue = queue, !.owned = n, !.rxbuf = rxbuf, !.rxsa = rxsa, !.stat = stat]
        /\ DOMAIN d = DOMAIN c
    BY DEF Shape
  <1>2. /\ Table(c, queue) /\ Table(c, rxbuf) /\ Table(c, rxsa) /\ Table(c, stat)
        /\ \A q \in PortsOf(c), k \in IdxOf(c) :
              /\ queue[q][k] = IF q = p /\ k = i THEN None ELSE c.queue[q][k]
              /\ rxbuf[q][k] = IF q = p /\ k = i THEN y ELSE c.rxbuf[q][k]
              /\ rxsa[q][k] = IF q = p /\ k = i THEN z ELSE c.rxsa[q][k]
              /\ stat[q][k] = IF q = p /\ k = i THEN "COMPLETE" ELSE c.stat[q][k]
    BY <1>t DEF Table
  <1> HIDE DEF queue, rxbuf, rxsa, stat
  <1>3. /\ d.queue = queue /\ d.setup = c.setup /\ d.toClose = c.toClose
        /\ d.stat = stat /\ d.rxbuf = rxbuf /\ d.rxsa = rxsa /\ d.txbuf = c.txbuf
        /\ d.lastidx = c.lastidx /\ d.sem = c.sem /\ d.owned = n
    BY <1>1 DEF Shape
  <1>4. Table(c, c.stat) /\ Table(c, c.rxbuf) /\ Table(c, c.rxsa) /\ Table(c, c.queue)
        /\ DOMAIN c.txbuf = IdxOf(c)
    BY DEF Shape
  <1>5. Shape(d)
    BY <1>1, <1>2, <1>3, <1>4, ShapeOf
  <1>a. \A q \in PortsOf(c), k \in IdxOf(c) :
           k # i => /\ d.stat[q][k] = c.stat[q][k] /\ d.queue[q][k] = c.queue[q][k]
                    /\ d.rxbuf[q][k] = c.rxbuf[q][k] /\ d.rxsa[q][k] = c.rxsa[q][k]
                    /\ d.txbuf[k] = c.txbuf[k]
    BY <1>2, <1>3
  <1>c. d.setup = c.setup /\ d.toClose = c.toClose
    BY <1>3
  <1>b. Beside(c, d, i)
    BY <1>a, <1>c, <1>5 DEF Beside
  <1>d. \A q \in PortsOf(c) :
           /\ d.queue[q][i] = IF q = p THEN None ELSE c.queue[q][i]
           /\ d.rxbuf[q][i] = IF q = p THEN y ELSE c.rxbuf[q][i]
           /\ d.rxsa[q][i] = IF q = p THEN z ELSE c.rxsa[q][i]
           /\ d.stat[q][i] = IF q = p THEN "COMPLETE" ELSE c.stat[q][i]
    <2> TAKE q \in PortsOf(c)
    <2>1. /\ queue[q][i] = IF q = p THEN None ELSE c.queue[q][i]
          /\ rxbuf[q][i] = IF q = p THEN y ELSE c.rxbuf[q][i]
          /\ rxsa[q][i] = IF q = p THEN z ELSE c.rxsa[q][i]
          /\ stat[q][i] = IF q = p THEN "COMPLETE" ELSE c.stat[q][i]
      BY <1>2
    <2> QED BY <2>1, <1>3
  <1> QED BY <1>3, <1>b, <1>d DEF InSet

RxSet(c, d, p, i, y) ==
    /\ Beside(c, d, i)
    /\ \A q \in PortsOf(c) : d.rxbuf[q][i] = IF q = p THEN y ELSE c.rxbuf[q][i]
    /\ d.stat = c.stat /\ d.queue = c.queue /\ d.rxsa = c.rxsa /\ d.txbuf = c.txbuf
    /\ d.lastidx = c.lastidx /\ d.sem = c.sem /\ d.owned = c.owned

LEMMA SetRx ==
  ASSUME NEW c, Shape(c), NEW p \in PortsOf(c), NEW i \in IdxOf(c), NEW y,
         NEW d, d = [c EXCEPT !.rxbuf[p][i] = y]
  PROVE  RxSet(c, d, p, i, y)
  <1> DEFINE new == [c.rxbuf EXCEPT ![p][i] = y]
  <1>t. Table(c, c.stat) /\ Table(c, c.rxbuf) /\ Table(c, c.rxsa) /\ Table(c, c.queue)
    BY DEF Shape
  <1>1. d = [c EXCEPT !.rxbuf = new] /\ DOMAIN d = DOMAIN c
    BY DEF Shape
  <1>2. /\ Table(c, new)
        /\ \A q \in PortsOf(c), k \in IdxOf(c) :
              new[q][k] = IF q = p /\ k = i THEN y ELSE c.rxbuf[q][k]
    BY <1>t DEF Table
  <1> HIDE DEF new
  <1>3. /\ d.rxbuf = new /\ d.setup = c.setup /\ d.toClose = c.toClose
        /\ d.stat = c.stat /\ d.queue = c.queue /\ d.rxsa = c.rxsa /\ d.txbuf = c.txbuf
        /\ d.lastidx = c.lastidx /\ d.sem = c.sem /\ d.owned = c.owned
    BY <1>1 DEF Shape
  <1>4. Table(c, c.stat) /\ Table(c, c.rxbuf) /\ Table(c, c.rxsa) /\ Table(c, c.queue)
        /\ DOMAIN c.txbuf = IdxOf(c)
    BY DEF Shape
  <1>5. Shape(d)
    BY <1>1, <1>2, <1>3, <1>4, ShapeOf
  <1>b. Beside(c, d, i)
    BY <1>2, <1>3, <1>5 DEF Beside
  <1> QED BY <1>2, <1>3, <1>5, <1>b DEF RxSet

TxSet(c, d, i, y) ==
    /\ Beside(c, d, i) /\ d.txbuf[i] = y
    /\ d.stat = c.stat /\ d.queue = c.queue /\ d.rxsa = c.rxsa /\ d.rxbuf = c.rxbuf
    /\ d.lastidx = c.lastidx /\ d.sem = c.sem /\ d.owned = c.owned

LEMMA SetTx ==
  ASSUME NEW c, Shape(c), NEW i \in IdxOf(c), NEW y,
         NEW d, d = [c EXCEPT !.txbuf[i] = y]
  PROVE  TxSet(c, d, i, y)
  <1> DEFINE new == [c.txbuf EXCEPT ![i] = y]
  <1>1. d = [c EXCEPT !.txbuf = new] /\ DOMAIN d = DOMAIN c
    BY DEF Shape
  <1>2. DOMAIN new = IdxOf(c) /\ \A k \in IdxOf(c) : new[k] = IF k = i THEN y ELSE c.txbuf[k]
    BY DEF Shape
  <1> HIDE DEF new
  <1>3. /\ d.txbuf = new /\ d.setup = c.setup /\ d.toClose = c.toClose
        /\ d.stat = c.stat /\ d.queue = c.queue /\ d.rxsa = c.rxsa /\ d.rxbuf = c.rxbuf
        /\ d.lastidx = c.lastidx /\ d.sem = c.sem /\ d.owned = c.owned
    BY <1>1 DEF Shape
  <1>4. Table(c, c.stat) /\ Table(c, c.rxbuf) /\ Table(c, c.rxsa) /\ Table(c, c.queue)
        /\ DOMAIN c.txbuf = IdxOf(c)
    BY DEF Shape
  <1>5. Shape(d)
    BY <1>1, <1>2, <1>3, <1>4, ShapeOf
  <1>b. Beside(c, d, i)
    BY <1>2, <1>3, <1>5 DEF Beside
  <1> QED BY <1>2, <1>3, <1>5, <1>b DEF TxSet

StatCleared(c, d, i) ==
    /\ Beside(c, d, i)
    /\ \A q \in PortsOf(c) : d.stat[q][i] = "EMPTY"
    /\ d.queue = c.queue /\ d.rxbuf = c.rxbuf /\ d.rxsa = c.rxsa /\ d.txbuf = c.txbuf
    /\ d.lastidx = c.lastidx /\ d.sem = c.sem /\ d.owned = c.owned

LEMMA ClearStat ==
  ASSUME NEW c, Shape(c), NEW i \in IdxOf(c),
         NEW d, d = [c EXCEPT !.stat = [p \in DOMAIN @ |-> [@[p] EXCEPT ![i] = "EMPTY"]]]
  PROVE  StatCleared(c, d, i)
  <1> DEFINE new == [p \in DOMAIN c.stat |-> [c.stat[p] EXCEPT ![i] = "EMPTY"]]
  <1>1. d = [c EXCEPT !.stat = new] /\ DOMAIN d = DOMAIN c
    BY DEF Shape
  <1>2. /\ Table(c, new)
        /\ \A q \in PortsOf(c), k \in IdxOf(c) :
              new[q][k] = IF k = i THEN "EMPTY" ELSE c.stat[q][k]
    BY DEF Shape, Table
  <1> HIDE DEF new
  <1>3. /\ d.stat = new /\ d.setup = c.setup /\ d.toClose = c.toClose
        /\ d.queue = c.queue /\ d.rxbuf = c.rxbuf /\ d.rxsa = c.rxsa /\ d.txbuf = c.txbuf
        /\ d.lastidx = c.lastidx /\ d.sem = c.sem /\ d.owned = c.owned
    BY <1>1 DEF Shape
  <1>4. Table(c, c.stat) /\ Table(c, c.rxbuf) /\ Table(c, c.rxsa) /\ Table(c, c.queue)
        /\ DOMAIN c.txbuf = IdxOf(c)
    BY DEF Shape
  <1>5. Shape(d)
    BY <1>1, <1>2, <1>3, <1>4, ShapeOf
  <1>b. Beside(c, d, i)
    BY <1>2, <1>3, <1>5 DEF Beside
  <1> QED BY <1>2, <1>3, <1>5, <1>b DEF StatCleared

QueueDeleted(c, d, p, i, n, left) ==
    /\ Shape(d) /\ d.setup = c.setup /\ d.toClose = left /\ d.owned = n
    /\ \A q \in PortsOf(c), k \in IdxOf(c) :
          d.queue[q][k] = IF q = p /\ k = i THEN Deleted ELSE c.queue[q][k]
    /\ d.stat = c.stat /\ d.rxbuf = c.rxbuf /\ d.rxsa = c.rxsa /\ d.txbuf = c.txbuf
    /\ d.lastidx = c.lastidx /\ d.sem = c.sem

LEMMA DeleteQueue ==
  ASSUME NEW c, Shape(c), NEW p \in PortsOf(c), NEW i \in IdxOf(c), NEW n, NEW left,
         NEW d, d = [c EXCEPT !.queue[p][i] = Deleted, !.toClose = left, !.owned = n]
  PROVE  QueueDeleted(c, d, p, i, n, left)
  <1> DEFINE new == [c.queue EXCEPT ![p][i] = Deleted]
  <1>t. Table(c, c.stat) /\ Table(c, c.rxbuf) /\ Table(c, c.rxsa) /\ Table(c, c.queue)
    BY DEF Shape
  <1>1. d = [c EXCEPT !.queue = new, !.toClose = left, !.owned = n] /\ DOMAIN d = DOMAIN c
    BY DEF Shape
  <1>2. /\ Table(c, new)
        /\ \A q \in PortsOf(c), k \in IdxOf(c) :
              new[q][k] = IF q = p /\ k = i THEN Deleted ELSE c.queue[q][k]
    BY <1>t DEF Table
  <1> HIDE DEF new
  <1>3. /\ d.queue = new /\ d.setup = c.setup /\ d.toClose = left
        /\ d.stat = c.stat /\ d.rxbuf = c.rxbuf /\ d.rxsa = c.rxsa /\ d.txbuf = c.txbuf
        /\ d.lastidx = c.lastidx /\ d.sem = c.sem /\ d.owned = n
    BY <1>1 DEF Shape
  <1>4. Table(c, c.stat) /\ Table(c, c.rxbuf) /\ Table(c, c.rxsa) /\ Table(c, c.queue)
        /\ DOMAIN c.txbuf = IdxOf(c)
    BY DEF Shape
  <1>5. Shape(d)
    BY <1>1, <1>2, <1>3, <1>4, ShapeOf
  <1> QED BY <1>2, <1>3, <1>5 DEF QueueDeleted

-------------------------------------------------------------------------------
(* What the steps of a task do *)

MuxTasks == context.setup.tasks
\* Only task t moves, and only its index is different.
TaskStep(t) ==
    /\ Beside(context, context', me'[t].idx) /\ context'.lastidx \in Nat
    /\ pc' \in [MuxTasks -> Labels] /\ DOMAIN me' = MuxTasks
    /\ \A u \in MuxTasks : u # t => pc'[u] = pc[u] /\ me'[u] = me[u]
    /\ TaskShape(me'[t]) /\ me'[t].idx \in IdxOf(context)
    /\ bus'.cut = bus.cut /\ bus'.cb = bus.cb
    /\ \A f : f.idx # me'[t].idx => (f \in bus'.net <=> f \in bus.net)
    /\ bus'.fails = 0 => bus.fails = 0
SameQueues == context'.queue = context.queue /\ context'.owned = context.owned
SameFrames == context'.rxbuf = context.rxbuf /\ context'.rxsa = context.rxsa
SameTables == /\ context'.stat = context.stat /\ SameQueues /\ SameFrames
              /\ context'.txbuf = context.txbuf /\ context'.lastidx = context.lastidx
              /\ context'.sem = context.sem
SameCall(m, n) == m.req = n.req /\ m.sends = n.sends /\ m.answer = n.answer
SamePast(m, n) == m.overdue = n.overdue /\ m.missed = n.missed /\ m.dropped = n.dropped
SameIn(m, n) == m.in[1] = n.in[1] /\ m.in[2] = n.in[2]

LEMMA TypeIs ==
  ASSUME MuxType
  PROVE  /\ Shape(context) /\ context.lastidx \in Nat /\ MX!Tasks = MuxTasks
         /\ context.setup \in Setups /\ MX!Idx = IdxOf(context)
         /\ MX!Port(context.setup.red) = PortsOf(context)
         /\ pc \in [MuxTasks -> Labels] /\ DOMAIN me = MuxTasks
         /\ \A t \in MuxTasks : TaskShape(me[t]) /\ me[t].idx \in IdxOf(context)
         /\ DOMAIN bus = {"net", "cut", "cb", "fails"} /\ bus.fails \in Nat
         /\ 1 \in PortsOf(context)
         /\ context.setup.red => PortsOf(context) = {1, 2}
         /\ ~context.setup.red => PortsOf(context) = {1}
         /\ PortsOf(context) \subseteq {1, 2}
  BY DEF MuxType, ContextOk, BusOk, TaskOk, MuxTasks, MX!Tasks, MX!Idx, IdxOf, MX!Port, PortsOf

LEMMA SizeIs ==
  ASSUME SetupsAssumption, MuxType
  PROVE  /\ context.setup.maxbuf \in Nat /\ context.setup.maxbuf > 0
         /\ IdxOf(context) = 0 .. context.setup.maxbuf - 1
         /\ \A n \in Nat : n % context.setup.maxbuf \in IdxOf(context)
  <1>1. context.setup.maxbuf \in Nat /\ context.setup.maxbuf > 0
    BY DEF SetupsAssumption, MuxType, ContextOk
  <1> QED BY <1>1 DEF IdxOf

LEMMA GetIndexDoes ==
  ASSUME SetupsAssumption, MuxType, NEW t \in MuxTasks, MX!ecx_getindex(t)
  PROVE  /\ TaskStep(t) /\ bus' = bus /\ pc[t] = "idle" /\ pc'[t] = "scan"
         /\ ~context.sem /\ context'.sem /\ context'.stat = context.stat /\ SameQueues /\ SameFrames
         /\ context'.txbuf = context.txbuf
         /\ me[t].req < context.setup.reqs /\ me'[t].req = me[t].req + 1 /\ me'[t].cnt = 0
         /\ me'[t].sends = me[t].sends /\ me'[t].answer = me[t].answer
         /\ SamePast(me'[t], me[t]) /\ SameIn(me'[t], me[t])
  <1> DEFINE n == (context.lastidx + 1) % context.setup.maxbuf
  <1>1. n \in IdxOf(context)
    <2>1. context.lastidx + 1 \in Nat
      BY TypeIs
    <2> QED BY <2>1, SizeIs
  <1>2. /\ pc[t] = "idle" /\ me[t].req < context.setup.reqs /\ ~context.sem
        /\ context' = [context EXCEPT !.sem = TRUE]
        /\ me' = [me EXCEPT ![t].req = @ + 1, ![t].cnt = 0, ![t].idx = n]
        /\ pc' = [pc EXCEPT ![t] = "scan"] /\ bus' = bus
    BY DEF MX!ecx_getindex, MX!At, MX!Jump
  <1> HIDE DEF n
  <1>3. /\ DOMAIN me' = MuxTasks /\ \A u \in MuxTasks : u # t => me'[u] = me[u]
        /\ TaskShape(me'[t]) /\ me'[t].idx = n /\ me'[t].cnt = 0 /\ me'[t].req = me[t].req + 1
        /\ me'[t].sends = me[t].sends /\ me'[t].answer = me[t].answer
        /\ SamePast(me'[t], me[t]) /\ SameIn(me'[t], me[t])
    BY <1>2, TypeIs DEF TaskShape, SamePast, SameIn
  <1>4. Beside(context, context', n) /\ context'.sem /\ SameQueues /\ SameFrames
        /\ context'.txbuf = context.txbuf /\ context'.stat = context.stat
        /\ context'.lastidx = context.lastidx
    <2> DEFINE d == context'
    <2>1. d = [context EXCEPT !.sem = TRUE]
      BY <1>2
    <2> HIDE DEF d
    <2>2. Shape(context)
      BY TypeIs
    <2>3. /\ Beside(context, d, n) /\ d.sem = TRUE /\ d.queue = context.queue
          /\ d.owned = context.owned /\ d.rxbuf = context.rxbuf /\ d.rxsa = context.rxsa
          /\ d.txbuf = context.txbuf /\ d.stat = context.stat /\ d.lastidx = context.lastidx
      BY <2>1, <2>2, BesideSame, Zenon
    <2> QED BY <2>3 DEF d, SameQueues, SameFrames
  <1>5. pc' \in [MuxTasks -> Labels] /\ pc'[t] = "scan"
        /\ \A u \in MuxTasks : u # t => pc'[u] = pc[u]
    BY <1>2, TypeIs DEF Labels
  <1> QED BY <1>1, <1>2, <1>3, <1>4, <1>5, TypeIs DEF TaskStep

LEMMA ScanNextDoes ==
  ASSUME SetupsAssumption, MuxType, NEW t \in MuxTasks, MX!ScanNext(t)
  PROVE  /\ TaskStep(t) /\ bus' = bus /\ context' = context
         /\ pc[t] = "scan" /\ pc' = pc
         /\ context.stat[1][me[t].idx] # "EMPTY"
         /\ me'[t].idx = (me[t].idx + 1) % context.setup.maxbuf
         /\ me'[t].cnt = me[t].cnt + 1
         /\ SameCall(me'[t], me[t]) /\ SamePast(me'[t], me[t]) /\ SameIn(me'[t], me[t])
  <1> DEFINE n == (me[t].idx + 1) % context.setup.maxbuf
  <1>1. n \in IdxOf(context)
    <2>0. me[t].idx \in IdxOf(context)
      BY TypeIs
    <2>1. me[t].idx + 1 \in Nat
      <3>1. me[t].idx \in 0 .. context.setup.maxbuf - 1
        BY <2>0, SizeIs
      <3>2. context.setup.maxbuf \in Nat
        BY SizeIs
      <3> QED BY <3>1, <3>2
    <2> QED BY <2>1, SizeIs
  <1>2. /\ pc[t] = "scan" /\ context.stat[1][me[t].idx] # "EMPTY"
        /\ me' = [me EXCEPT ![t].idx = n, ![t].cnt = @ + 1]
        /\ context' = context /\ bus' = bus /\ pc' = pc
    BY DEF MX!ScanNext, MX!At
  <1> HIDE DEF n
  <1>3. /\ DOMAIN me' = MuxTasks /\ \A u \in MuxTasks : u # t => me'[u] = me[u]
        /\ TaskShape(me'[t]) /\ me'[t].idx = n /\ me'[t].cnt = me[t].cnt + 1
        /\ SameCall(me'[t], me[t]) /\ SamePast(me'[t], me[t]) /\ SameIn(me'[t], me[t])
    BY <1>2, TypeIs DEF TaskShape, SamePast, SameIn, SameCall
  <1>4. Beside(context, context', n) /\ context'.lastidx \in Nat
    BY <1>2, TypeIs, BesideSame
  <1> QED BY <1>1, <1>2, <1>3, <1>4, TypeIs DEF TaskStep, n

LEMMA FoundDoes ==
  ASSUME MuxType, NEW t \in MuxTasks, MX!Found(t)
  PROVE  LET i == me[t].idx
         IN /\ TaskStep(t) /\ bus' = bus /\ pc[t] = "scan" /\ pc'[t] = "mark"
            /\ context.stat[1][i] = "EMPTY" \/ me[t].cnt >= context.setup.maxbuf
            /\ ~context'.sem /\ SameQueues /\ SameFrames
            /\ \A q \in PortsOf(context) :
                  context'.stat[q][i] = IF q = 1 THEN "ALLOC" ELSE context.stat[q][i]
            /\ context'.txbuf[i] = [req |-> MX!Req(t), parts |-> {}]
            /\ me'[t].idx = i /\ me'[t].overdue = MX!Overdue(i)
            /\ me'[t].missed = me[t].missed /\ me'[t].dropped = me[t].dropped
            /\ SameCall(me'[t], me[t]) /\ SameIn(me'[t], me[t])
  <1> DEFINE i == me[t].idx
             y == [req |-> MX!Req(t), parts |-> {}]
             o == MX!Overdue(i)
  <1>1. /\ pc[t] = "scan"
        /\ context.stat[1][i] = "EMPTY" \/ me[t].cnt >= context.setup.maxbuf
        /\ context' = [context EXCEPT !.stat[1][i] = "ALLOC", !.lastidx = i, !.sem = FALSE, !.txbuf[i] = y]
        /\ me' = [me EXCEPT ![t].overdue = o]
        /\ pc' = [pc EXCEPT ![t] = "mark"] /\ bus' = bus
    BY DEF MX!Found, MX!At, MX!Jump
  <1> HIDE DEF y, o
  <1>2. i \in IdxOf(context) /\ i \in Nat
    BY TypeIs DEF IdxOf
  <1> HIDE DEF i
  <1>3. /\ Beside(context, context', i) /\ SameQueues /\ SameFrames
        /\ \A q \in PortsOf(context) :
              context'.stat[q][i] = IF q = 1 THEN "ALLOC" ELSE context.stat[q][i]
        /\ context'.txbuf[i] = y /\ context'.lastidx = i /\ ~context'.sem
    <2> DEFINE d == context'
    <2>1. d = [context EXCEPT !.stat[1][i] = "ALLOC", !.lastidx = i, !.sem = FALSE, !.txbuf[i] = y]
      BY <1>1
    <2> HIDE DEF d
    <2>0. Shape(context)
      BY TypeIs
    <2>2. TakenSet(context, d, i, y)
      BY <2>0, <2>1, <1>2, SetTaken, Zenon
    <2> QED BY <2>2 DEF TakenSet, d, SameQueues, SameFrames
  <1>4. /\ DOMAIN me' = MuxTasks /\ \A u \in MuxTasks : u # t => me'[u] = me[u]
        /\ TaskShape(me'[t]) /\ me'[t].idx = i /\ me'[t].overdue = o
        /\ me'[t].missed = me[t].missed /\ me'[t].dropped = me[t].dropped
        /\ SameCall(me'[t], me[t]) /\ SameIn(me'[t], me[t])
    BY <1>1, TypeIs DEF TaskShape, SameCall, SameIn, i
  <1>5. pc' \in [MuxTasks -> Labels] /\ pc'[t] = "mark"
        /\ \A u \in MuxTasks : u # t => pc'[u] = pc[u]
    BY <1>1, TypeIs DEF Labels
  <1>6. TaskStep(t)
    BY <1>1, <1>2, <1>3, <1>4, <1>5, TypeIs DEF TaskStep
  <1> QED BY <1>1, <1>3, <1>4, <1>5, <1>6 DEF y, o, i

LEMMA RedIs ==
  ASSUME MuxType, NEW t \in MuxTasks, pc[t] \in RedLabels
  PROVE  context.setup.red /\ PortsOf(context) = {1, 2}
  BY DEF MuxType, TaskOk, MuxTasks, PortsOf

LEMMA StepsTo ==
  ASSUME MuxType, NEW t \in MuxTasks, NEW label \in Labels, pc' = [pc EXCEPT ![t] = label]
  PROVE  /\ pc' \in [MuxTasks -> Labels] /\ pc'[t] = label
         /\ \A u \in MuxTasks : u # t => pc'[u] = pc[u]
  BY TypeIs

LEMMA MarkPrimaryDoes ==
  ASSUME MuxType, NEW t \in MuxTasks, MX!MarkPrimary(t)
  PROVE  LET i == me[t].idx
         IN /\ TaskStep(t) /\ bus' = bus /\ pc[t] = "mark" /\ pc'[t] = "send"
            /\ StatSet(context, context', 1, i, "TX") /\ me'[t].idx = i
            /\ me'[t].overdue = (me[t].overdue \/ (context.setup.red /\ MX!Overdue(i)))
            /\ me'[t].missed = me[t].missed /\ me'[t].dropped = me[t].dropped
            /\ SameCall(me'[t], me[t]) /\ SameIn(me'[t], me[t])
  <1> DEFINE i == me[t].idx
             o == me[t].overdue \/ (context.setup.red /\ MX!Overdue(i))
  <1>1. /\ pc[t] = "mark" /\ pc' = [pc EXCEPT ![t] = "send"] /\ bus' = bus
        /\ context' = [context EXCEPT !.stat[1][i] = "TX"]
    BY DEF MX!MarkPrimary, MX!At, MX!Jump
  <1>2. me' = [me EXCEPT ![t].overdue = o]
    BY DEF MX!MarkPrimary
  <1> HIDE DEF o
  <1>3. i \in IdxOf(context) /\ Shape(context) /\ 1 \in PortsOf(context)
    BY TypeIs
  <1>4. StatSet(context, context', 1, i, "TX")
    <2> DEFINE d == context'
    <2>1. d = [context EXCEPT !.stat[1][i] = "TX"]
      BY <1>1
    <2> HIDE DEF d, i
    <2>2. StatSet(context, d, 1, i, "TX")
      BY <2>1, <1>3, SetStat, Zenon
    <2> QED BY <2>2 DEF d
  <1>5. /\ DOMAIN me' = MuxTasks /\ \A u \in MuxTasks : u # t => me'[u] = me[u]
        /\ TaskShape(me'[t]) /\ me'[t].idx = i /\ me'[t].overdue = o
        /\ me'[t].missed = me[t].missed /\ me'[t].dropped = me[t].dropped
        /\ SameCall(me'[t], me[t]) /\ SameIn(me'[t], me[t])
    BY <1>2, TypeIs DEF TaskShape, SameCall, SameIn
  <1>6. /\ pc' \in [MuxTasks -> Labels] /\ pc'[t] = "send"
        /\ \A u \in MuxTasks : u # t => pc'[u] = pc[u]
    BY <1>1, StepsTo DEF Labels
  <1>7. Beside(context, context', i) /\ context'.lastidx \in Nat
    BY <1>4, TypeIs DEF StatSet
  <1>8. TaskStep(t)
    BY <1>1, <1>3, <1>5, <1>6, <1>7 DEF TaskStep
  <1> QED BY <1>1, <1>4, <1>5, <1>6, <1>8 DEF o

LEMMA MarkAgainDoes ==
  ASSUME MuxType, NEW t \in MuxTasks, MX!MarkSecondary(t) \/ MX!MarkResend(t)
  PROVE  /\ TaskStep(t) /\ bus' = bus /\ me' = me /\ context.setup.red
         /\ \/ pc[t] = "mark2" /\ pc'[t] = "send2"
            \/ pc[t] = "mark3" /\ pc'[t] = "resend"
         /\ StatSet(context, context', 2, me[t].idx, "TX")
  <1> DEFINE i == me[t].idx
  <1>1. PICK label \in Labels :
           /\ \/ pc[t] = "mark2" /\ label = "send2"
              \/ pc[t] = "mark3" /\ label = "resend"
           /\ pc' = [pc EXCEPT ![t] = label] /\ bus' = bus /\ me' = me
           /\ context' = [context EXCEPT !.stat[2][i] = "TX"]
    BY DEF MX!MarkSecondary, MX!MarkResend, MX!Mark, MX!At, MX!Jump, Labels
  <1>2. context.setup.red /\ PortsOf(context) = {1, 2}
    BY <1>1, RedIs DEF RedLabels
  <1>3. i \in IdxOf(context) /\ Shape(context) /\ 2 \in PortsOf(context)
    BY <1>2, TypeIs
  <1>4. StatSet(context, context', 2, i, "TX")
    <2> DEFINE d == context'
    <2>1. d = [context EXCEPT !.stat[2][i] = "TX"]
      BY <1>1
    <2> HIDE DEF d, i
    <2>2. StatSet(context, d, 2, i, "TX")
      BY <2>1, <1>3, SetStat, Zenon
    <2> QED BY <2>2 DEF d
  <1>5. /\ pc' \in [MuxTasks -> Labels] /\ pc'[t] = label
        /\ \A u \in MuxTasks : u # t => pc'[u] = pc[u]
    BY <1>1, StepsTo
  <1>6. Beside(context, context', i) /\ context'.lastidx \in Nat
    BY <1>4, TypeIs DEF StatSet
  <1>7. TaskStep(t)
    BY <1>1, <1>3, <1>5, <1>6, TypeIs DEF TaskStep
  <1> QED BY <1>1, <1>2, <1>4, <1>5, <1>7

\* A frame takes its content along, and the slaves add themselves.
LEMMA TravelIs ==
  ASSUME MuxType, NEW p \in PortsOf(context), NEW i \in IdxOf(context), NEW n \in Nat,
         NEW sa \in Ways, NEW content \in Contents
  PROVE  LET f == MX!Travel(p, i, n, sa, content)
         IN /\ f \in Frames /\ f.port \in PortsOf(context)
            /\ f = [idx |-> i, n |-> n, sa |-> sa,
                    port |-> IF context.setup.red /\ ~bus.cut THEN 3 - p ELSE p,
                    content |-> [req |-> content.req,
                                 parts |-> content.parts \cup
                                    IF bus.cut THEN {p} ELSE IF p = 1 THEN {1, 2} ELSE {}]]
  <1> DEFINE more == content.parts \cup IF bus.cut THEN {p} ELSE IF p = 1 THEN {1, 2} ELSE {}
             port == IF context.setup.red /\ ~bus.cut THEN 3 - p ELSE p
  <1>1. p \in {1, 2} /\ i \in Nat /\ port \in PortsOf(context) /\ port \in {1, 2}
    BY DEF PortsOf, IdxOf
  <1>2. content.parts \in SUBSET {1, 2}
    BY DEF Contents
  <1>3. more \in SUBSET {1, 2}
    BY <1>1, <1>2
  <1>4. content.parts \cup (CASE bus.cut -> {p} [] ~bus.cut /\ p = 1 -> MX!Parts [] OTHER -> {}) = more
    BY <1>1 DEF MX!Parts
  <1>5. [content EXCEPT !.parts = @ \cup CASE bus.cut -> {p} [] ~bus.cut /\ p = 1 -> MX!Parts [] OTHER -> {}]
           = [content EXCEPT !.parts = more]
    BY <1>4
  <1> HIDE DEF more, port
  <1>6. [content EXCEPT !.parts = more] = [req |-> content.req, parts |-> more]
    BY DEF Contents
  <1>7. [req |-> content.req, parts |-> more] \in Contents
    BY <1>3 DEF Contents
  <1>8. MX!Travel(p, i, n, sa, content)
           = [idx |-> i, n |-> n, sa |-> sa, port |-> port,
              content |-> [req |-> content.req, parts |-> more]]
    BY <1>5, <1>6 DEF MX!Travel, port
  <1>9. [idx |-> i, n |-> n, sa |-> sa, port |-> port,
         content |-> [req |-> content.req, parts |-> more]] \in Frames
    BY <1>1, <1>7 DEF Frames
  <1> QED BY <1>1, <1>8, <1>9 DEF more, port

\* What a send does to the buffers of index i and to the line.
Sent(t, p, f) ==
    LET i == me[t].idx
    IN /\ Beside(context, context', i) /\ SameFrames /\ context'.txbuf = context.txbuf
       /\ context'.lastidx = context.lastidx /\ context'.sem = context.sem
       /\ \A q \in PortsOf(context) :
             context'.queue[q][i] = IF q = 1 THEN None ELSE context.queue[q][i]
       /\ context'.owned = IF context.queue[1][i] = None THEN context.owned ELSE context.owned - 1
       /\ bus'.cut = bus.cut /\ bus'.cb = bus.cb /\ DOMAIN bus' = DOMAIN bus
       /\ \/ /\ bus'.net = bus.net \cup {f} /\ bus'.fails = bus.fails
             /\ context'.stat = context.stat
          \/ /\ bus'.net = bus.net /\ bus'.fails = bus.fails + 1
             /\ \A q \in PortsOf(context) :
                   context'.stat[q][i] = IF q = p THEN "EMPTY" ELSE context.stat[q][i]

LEMMA SweepIs ==
  ASSUME MuxType, NEW i \in IdxOf(context)
  PROVE  LET c == MX!Sweep(i)
         IN /\ Beside(context, c, i) /\ c.stat = context.stat
            /\ c.rxbuf = context.rxbuf /\ c.rxsa = context.rxsa /\ c.txbuf = context.txbuf
            /\ c.lastidx = context.lastidx /\ c.sem = context.sem
            /\ \A q \in PortsOf(context) :
                  c.queue[q][i] = IF q = 1 THEN None ELSE context.queue[q][i]
            /\ c.owned = IF context.queue[1][i] = None THEN context.owned ELSE context.owned - 1
  <1>1. Shape(context) /\ 1 \in PortsOf(context)
    BY TypeIs
  <1>2. CASE context.queue[1][i] = None
    <2>1. MX!Sweep(i) = context
      BY <1>2 DEF MX!Sweep
    <2>2. Beside(context, context, i)
      BY <1>1, BesideSame
    <2> QED BY <1>2, <2>1, <2>2
  <1>3. CASE context.queue[1][i] # None
    <2> DEFINE d == MX!Sweep(i)
               n == context.owned - 1
    <2>1. d = [context EXCEPT !.queue[1][i] = None, !.owned = n]
      BY <1>3 DEF MX!Sweep
    <2> HIDE DEF d, n
    <2>2. QueueSet(context, d, 1, i, None, n)
      BY <2>1, <1>1, SetQueue, Zenon
    <2> QED BY <1>3, <2>2 DEF QueueSet, d, n
  <1> QED BY <1>2, <1>3

LEMMA OutframDoes ==
  ASSUME MuxType, NEW t \in MuxTasks, NEW p \in PortsOf(context), NEW sa, NEW content, NEW label,
         MX!OutframSend(t, p, sa, content, label)
  PROVE  /\ Sent(t, p, MX!Travel(p, me[t].idx, me[t].sends, sa, content))
         /\ pc' = [pc EXCEPT ![t] = label]
  <1> DEFINE i == me[t].idx
             f == MX!Travel(p, i, me[t].sends, sa, content)
             c == MX!Sweep(i)
             d == context'
  <1>1. i \in IdxOf(context) /\ Shape(context)
    BY TypeIs
  <1>2. pc' = [pc EXCEPT ![t] = label]
    BY DEF MX!OutframSend, MX!Jump
  <1>3. \/ bus' = [bus EXCEPT !.net = @ \cup {f}] /\ d = c
        \/ bus' = [bus EXCEPT !.fails = @ + 1] /\ d = [c EXCEPT !.stat[p][i] = "EMPTY"]
    BY DEF MX!OutframSend
  <1>4. /\ Beside(context, c, i) /\ c.stat = context.stat
        /\ c.rxbuf = context.rxbuf /\ c.rxsa = context.rxsa /\ c.txbuf = context.txbuf
        /\ c.lastidx = context.lastidx /\ c.sem = context.sem
        /\ \A q \in PortsOf(context) :
              c.queue[q][i] = IF q = 1 THEN None ELSE context.queue[q][i]
        /\ c.owned = IF context.queue[1][i] = None THEN context.owned ELSE context.owned - 1
    BY <1>1, SweepIs
  <1> HIDE DEF f, c, d, i
  <1>5. CASE bus' = [bus EXCEPT !.net = @ \cup {f}] /\ d = c
    <2>1. /\ bus'.cut = bus.cut /\ bus'.cb = bus.cb /\ DOMAIN bus' = DOMAIN bus
          /\ bus'.net = bus.net \cup {f} /\ bus'.fails = bus.fails
      BY <1>5, TypeIs
    <2> QED BY <1>2, <1>4, <1>5, <2>1 DEF Sent, SameFrames, d, f, i
  <1>6. CASE bus' = [bus EXCEPT !.fails = @ + 1] /\ d = [c EXCEPT !.stat[p][i] = "EMPTY"]
    <2>1. /\ bus'.cut = bus.cut /\ bus'.cb = bus.cb /\ DOMAIN bus' = DOMAIN bus
          /\ bus'.net = bus.net /\ bus'.fails = bus.fails + 1
      BY <1>6, TypeIs
    <2>2. Shape(c) /\ c.setup = context.setup
      BY <1>4 DEF Beside
    <2>3. p \in PortsOf(c) /\ i \in IdxOf(c) /\ PortsOf(c) = PortsOf(context) /\ IdxOf(c) = IdxOf(context)
      BY <1>1, <2>2 DEF PortsOf, IdxOf
    <2>4. StatSet(c, d, p, i, "EMPTY")
      BY <1>6, <2>2, <2>3, SetStat, Zenon
    <2>5. Beside(context, d, i)
      BY <1>4, <2>3, <2>4 DEF StatSet, Beside
    <2>6. \A q \in PortsOf(context) :
             d.stat[q][i] = IF q = p THEN "EMPTY" ELSE context.stat[q][i]
      BY <1>4, <2>3, <2>4 DEF StatSet
    <2> QED BY <1>2, <1>4, <2>1, <2>4, <2>5, <2>6 DEF StatSet, Sent, SameFrames, d, f, i
  <1> QED BY <1>3, <1>5, <1>6

LEMMA SentSteps ==
  ASSUME MuxType, NEW t \in MuxTasks, NEW p, NEW f, NEW label \in Labels,
         Sent(t, p, f), f.idx = me[t].idx, pc' = [pc EXCEPT ![t] = label],
         DOMAIN me' = MuxTasks, \A u \in MuxTasks : u # t => me'[u] = me[u],
         TaskShape(me'[t]), me'[t].idx = me[t].idx
  PROVE  TaskStep(t) /\ pc'[t] = label
  <1>1. /\ pc' \in [MuxTasks -> Labels] /\ pc'[t] = label
        /\ \A u \in MuxTasks : u # t => pc'[u] = pc[u]
    BY StepsTo
  <1>2. bus.fails \in Nat /\ me[t].idx \in IdxOf(context) /\ context.lastidx \in Nat
    BY TypeIs
  <1>3. /\ \A g : g.idx # me'[t].idx => (g \in bus'.net <=> g \in bus.net)
        /\ bus'.fails = 0 => bus.fails = 0
    BY <1>2 DEF Sent
  <1>4. /\ Beside(context, context', me'[t].idx) /\ context'.lastidx \in Nat
        /\ bus'.cut = bus.cut /\ bus'.cb = bus.cb
    BY <1>2 DEF Sent
  <1> QED BY <1>1, <1>2, <1>3, <1>4 DEF TaskStep

LEMMA SendPrimaryDoes ==
  ASSUME MuxType, NEW t \in MuxTasks, MX!SendPrimary(t)
  PROVE  LET i == me[t].idx
             f == MX!Travel(1, i, me[t].sends, "primary", context.txbuf[i])
         IN /\ TaskStep(t) /\ pc[t] = "send"
            /\ pc'[t] = IF context.setup.red THEN "mark2" ELSE "poll1"
            /\ Sent(t, 1, f) /\ f \in Frames /\ f.idx = i /\ f.port \in PortsOf(context)
            /\ me'[t].idx = i /\ me'[t].req = me[t].req /\ me'[t].sends = me[t].sends + 1
            /\ me'[t].answer = me[t].answer
            /\ ~me'[t].in[1] /\ (me'[t].in[2] <=> ~context.setup.red)
            /\ SamePast(me'[t], me[t])
  <1> DEFINE i == me[t].idx
             f == MX!Travel(1, i, me[t].sends, "primary", context.txbuf[i])
             label == IF context.setup.red THEN "mark2" ELSE "poll1"
             in == <<FALSE, ~context.setup.red>>
  <1>1. /\ pc[t] = "send" /\ MX!OutframSend(t, 1, "primary", context.txbuf[i], label)
        /\ me' = [me EXCEPT ![t].sends = @ + 1, ![t].in = in]
    BY DEF MX!SendPrimary, MX!At
  <1>2. 1 \in PortsOf(context) /\ i \in IdxOf(context) /\ me[t].sends \in Nat
    BY TypeIs DEF TaskShape
  <1>3. context.txbuf[i] \in Contents
    BY <1>1 DEF MuxType, TaskOk, MuxTasks
  <1>4. f \in Frames /\ f.idx = i /\ f.port \in PortsOf(context)
    BY <1>2, <1>3, TravelIs DEF Ways
  <1>5. Sent(t, 1, f) /\ pc' = [pc EXCEPT ![t] = label]
    BY <1>1, <1>2, OutframDoes
  <1>6. DOMAIN in = {1, 2} /\ ~in[1] /\ (in[2] <=> ~context.setup.red)
    <2> DEFINE o == ~context.setup.red
    <2>1. o <=> ~context.setup.red
      OBVIOUS
    <2> HIDE DEF o
    <2>2. DOMAIN <<FALSE, o>> = {1, 2} /\ <<FALSE, o>>[1] = FALSE /\ <<FALSE, o>>[2] = o
      OBVIOUS
    <2>3. in = <<FALSE, o>>
      BY DEF o
    <2> QED BY <2>1, <2>2, <2>3, Zenon
  <1> HIDE DEF f, in
  <1>7. /\ DOMAIN me' = MuxTasks /\ \A u \in MuxTasks : u # t => me'[u] = me[u]
        /\ me'[t].in = in /\ TaskShape(me'[t]) /\ me'[t].idx = i /\ me'[t].req = me[t].req
        /\ me'[t].sends = me[t].sends + 1 /\ me'[t].answer = me[t].answer
        /\ SamePast(me'[t], me[t])
    BY <1>1, <1>6, TypeIs DEF TaskShape, SamePast
  <1>8. label \in Labels
    BY DEF Labels
  <1> HIDE DEF label
  <1>9. TaskStep(t) /\ pc'[t] = label
    BY <1>4, <1>5, <1>7, <1>8, SentSteps
  <1> QED BY <1>1, <1>4, <1>5, <1>6, <1>7, <1>9 DEF f, label

LEMMA SendSecondaryDoes ==
  ASSUME MuxType, NEW t \in MuxTasks, MX!SendSecondary(t)
  PROVE  LET i == me[t].idx
             f == MX!Travel(2, i, me[t].sends, "secondary", [req |-> None, parts |-> {}])
         IN /\ TaskStep(t) /\ pc[t] = "send2" /\ pc'[t] = "poll1" /\ context.setup.red
            /\ Sent(t, 2, f) /\ f \in Frames /\ f.idx = i /\ f.port \in PortsOf(context)
            /\ [req |-> None, parts |-> {}] \in Contents
            /\ me'[t].idx = i /\ SameCall(me'[t], me[t]) /\ SameIn(me'[t], me[t])
            /\ me'[t].overdue = me[t].overdue /\ me'[t].missed = me[t].missed
            /\ me'[t].dropped = (me[t].dropped \/ MX!SweepsAnswer(t))
  <1> DEFINE i == me[t].idx
             y == [req |-> None, parts |-> {}]
             f == MX!Travel(2, i, me[t].sends, "secondary", y)
             o == me[t].dropped \/ MX!SweepsAnswer(t)
  <1>1. pc[t] = "send2" /\ MX!OutframSend(t, 2, "secondary", y, "poll1")
    BY DEF MX!SendSecondary, MX!At
  <1>a. me' = [me EXCEPT ![t].dropped = o]
    BY DEF MX!SendSecondary
  <1>2. context.setup.red /\ PortsOf(context) = {1, 2}
    BY <1>1, RedIs DEF RedLabels
  <1>3. 2 \in PortsOf(context) /\ i \in IdxOf(context) /\ me[t].sends \in Nat
    BY <1>2, TypeIs DEF TaskShape
  <1>4. y \in Contents
    BY DEF Contents
  <1>5. f \in Frames /\ f.idx = i /\ f.port \in PortsOf(context)
    BY <1>3, <1>4, TravelIs DEF Ways
  <1>6. Sent(t, 2, f) /\ pc' = [pc EXCEPT ![t] = "poll1"]
    BY <1>1, <1>3, OutframDoes
  <1> HIDE DEF f, o
  <1>7. /\ DOMAIN me' = MuxTasks /\ \A u \in MuxTasks : u # t => me'[u] = me[u]
        /\ TaskShape(me'[t]) /\ me'[t].idx = i /\ SameCall(me'[t], me[t]) /\ SameIn(me'[t], me[t])
        /\ me'[t].overdue = me[t].overdue /\ me'[t].missed = me[t].missed /\ me'[t].dropped = o
    BY <1>a, TypeIs DEF TaskShape, SameCall, SameIn
  <1>8. "poll1" \in Labels
    BY DEF Labels
  <1>9. TaskStep(t) /\ pc'[t] = "poll1"
    BY <1>5, <1>6, <1>7, <1>8, SentSteps
  <1> QED BY <1>1, <1>2, <1>4, <1>5, <1>6, <1>7, <1>9 DEF f, o

LEMMA ResendDoes ==
  ASSUME MuxType, NEW t \in MuxTasks, MX!Resend(t)
  PROVE  LET i == me[t].idx
             f == MX!Travel(2, i, me[t].sends, "primary", context.txbuf[i])
         IN /\ TaskStep(t) /\ pc[t] = "resend" /\ pc'[t] = "rewait" /\ context.setup.red
            /\ Sent(t, 2, f) /\ f \in Frames /\ f.idx = i /\ f.port \in PortsOf(context)
            /\ me'[t].idx = i /\ SameCall(me'[t], me[t])
            /\ me'[t].in[1] = me[t].in[1] /\ ~me'[t].in[2]
            /\ me'[t].overdue = me[t].overdue /\ me'[t].missed = me[t].missed
            /\ me'[t].dropped = (me[t].dropped \/ MX!SweepsAnswer(t))
  <1> DEFINE i == me[t].idx
             f == MX!Travel(2, i, me[t].sends, "primary", context.txbuf[i])
             o == me[t].dropped \/ MX!SweepsAnswer(t)
  <1>1. pc[t] = "resend" /\ MX!OutframSend(t, 2, "primary", context.txbuf[i], "rewait")
    BY DEF MX!Resend, MX!At
  <1>a. me' = [me EXCEPT ![t].in[2] = FALSE, ![t].dropped = o]
    BY DEF MX!Resend
  <1>2. context.setup.red /\ PortsOf(context) = {1, 2}
    BY <1>1, RedIs DEF RedLabels
  <1>3. 2 \in PortsOf(context) /\ i \in IdxOf(context) /\ me[t].sends \in Nat
    BY <1>2, TypeIs DEF TaskShape
  <1>4. context.txbuf[i] \in Contents
    BY <1>1 DEF MuxType, TaskOk, MuxTasks
  <1>5. f \in Frames /\ f.idx = i /\ f.port \in PortsOf(context)
    BY <1>3, <1>4, TravelIs DEF Ways
  <1>6. Sent(t, 2, f) /\ pc' = [pc EXCEPT ![t] = "rewait"]
    BY <1>1, <1>3, OutframDoes
  <1> HIDE DEF f, o
  <1>7. /\ DOMAIN me' = MuxTasks /\ \A u \in MuxTasks : u # t => me'[u] = me[u]
        /\ TaskShape(me'[t]) /\ me'[t].idx = i /\ SameCall(me'[t], me[t])
        /\ me'[t].in[1] = me[t].in[1] /\ ~me'[t].in[2]
        /\ me'[t].overdue = me[t].overdue /\ me'[t].missed = me[t].missed /\ me'[t].dropped = o
    BY <1>a, TypeIs DEF TaskShape, SameCall
  <1>8. "rewait" \in Labels
    BY DEF Labels
  <1>9. TaskStep(t) /\ pc'[t] = "rewait"
    BY <1>5, <1>6, <1>7, <1>8, SentSteps
  <1> QED BY <1>1, <1>2, <1>5, <1>6, <1>7, <1>9 DEF f, o

\* Port p of t is not read, has nothing, or gives its message.
Takes(t, p) ==
    LET i == me[t].idx
        f == context.queue[p][i]
    IN /\ f # None /\ InSet(context, context', p, i, context.owned - 1, f.content, f.sa)
       /\ me'[t].in[p] /\ \A q \in {1, 2} : q # p => me'[t].in[q] = me[t].in[q]
       /\ ~me[t].in[p]
Leaves(t, p) == me' = me /\ context' = context /\ (me[t].in[p] \/ context.queue[p][me[t].idx] = None)

LEMMA TakeDoes ==
  ASSUME MuxType, NEW t \in MuxTasks, NEW p \in PortsOf(context), NEW label \in Labels,
         pc' = [pc EXCEPT ![t] = label], bus' = bus,
         IF me[t].in[p] THEN UNCHANGED <<me, context>> ELSE MX!ecx_inframe(t, p)
  PROVE  /\ TaskStep(t) /\ pc'[t] = label /\ me'[t].idx = me[t].idx
         /\ SameCall(me'[t], me[t]) /\ SamePast(me'[t], me[t])
         /\ Takes(t, p) \/ Leaves(t, p)
  <1> DEFINE i == me[t].idx
             f == context.queue[p][i]
  <1>1. i \in IdxOf(context) /\ Shape(context) /\ p \in {1, 2} /\ context.lastidx \in Nat
    BY TypeIs
  <1>2. /\ pc' \in [MuxTasks -> Labels] /\ pc'[t] = label
        /\ \A u \in MuxTasks : u # t => pc'[u] = pc[u]
    BY StepsTo
  <1>3. CASE me[t].in[p] \/ f = None
    <2>1. me' = me /\ context' = context
      BY <1>3 DEF MX!ecx_inframe
    <2>2. Beside(context, context', i)
      BY <1>1, <2>1, BesideSame
    <2>3. TaskStep(t)
      BY <1>1, <1>2, <2>1, <2>2, TypeIs DEF TaskStep
    <2> QED BY <1>2, <1>3, <2>1, <2>3 DEF Leaves, SameCall, SamePast
  <1>4. CASE ~me[t].in[p] /\ f # None
    <2> DEFINE d == context'
               n == context.owned - 1
               y == f.content
               z == f.sa
    <2>1. /\ me' = [me EXCEPT ![t].in[p] = TRUE]
          /\ d = [context EXCEPT !.queue[p][i] = None, !.owned = n, !.rxbuf[p][i] = y,
                                 !.rxsa[p][i] = z, !.stat[p][i] = "COMPLETE"]
      BY <1>4 DEF MX!ecx_inframe
    <2>2. /\ DOMAIN me' = MuxTasks /\ \A u \in MuxTasks : u # t => me'[u] = me[u]
          /\ TaskShape(me'[t]) /\ me'[t].idx = i /\ me'[t].in[p]
          /\ SameCall(me'[t], me[t]) /\ SamePast(me'[t], me[t])
          /\ \A q \in {1, 2} : q # p => me'[t].in[q] = me[t].in[q]
      BY <1>1, <2>1, TypeIs DEF TaskShape, SameCall, SamePast
    <2> HIDE DEF d, n, y, z, i
    <2>3. InSet(context, d, p, i, n, y, z)
      BY <1>1, <2>1, SetIn, Zenon
    <2>4. Beside(context, d, i) /\ d.lastidx \in Nat
      BY <1>1, <2>3 DEF InSet
    <2>5. TaskStep(t)
      BY <1>1, <1>2, <2>2, <2>4 DEF TaskStep, d
    <2> QED BY <1>2, <1>4, <2>2, <2>3, <2>5 DEF Takes, d, n, y, z, i
  <1> QED BY <1>3, <1>4

LEMMA PollDoes ==
  ASSUME MuxType, NEW t \in MuxTasks, MX!PollPrimary(t) \/ MX!PollSecondary(t) \/ MX!Rewait(t)
  PROVE  /\ TaskStep(t) /\ bus' = bus /\ me'[t].idx = me[t].idx
         /\ SameCall(me'[t], me[t]) /\ SamePast(me'[t], me[t])
         /\ \/ /\ pc[t] = "poll1" /\ pc'[t] = IF context.setup.red THEN "poll2" ELSE "timer"
               /\ Takes(t, 1) \/ Leaves(t, 1)
            \/ /\ pc[t] = "poll2" /\ pc'[t] = "timer" /\ context.setup.red
               /\ Takes(t, 2) \/ Leaves(t, 2)
            \/ /\ pc[t] = "rewait" /\ pc'[t] = "rewait" /\ context.setup.red
               /\ Takes(t, 2) \/ Leaves(t, 2)
  <1>1. CASE MX!PollPrimary(t)
    <2> DEFINE label == IF context.setup.red THEN "poll2" ELSE "timer"
    <2>1. /\ pc[t] = "poll1" /\ pc' = [pc EXCEPT ![t] = label] /\ bus' = bus
          /\ IF me[t].in[1] THEN UNCHANGED <<me, context>> ELSE MX!ecx_inframe(t, 1)
      BY <1>1 DEF MX!PollPrimary, MX!Poll, MX!At, MX!Jump
    <2>2. label \in Labels /\ 1 \in PortsOf(context)
      BY DEF Labels, PortsOf
    <2> HIDE DEF label
    <2>3. /\ TaskStep(t) /\ pc'[t] = label /\ me'[t].idx = me[t].idx
          /\ SameCall(me'[t], me[t]) /\ SamePast(me'[t], me[t])
          /\ Takes(t, 1) \/ Leaves(t, 1)
      BY <2>1, <2>2, TakeDoes
    <2> QED BY <2>1, <2>3 DEF label
  <1>2. CASE MX!PollSecondary(t)
    <2>1. /\ pc[t] = "poll2" /\ pc' = [pc EXCEPT ![t] = "timer"] /\ bus' = bus
          /\ IF me[t].in[2] THEN UNCHANGED <<me, context>> ELSE MX!ecx_inframe(t, 2)
      BY <1>2 DEF MX!PollSecondary, MX!Poll, MX!At, MX!Jump
    <2>2. "timer" \in Labels /\ 2 \in PortsOf(context) /\ context.setup.red
      BY <2>1, RedIs DEF Labels, RedLabels
    <2>3. /\ TaskStep(t) /\ pc'[t] = "timer" /\ me'[t].idx = me[t].idx
          /\ SameCall(me'[t], me[t]) /\ SamePast(me'[t], me[t])
          /\ Takes(t, 2) \/ Leaves(t, 2)
      BY <2>1, <2>2, TakeDoes
    <2> QED BY <2>1, <2>2, <2>3
  <1>3. CASE MX!Rewait(t)
    <2>1. /\ pc[t] = "rewait" /\ pc' = [pc EXCEPT ![t] = "rewait"] /\ bus' = bus
          /\ IF me[t].in[2] THEN UNCHANGED <<me, context>> ELSE MX!ecx_inframe(t, 2)
      BY <1>3 DEF MX!Rewait, MX!At, MX!Jump
    <2>2. "rewait" \in Labels /\ 2 \in PortsOf(context) /\ context.setup.red
      BY <2>1, RedIs DEF Labels, RedLabels
    <2>3. /\ TaskStep(t) /\ pc'[t] = "rewait" /\ me'[t].idx = me[t].idx
          /\ SameCall(me'[t], me[t]) /\ SamePast(me'[t], me[t])
          /\ Takes(t, 2) \/ Leaves(t, 2)
      BY <2>1, <2>2, TakeDoes
    <2> QED BY <2>1, <2>2, <2>3
  <1> QED BY <1>1, <1>2, <1>3

LEMMA WaitOverDoes ==
  ASSUME MuxType, NEW t \in MuxTasks, MX!WaitOver(t)
  PROVE  LET i == me[t].idx
             red == context.setup.red
             crossed == /\ red /\ me[t].in[1] /\ me[t].in[2]
                        /\ context.rxsa[1][i] = "secondary" /\ context.rxsa[2][i] = "primary"
             broken == /\ red /\ me[t].in[2] /\ context.rxsa[2][i] = "secondary"
                       /\ me[t].in[1] => context.rxsa[1][i] = "primary"
         IN /\ TaskStep(t) /\ bus' = bus /\ pc[t] = "timer" /\ me'[t].idx = i
            /\ SameCall(me'[t], me[t]) /\ SameIn(me'[t], me[t])
            /\ me'[t].overdue = me[t].overdue /\ me'[t].dropped = me[t].dropped
            /\ me'[t].missed = MX!Missed(t)
            /\ \/ crossed /\ pc'[t] = "use" /\ RxSet(context, context', 1, i, context.rxbuf[2][i])
               \/ /\ broken /\ pc'[t] = "mark3"
                  /\ IF me[t].in[1] THEN TxSet(context, context', i, context.rxbuf[1][i])
                                    ELSE context' = context
               \/ /\ ~crossed /\ ~broken /\ context' = context
                  /\ pc'[t] = IF me[t].in[1] THEN "use" ELSE "again"
  <1> DEFINE i == me[t].idx
             red == context.setup.red
             crossed == /\ red /\ me[t].in[1] /\ me[t].in[2]
                        /\ context.rxsa[1][i] = "secondary" /\ context.rxsa[2][i] = "primary"
             broken == /\ red /\ me[t].in[2] /\ context.rxsa[2][i] = "secondary"
                       /\ me[t].in[1] => context.rxsa[1][i] = "primary"
             one == MX!Came(t, 1)
             two == MX!Came(t, 2)
             y == context.rxbuf[2][i]
             z == context.rxbuf[1][i]
             a == red /\ <<one, two>> = <<"secondary", "primary">>
             b == red /\ <<one, two>> \in {<<"none", "secondary">>, <<"primary", "secondary">>}
             d == context'
             missed == MX!Missed(t)
  <1>1. /\ pc[t] = "timer" /\ bus' = bus /\ me' = [me EXCEPT ![t].missed = missed]
        /\ CASE a -> /\ context' = [context EXCEPT !.rxbuf[1][i] = y]
                     /\ pc' = [pc EXCEPT ![t] = "use"]
             [] b -> /\ context' = IF one = "none" THEN context ELSE [context EXCEPT !.txbuf[i] = z]
                     /\ pc' = [pc EXCEPT ![t] = "mark3"]
             [] OTHER -> /\ pc' = [pc EXCEPT ![t] = IF me[t].in[1] THEN "use" ELSE "again"]
                         /\ context' = context
    BY Zenon DEF MX!WaitOver, MX!At, MX!Jump
  <1>2. /\ i \in IdxOf(context) /\ Shape(context) /\ 1 \in PortsOf(context)
        /\ context.lastidx \in Nat
    BY TypeIs
  <1>3. red => PortsOf(context) = {1, 2}
    BY TypeIs
  <1>4. /\ me[t].in[1] => context.rxsa[1][i] \in {"primary", "secondary"}
        /\ red /\ me[t].in[2] => context.rxsa[2][i] \in {"primary", "secondary"}
    BY <1>3, <1>2 DEF MuxType, TaskOk, MuxTasks, Ways
  <1>5. /\ one = IF me[t].in[1] THEN context.rxsa[1][i] ELSE "none"
        /\ two = IF me[t].in[2] THEN context.rxsa[2][i] ELSE "none"
    BY DEF MX!Came
  <1>6. /\ a <=> red /\ one = "secondary" /\ two = "primary"
        /\ b <=> red /\ two = "secondary" /\ one \in {"none", "primary"}
    <2> HIDE DEF one, two, red
    <2> QED OBVIOUS
  <1> HIDE DEF one, two, y, z, d, missed, a, b, red
  <1>7. (a <=> crossed) /\ (b <=> broken) /\ ~(a /\ b)
    BY <1>4, <1>5, <1>6 DEF red
  <1>8. broken => (one = "none" <=> ~me[t].in[1])
    BY <1>4, <1>5
  <1> HIDE DEF crossed, broken
  <1>9. \/ crossed /\ d = [context EXCEPT !.rxbuf[1][i] = y] /\ pc' = [pc EXCEPT ![t] = "use"]
        \/ /\ broken /\ pc' = [pc EXCEPT ![t] = "mark3"]
           /\ d = IF me[t].in[1] THEN [context EXCEPT !.txbuf[i] = z] ELSE context
        \/ /\ ~crossed /\ ~broken /\ d = context
           /\ pc' = [pc EXCEPT ![t] = IF me[t].in[1] THEN "use" ELSE "again"]
    <2>1. CASE crossed
      <3>1. a /\ ~b
        BY <1>7, <2>1
      <3>2. d = [context EXCEPT !.rxbuf[1][i] = y] /\ pc' = [pc EXCEPT ![t] = "use"]
        BY <1>1, <3>1 DEF d
      <3> QED BY <2>1, <3>2
    <2>2. CASE broken
      <3>1. b /\ ~a
        BY <1>7, <2>2
      <3>2. pc' = [pc EXCEPT ![t] = "mark3"]
            /\ d = IF one = "none" THEN context ELSE [context EXCEPT !.txbuf[i] = z]
        BY <1>1, <3>1 DEF d
      <3> QED BY <1>8, <2>2, <3>2
    <2>3. CASE ~crossed /\ ~broken
      <3>1. ~b /\ ~a
        BY <1>7, <2>3
      <3>2. pc' = [pc EXCEPT ![t] = IF me[t].in[1] THEN "use" ELSE "again"] /\ d = context
        BY <1>1, <3>1 DEF d
      <3> QED BY <2>3, <3>2
    <2> QED BY <2>1, <2>2, <2>3
  <1>10. /\ DOMAIN me' = MuxTasks /\ \A u \in MuxTasks : u # t => me'[u] = me[u]
         /\ TaskShape(me'[t]) /\ me'[t].idx = i /\ me'[t].missed = missed
         /\ SameCall(me'[t], me[t]) /\ SameIn(me'[t], me[t])
         /\ me'[t].overdue = me[t].overdue /\ me'[t].dropped = me[t].dropped
    BY <1>1, TypeIs DEF TaskShape, SameCall, SameIn
  <1> HIDE DEF i
  <1>11. /\ pc' \in [MuxTasks -> Labels]
         /\ \A u \in MuxTasks : u # t => pc'[u] = pc[u]
         /\ \/ crossed /\ pc'[t] = "use" /\ RxSet(context, d, 1, i, y)
            \/ /\ broken /\ pc'[t] = "mark3"
               /\ IF me[t].in[1] THEN TxSet(context, d, i, z) ELSE d = context
            \/ /\ ~crossed /\ ~broken /\ d = context
               /\ pc'[t] = IF me[t].in[1] THEN "use" ELSE "again"
    <2>l. "use" \in Labels /\ "mark3" \in Labels /\ "again" \in Labels
      BY DEF Labels
    <2>1. CASE crossed /\ d = [context EXCEPT !.rxbuf[1][i] = y] /\ pc' = [pc EXCEPT ![t] = "use"]
      <3>1. RxSet(context, d, 1, i, y)
        BY <2>1, <1>2, SetRx, Zenon
      <3>2. /\ pc' \in [MuxTasks -> Labels] /\ pc'[t] = "use"
            /\ \A u \in MuxTasks : u # t => pc'[u] = pc[u]
        BY <2>1, <2>l, StepsTo
      <3> QED BY <2>1, <3>1, <3>2
    <2>2. CASE /\ broken /\ pc' = [pc EXCEPT ![t] = "mark3"]
               /\ d = IF me[t].in[1] THEN [context EXCEPT !.txbuf[i] = z] ELSE context
      <3>1. CASE me[t].in[1]
        <4>0. d = [context EXCEPT !.txbuf[i] = z]
          BY <2>2, <3>1
        <4>1. TxSet(context, d, i, z)
          BY <4>0, <1>2, SetTx, Zenon
        <4>2. /\ pc' \in [MuxTasks -> Labels] /\ pc'[t] = "mark3"
              /\ \A u \in MuxTasks : u # t => pc'[u] = pc[u]
          BY <2>2, <2>l, StepsTo
        <4> QED BY <2>2, <3>1, <4>1, <4>2
      <3>2. CASE ~me[t].in[1]
        <4>2. /\ pc' \in [MuxTasks -> Labels] /\ pc'[t] = "mark3"
              /\ \A u \in MuxTasks : u # t => pc'[u] = pc[u]
          BY <2>2, <2>l, StepsTo
        <4> QED BY <2>2, <3>2, <4>2
      <3> QED BY <3>1, <3>2
    <2>3. CASE /\ ~crossed /\ ~broken /\ d = context
               /\ pc' = [pc EXCEPT ![t] = IF me[t].in[1] THEN "use" ELSE "again"]
      <3> DEFINE label == IF me[t].in[1] THEN "use" ELSE "again"
      <3>1. label \in Labels
        BY <2>l
      <3> HIDE DEF label
      <3>2. /\ pc' \in [MuxTasks -> Labels] /\ pc'[t] = label
            /\ \A u \in MuxTasks : u # t => pc'[u] = pc[u]
        BY <2>3, <3>1, StepsTo DEF label
      <3> QED BY <2>3, <3>2 DEF label
    <2> QED BY <1>9, <2>1, <2>2, <2>3
  <1>12. Beside(context, d, i) /\ d.lastidx \in Nat
    BY <1>2, <1>11, BesideSame DEF RxSet, TxSet
  <1>13. TaskStep(t)
    BY <1>1, <1>2, <1>10, <1>11, <1>12, TypeIs DEF TaskStep, d
  <1> QED BY <1>1, <1>10, <1>11, <1>13, Zenon DEF i, d, y, z, missed, crossed, broken, red

LEMMA RewaitOverDoes ==
  ASSUME MuxType, NEW t \in MuxTasks, MX!RewaitOver(t)
  PROVE  LET i == me[t].idx
         IN /\ TaskStep(t) /\ bus' = bus /\ pc[t] = "rewait" /\ context.setup.red /\ me'[t].idx = i
            /\ SameCall(me'[t], me[t]) /\ SameIn(me'[t], me[t])
            /\ me'[t].overdue = me[t].overdue /\ me'[t].dropped = me[t].dropped
            /\ me'[t].missed = MX!Missed(t)
            /\ IF me[t].in[2]
               THEN pc'[t] = "use" /\ RxSet(context, context', 1, i, context.rxbuf[2][i])
               ELSE context' = context /\ pc'[t] = IF me[t].in[1] THEN "use" ELSE "again"
  <1> DEFINE i == me[t].idx
             y == context.rxbuf[2][i]
             d == context'
             missed == MX!Missed(t)
             label == IF me[t].in[2] THEN "use" ELSE IF me[t].in[1] THEN "use" ELSE "again"
  <1>1. /\ pc[t] = "rewait" /\ bus' = bus /\ me' = [me EXCEPT ![t].missed = missed]
        /\ pc' = [pc EXCEPT ![t] = label]
        /\ d = IF me[t].in[2] THEN [context EXCEPT !.rxbuf[1][i] = y] ELSE context
    BY DEF MX!RewaitOver, MX!At, MX!Jump
  <1>2. /\ i \in IdxOf(context) /\ Shape(context) /\ 1 \in PortsOf(context)
        /\ context.lastidx \in Nat
    BY TypeIs
  <1>3. context.setup.red
    BY <1>1, RedIs DEF RedLabels
  <1>4. label \in Labels
    BY DEF Labels
  <1> HIDE DEF y, d, missed, label
  <1>5. /\ DOMAIN me' = MuxTasks /\ \A u \in MuxTasks : u # t => me'[u] = me[u]
        /\ TaskShape(me'[t]) /\ me'[t].idx = i /\ me'[t].missed = missed
        /\ SameCall(me'[t], me[t]) /\ SameIn(me'[t], me[t])
        /\ me'[t].overdue = me[t].overdue /\ me'[t].dropped = me[t].dropped
    BY <1>1, TypeIs DEF TaskShape, SameCall, SameIn
  <1>6. /\ pc' \in [MuxTasks -> Labels] /\ pc'[t] = label
        /\ \A u \in MuxTasks : u # t => pc'[u] = pc[u]
    BY <1>1, <1>4, StepsTo
  <1> HIDE DEF i
  <1>7. IF me[t].in[2] THEN RxSet(context, d, 1, i, y) ELSE d = context
    <2>1. CASE me[t].in[2]
      <3>0. d = [context EXCEPT !.rxbuf[1][i] = y]
        BY <1>1, <2>1
      <3>1. RxSet(context, d, 1, i, y)
        BY <3>0, <1>2, SetRx, Zenon
      <3> QED BY <2>1, <3>1
    <2>2. CASE ~me[t].in[2]
      BY <1>1, <2>2
    <2> QED BY <2>1, <2>2
  <1>8. Beside(context, d, i) /\ d.lastidx \in Nat
    BY <1>2, <1>7, BesideSame DEF RxSet
  <1>9. TaskStep(t)
    BY <1>1, <1>2, <1>5, <1>6, <1>8, TypeIs DEF TaskStep, d
  <1>10. IF me[t].in[2] THEN pc'[t] = "use"
         ELSE pc'[t] = IF me[t].in[1] THEN "use" ELSE "again"
    BY <1>6 DEF label
  <1> QED BY <1>1, <1>3, <1>5, <1>7, <1>9, <1>10, Zenon DEF i, d, y, missed

LEMMA TurnsDo ==
  ASSUME MuxType, NEW t \in MuxTasks, MX!PollAgain(t) \/ MX!Retry(t) \/ MX!GiveUp(t)
  PROVE  /\ TaskStep(t) /\ bus' = bus /\ me' = me /\ context' = context
         /\ \/ pc[t] = "timer" /\ pc'[t] = "poll1"
            \/ pc[t] = "again" /\ pc'[t] = "mark"
            \/ pc[t] = "again" /\ pc'[t] = "release"
  <1>1. PICK label \in Labels :
           /\ \/ pc[t] = "timer" /\ label = "poll1"
              \/ pc[t] = "again" /\ label \in {"mark", "release"}
           /\ pc' = [pc EXCEPT ![t] = label] /\ bus' = bus /\ me' = me /\ context' = context
    BY DEF MX!PollAgain, MX!Retry, MX!GiveUp, MX!At, MX!Jump, Labels
  <1>2. /\ pc' \in [MuxTasks -> Labels] /\ pc'[t] = label
        /\ \A u \in MuxTasks : u # t => pc'[u] = pc[u]
    BY <1>1, StepsTo
  <1>3. Beside(context, context', me[t].idx) /\ me[t].idx \in IdxOf(context)
    BY <1>1, TypeIs, BesideSame
  <1>4. TaskStep(t)
    BY <1>1, <1>2, <1>3, TypeIs DEF TaskStep
  <1> QED BY <1>1, <1>2, <1>4

LEMMA UseDoes ==
  ASSUME MuxType, NEW t \in MuxTasks, MX!UseAnswer(t)
  PROVE  LET got == context.rxbuf[1][me[t].idx]
         IN /\ TaskStep(t) /\ bus' = bus /\ context' = context
            /\ pc[t] = "use" /\ pc'[t] = "release" /\ me'[t].idx = me[t].idx
            /\ me'[t].req = me[t].req /\ me'[t].sends = me[t].sends
            /\ me'[t].answer = IF got.parts = {} THEN None ELSE got
            /\ SamePast(me'[t], me[t]) /\ SameIn(me'[t], me[t])
  <1> DEFINE got == context.rxbuf[1][me[t].idx]
             y == IF got.parts = {} THEN None ELSE got
  <1>1. /\ pc[t] = "use" /\ pc' = [pc EXCEPT ![t] = "release"] /\ bus' = bus /\ context' = context
        /\ me' = [me EXCEPT ![t].answer = y]
    BY DEF MX!UseAnswer, MX!At, MX!Jump
  <1> HIDE DEF y
  <1>2. /\ pc' \in [MuxTasks -> Labels] /\ pc'[t] = "release"
        /\ \A u \in MuxTasks : u # t => pc'[u] = pc[u]
    BY <1>1, StepsTo DEF Labels
  <1>3. /\ DOMAIN me' = MuxTasks /\ \A u \in MuxTasks : u # t => me'[u] = me[u]
        /\ TaskShape(me'[t]) /\ me'[t].idx = me[t].idx /\ me'[t].answer = y
        /\ me'[t].req = me[t].req /\ me'[t].sends = me[t].sends
        /\ SamePast(me'[t], me[t]) /\ SameIn(me'[t], me[t])
    BY <1>1, TypeIs DEF TaskShape, SamePast, SameIn
  <1>4. Beside(context, context', me[t].idx) /\ me[t].idx \in IdxOf(context)
    BY <1>1, TypeIs, BesideSame
  <1>5. TaskStep(t)
    BY <1>1, <1>2, <1>3, <1>4, TypeIs DEF TaskStep
  <1> QED BY <1>1, <1>2, <1>3, <1>5 DEF y

LEMMA SetbufstatDoes ==
  ASSUME MuxType, NEW t \in MuxTasks, MX!ecx_setbufstat(t)
  PROVE  LET i == me[t].idx
         IN /\ StatCleared(context, context', i) /\ bus' = bus
            /\ pc[t] = "release" /\ pc'[t] = "idle"
            /\ pc' \in [MuxTasks -> Labels] /\ DOMAIN me' = MuxTasks
            /\ \A u \in MuxTasks : u # t => pc'[u] = pc[u] /\ me'[u] = me[u]
            /\ me'[t] = [MX!NoTask EXCEPT !.req = me[t].req]
  <1> DEFINE i == me[t].idx
             y == [MX!NoTask EXCEPT !.req = me[t].req]
             d == context'
  <1>1. /\ pc[t] = "release" /\ pc' = [pc EXCEPT ![t] = "idle"] /\ bus' = bus
        /\ me' = [me EXCEPT ![t] = y]
    BY DEF MX!ecx_setbufstat, MX!At, MX!Jump
  <1>2. d = [context EXCEPT !.stat = [p \in DOMAIN @ |-> [@[p] EXCEPT ![i] = "EMPTY"]]]
    BY DEF MX!ecx_setbufstat
  <1> HIDE DEF y, d
  <1>3. i \in IdxOf(context) /\ Shape(context)
    BY TypeIs
  <1>4. StatCleared(context, d, i)
    <2> HIDE DEF i
    <2> QED BY <1>2, <1>3, ClearStat, Zenon
  <1>5. /\ pc' \in [MuxTasks -> Labels] /\ pc'[t] = "idle"
        /\ \A u \in MuxTasks : u # t => pc'[u] = pc[u]
    BY <1>1, StepsTo DEF Labels
  <1>6. /\ DOMAIN me' = MuxTasks /\ \A u \in MuxTasks : u # t => me'[u] = me[u]
        /\ me'[t] = y
    BY <1>1, TypeIs
  <1> QED BY <1>1, <1>4, <1>5, <1>6, Zenon DEF i, y, d

-------------------------------------------------------------------------------
(* What the network task, the line and closing do *)

\* What a task knows is the same, but for the history of frames with index i.
SameTask(m, n, i) ==
    /\ TaskShape(m) /\ m.idx = n.idx /\ m.cnt = n.cnt /\ SameCall(m, n) /\ SameIn(m, n)
    /\ m.overdue = n.overdue
    /\ (n.missed => m.missed) /\ (n.dropped => m.dropped)
    /\ n.idx # i => (m.missed => n.missed) /\ (m.dropped => n.dropped)

\* A frame with index i is moved, and no task.
NetStep(i) ==
    /\ i \in IdxOf(context) /\ Beside(context, context', i)
    /\ context'.stat = context.stat /\ SameFrames /\ context'.txbuf = context.txbuf
    /\ context'.lastidx = context.lastidx /\ context'.sem = context.sem
    /\ pc' = pc /\ DOMAIN me' = MuxTasks
    /\ \A t \in MuxTasks : SameTask(me'[t], me[t], i)
    /\ DOMAIN bus' = DOMAIN bus /\ bus'.cut = bus.cut /\ bus'.fails = bus.fails
    /\ bus'.net \subseteq bus.net
    /\ \A f : f.idx # i => (f \in bus'.net <=> f \in bus.net)
    /\ bus.cb = None \/ bus.cb.frame.idx = i \/ bus'.cb = bus.cb
    /\ bus'.cb = None \/ bus'.cb.frame.idx = i \/ bus'.cb = bus.cb

LEMMA SameTaskSame ==
  ASSUME MuxType, me' = me, NEW i
  PROVE  DOMAIN me' = MuxTasks /\ \A t \in MuxTasks : SameTask(me'[t], me[t], i)
  BY TypeIs DEF SameTask, SameCall, SameIn

LEMMA FramesAre ==
  ASSUME MuxType
  PROVE  /\ \A f \in bus.net : f \in Frames /\ f.idx \in IdxOf(context) /\ f.port \in PortsOf(context)
         /\ bus.cb # None =>
               /\ bus.cb = [frame |-> bus.cb.frame, full |-> bus.cb.full]
               /\ bus.cb.frame \in Frames /\ bus.cb.full \in BOOLEAN
               /\ bus.cb.frame.idx \in IdxOf(context) /\ bus.cb.frame.port \in PortsOf(context)
  BY DEF MuxType, BusOk

LEMMA CallbackDoes ==
  ASSUME MuxType, MX!mux_rx_callback
  PROVE  \E f \in bus.net :
            LET expected == context.stat[f.port][f.idx] = "TX"
            IN /\ NetStep(f.idx) /\ context' = context /\ bus.cb = None
               /\ bus'.net = bus.net \ {f}
               /\ bus'.cb = IF expected THEN [frame |-> f, full |-> FALSE] ELSE None
               /\ \A t \in MuxTasks :
                     /\ me'[t].missed = me[t].missed
                     /\ me'[t].dropped <=> me[t].dropped \/ (~expected /\ MX!AwaitedBy(f, t))
  <1>1. PICK f \in bus.net :
           LET expected == context.stat[f.port][f.idx] = "TX"
           IN /\ bus' = [bus EXCEPT !.net = @ \ {f},
                                    !.cb = IF expected THEN [frame |-> f, full |-> FALSE] ELSE None]
              /\ me' = [t \in MX!Tasks |->
                          [me[t] EXCEPT !.dropped = @ \/ (~expected /\ MX!AwaitedBy(f, t))]]
    BY DEF MX!mux_rx_callback
  <1> DEFINE expected == context.stat[f.port][f.idx] = "TX"
             cb == IF expected THEN [frame |-> f, full |-> FALSE] ELSE None
             o(t) == me[t].dropped \/ (~expected /\ MX!AwaitedBy(f, t))
  <1>2. /\ bus' = [bus EXCEPT !.net = @ \ {f}, !.cb = cb]
        /\ me' = [t \in MuxTasks |-> [me[t] EXCEPT !.dropped = o(t)]]
    BY <1>1, TypeIs
  <1>3. bus.cb = None /\ pc' = pc /\ context' = context
    BY DEF MX!mux_rx_callback
  <1>4. f.idx \in IdxOf(context) /\ f.port \in PortsOf(context)
    BY FramesAre
  <1>5. cb = None \/ cb.frame.idx = f.idx
    OBVIOUS
  <1>6. \A t \in MuxTasks :
           me[t].idx # f.idx \/ me[t].dropped => (o(t) <=> me[t].dropped)
    BY DEF MX!AwaitedBy
  <1>7. \A t \in MuxTasks : o(t) <=> me[t].dropped \/ (~expected /\ MX!AwaitedBy(f, t))
    OBVIOUS
  <1> HIDE DEF cb, o
  <1>8. /\ DOMAIN bus' = DOMAIN bus /\ bus'.cut = bus.cut /\ bus'.fails = bus.fails
        /\ bus'.net = bus.net \ {f} /\ bus'.cb = cb
    BY <1>2, TypeIs
  <1>9. /\ DOMAIN me' = MuxTasks
        /\ \A t \in MuxTasks :
              /\ TaskShape(me'[t]) /\ me'[t].idx = me[t].idx /\ me'[t].cnt = me[t].cnt
              /\ SameCall(me'[t], me[t]) /\ SameIn(me'[t], me[t])
              /\ me'[t].overdue = me[t].overdue /\ me'[t].missed = me[t].missed
              /\ me'[t].dropped = o(t)
    BY <1>2, TypeIs DEF TaskShape, SameCall, SameIn
  <1>10. \A t \in MuxTasks : SameTask(me'[t], me[t], f.idx)
    <2> TAKE t \in MuxTasks
    <2>0. o(t) <=> me[t].dropped \/ (~expected /\ MX!AwaitedBy(f, t))
      BY <1>7
    <2>1. /\ TaskShape(me'[t]) /\ me'[t].idx = me[t].idx /\ me'[t].cnt = me[t].cnt
          /\ SameCall(me'[t], me[t]) /\ SameIn(me'[t], me[t])
          /\ me'[t].overdue = me[t].overdue /\ me'[t].missed = me[t].missed
          /\ me'[t].dropped = o(t)
      BY <1>9
    <2>2. me[t].idx # f.idx \/ me[t].dropped => (o(t) <=> me[t].dropped)
      BY <1>6
    <2> QED BY <2>0, <2>1, <2>2, Zenon DEF SameTask
  <1>11. Beside(context, context', f.idx)
    BY <1>3, TypeIs, BesideSame
  <1>12. \A g : g.idx # f.idx => (g \in bus'.net <=> g \in bus.net)
    BY <1>8
  <1>13. NetStep(f.idx)
    BY <1>3, <1>4, <1>5, <1>8, <1>9, <1>10, <1>11, <1>12 DEF NetStep, SameFrames
  <1>14. \A t \in MuxTasks : /\ me'[t].missed = me[t].missed
                             /\ me'[t].dropped <=> me[t].dropped \/ (~expected /\ MX!AwaitedBy(f, t))
    BY <1>7, <1>9, Zenon
  <1> QED BY <1>3, <1>8, <1>13, <1>14, Zenon DEF cb

LEMMA FullSet ==
  ASSUME NEW b, NEW g, NEW x, b = [frame |-> g, full |-> x], NEW y
  PROVE  [b EXCEPT !.full = y] = [frame |-> g, full |-> y]
  OBVIOUS

LEMMA PostedDoes ==
  ASSUME NoneAssumption, MuxType, MX!Posted
  PROVE  LET g == bus.cb.frame
             queue == context.queue[g.port][g.idx]
         IN /\ NetStep(g.idx) /\ bus.cb # None /\ me' = me /\ bus'.net = bus.net
            /\ g \in Frames /\ g.port \in PortsOf(context)
            /\ IF queue = None
               THEN /\ QueueSet(context, context', g.port, g.idx, g, context.owned + 1)
                    /\ bus'.cb = None
               ELSE /\ context' = context
                    /\ bus'.cb = IF queue = Deleted THEN None ELSE [frame |-> g, full |-> TRUE]
  <1> DEFINE g == bus.cb.frame
             p == g.port
             i == g.idx
             queue == context.queue[p][i]
             d == context'
             n == context.owned + 1
             cb == IF queue \in {None, Deleted} THEN None ELSE [bus.cb EXCEPT !.full = TRUE]
  <1>1. /\ bus.cb # None /\ pc' = pc /\ me' = me /\ bus' = [bus EXCEPT !.cb = cb]
        /\ IF queue = None THEN d = [context EXCEPT !.queue[p][i] = g, !.owned = n] ELSE d = context
    BY DEF MX!Posted, MX!Queue
  <1>2. /\ bus.cb = [frame |-> g, full |-> bus.cb.full] /\ g \in Frames
        /\ p \in PortsOf(context) /\ i \in IdxOf(context)
    BY <1>1, FramesAre
  <1>3. cb = IF queue \in {None, Deleted} THEN None ELSE [frame |-> g, full |-> TRUE]
    <2>1. [bus.cb EXCEPT !.full = TRUE] = [frame |-> g, full |-> TRUE]
      BY <1>2, FullSet
    <2> QED BY <2>1
  <1> HIDE DEF cb, d, n
  <1>4. /\ DOMAIN bus' = DOMAIN bus /\ bus'.cut = bus.cut /\ bus'.fails = bus.fails
        /\ bus'.net = bus.net /\ bus'.cb = cb
    BY <1>1, TypeIs
  <1>5. cb = None \/ cb.frame.idx = i
    BY <1>3
  <1>s. Shape(context)
    BY TypeIs
  <1>6. IF queue = None THEN QueueSet(context, d, p, i, g, n) ELSE d = context
    <2>1. CASE queue = None
      <3>0. d = [context EXCEPT !.queue[p][i] = g, !.owned = n]
        BY <1>1, <2>1
      <3> HIDE DEF p, i, g
      <3>1. QueueSet(context, d, p, i, g, n)
        BY <3>0, <1>2, <1>s, SetQueue, Zenon
      <3> QED BY <2>1, <3>1
    <2>2. CASE queue # None
      BY <1>1, <2>2
    <2> QED BY <2>1, <2>2
  <1>7. /\ Beside(context, d, i) /\ d.stat = context.stat /\ d.rxbuf = context.rxbuf
        /\ d.rxsa = context.rxsa /\ d.txbuf = context.txbuf
        /\ d.lastidx = context.lastidx /\ d.sem = context.sem
    BY <1>6, <1>s, BesideSame DEF QueueSet
  <1>8. DOMAIN me' = MuxTasks /\ \A t \in MuxTasks : SameTask(me'[t], me[t], i)
    BY <1>1, SameTaskSame
  <1>9. NetStep(i)
    BY <1>1, <1>2, <1>4, <1>5, <1>7, <1>8 DEF NetStep, SameFrames, d
  <1>10. bus'.cb = IF queue \in {None, Deleted} THEN None ELSE [frame |-> g, full |-> TRUE]
    BY <1>3, <1>4
  <1> QED BY <1>1, <1>2, <1>4, <1>6, <1>9, <1>10, NoneAssumption DEF d, n

LEMMA OverrunDoes ==
  ASSUME NoneAssumption, MuxType, MX!Overrun
  PROVE  LET g == bus.cb.frame
             queue == context.queue[g.port][g.idx]
         IN /\ NetStep(g.idx) /\ bus.cb # None /\ me' = me /\ bus'.net = bus.net
            /\ g \in Frames /\ g.port \in PortsOf(context)
            /\ bus'.cb = [frame |-> g, full |-> FALSE]
            /\ IF queue \in {None, Deleted} THEN context' = context
               ELSE QueueSet(context, context', g.port, g.idx, None, context.owned - 1)
  <1> DEFINE g == bus.cb.frame
             p == g.port
             i == g.idx
             queue == context.queue[p][i]
             d == context'
             n == context.owned - 1
  <1>1. /\ bus.cb # None /\ pc' = pc /\ me' = me /\ bus' = [bus EXCEPT !.cb.full = FALSE]
        /\ IF queue \in {None, Deleted} THEN d = context
           ELSE d = [context EXCEPT !.queue[p][i] = None, !.owned = n]
    BY DEF MX!Overrun, MX!Queue
  <1>2. /\ bus.cb = [frame |-> g, full |-> bus.cb.full] /\ g \in Frames
        /\ p \in PortsOf(context) /\ i \in IdxOf(context)
    BY <1>1, FramesAre
  <1> HIDE DEF d, n
  <1>4. /\ DOMAIN bus' = DOMAIN bus /\ bus'.cut = bus.cut /\ bus'.fails = bus.fails
        /\ bus'.net = bus.net /\ bus'.cb = [frame |-> g, full |-> FALSE]
    <2>1. [bus.cb EXCEPT !.full = FALSE] = [frame |-> g, full |-> FALSE]
      BY <1>2, FullSet
    <2>2. bus' = [bus EXCEPT !.cb = [frame |-> g, full |-> FALSE]]
      BY <1>1, <2>1
    <2> QED BY <2>2, TypeIs
  <1>s. Shape(context)
    BY TypeIs
  <1>6. IF queue \in {None, Deleted} THEN d = context ELSE QueueSet(context, d, p, i, None, n)
    <2>1. CASE queue \notin {None, Deleted}
      <3>0. d = [context EXCEPT !.queue[p][i] = None, !.owned = n]
        BY <1>1, <2>1
      <3> HIDE DEF p, i, g
      <3>1. QueueSet(context, d, p, i, None, n)
        BY <3>0, <1>2, <1>s, SetQueue, Zenon
      <3> QED BY <2>1, <3>1
    <2>2. CASE queue \in {None, Deleted}
      BY <1>1, <2>2
    <2> QED BY <2>1, <2>2
  <1>7. /\ Beside(context, d, i) /\ d.stat = context.stat /\ d.rxbuf = context.rxbuf
        /\ d.rxsa = context.rxsa /\ d.txbuf = context.txbuf
        /\ d.lastidx = context.lastidx /\ d.sem = context.sem
    BY <1>6, <1>s, BesideSame DEF QueueSet
  <1>8. DOMAIN me' = MuxTasks /\ \A t \in MuxTasks : SameTask(me'[t], me[t], i)
    BY <1>1, SameTaskSame
  <1>9. NetStep(i)
    BY <1>1, <1>2, <1>4, <1>7, <1>8 DEF NetStep, SameFrames, d
  <1> QED BY <1>1, <1>2, <1>4, <1>6, <1>9 DEF d, n

LEMMA LoseDoes ==
  ASSUME MuxType, MX!LoseFrame
  PROVE  \E f \in bus.net :
            /\ NetStep(f.idx) /\ context' = context
            /\ bus'.net = bus.net \ {f} /\ bus'.cb = bus.cb
            /\ \A t \in MuxTasks : /\ me'[t].dropped = me[t].dropped
                                   /\ me'[t].missed <=> me[t].missed \/ me[t].idx = f.idx
  <1>1. PICK f \in bus.net :
           /\ bus' = [bus EXCEPT !.net = @ \ {f}]
           /\ me' = [t \in MX!Tasks |-> [me[t] EXCEPT !.missed = @ \/ me[t].idx = f.idx]]
    BY DEF MX!LoseFrame
  <1> DEFINE o(t) == me[t].missed \/ me[t].idx = f.idx
  <1>2. me' = [t \in MuxTasks |-> [me[t] EXCEPT !.missed = o(t)]]
    BY <1>1, TypeIs
  <1>3. pc' = pc /\ context' = context
    BY DEF MX!LoseFrame
  <1>4. f.idx \in IdxOf(context)
    BY FramesAre
  <1>7. \A t \in MuxTasks : o(t) <=> me[t].missed \/ me[t].idx = f.idx
    OBVIOUS
  <1> HIDE DEF o
  <1>8. /\ DOMAIN bus' = DOMAIN bus /\ bus'.cut = bus.cut /\ bus'.fails = bus.fails
        /\ bus'.net = bus.net \ {f} /\ bus'.cb = bus.cb
    BY <1>1, TypeIs
  <1>9. /\ DOMAIN me' = MuxTasks
        /\ \A t \in MuxTasks :
              /\ TaskShape(me'[t]) /\ me'[t].idx = me[t].idx /\ me'[t].cnt = me[t].cnt
              /\ SameCall(me'[t], me[t]) /\ SameIn(me'[t], me[t])
              /\ me'[t].overdue = me[t].overdue /\ me'[t].dropped = me[t].dropped
              /\ me'[t].missed = o(t)
    BY <1>2, TypeIs DEF TaskShape, SameCall, SameIn
  <1>10. \A t \in MuxTasks : SameTask(me'[t], me[t], f.idx)
    <2> TAKE t \in MuxTasks
    <2>0. o(t) <=> me[t].missed \/ me[t].idx = f.idx
      BY <1>7
    <2>1. /\ TaskShape(me'[t]) /\ me'[t].idx = me[t].idx /\ me'[t].cnt = me[t].cnt
          /\ SameCall(me'[t], me[t]) /\ SameIn(me'[t], me[t])
          /\ me'[t].overdue = me[t].overdue /\ me'[t].dropped = me[t].dropped
          /\ me'[t].missed = o(t)
      BY <1>9
    <2> QED BY <2>0, <2>1, Zenon DEF SameTask
  <1>11. Beside(context, context', f.idx)
    BY <1>3, TypeIs, BesideSame
  <1>12. \A g : g.idx # f.idx => (g \in bus'.net <=> g \in bus.net)
    BY <1>8
  <1>13. NetStep(f.idx)
    BY <1>3, <1>4, <1>8, <1>9, <1>10, <1>11, <1>12 DEF NetStep, SameFrames
  <1>14. \A t \in MuxTasks : /\ me'[t].dropped = me[t].dropped
                             /\ me'[t].missed <=> me[t].missed \/ me[t].idx = f.idx
    BY <1>7, <1>9, Zenon
  <1> QED BY <1>3, <1>8, <1>13, <1>14, Zenon

\* Closing empties the first queue that is left, and deletes it.
LEMMA CloseDoes ==
  ASSUME MuxType, CloseInv, MX!CloseDrain \/ MX!CloseDelete
  PROVE  \E p \in PortsOf(context), i \in IdxOf(context) :
            LET queue == context.queue[p][i]
            IN /\ <<p, i>> \in context.toClose /\ me' = me /\ bus' = bus
               /\ \/ /\ \A t \in MuxTasks : /\ pc[t] = "idle" /\ me[t].req = context.setup.reqs
                                            /\ pc'[t] = "closing"
                     /\ IF queue = None THEN context' = context
                        ELSE QueueSet(context, context', p, i, None, context.owned - 1)
                  \/ /\ \A t \in MuxTasks : pc[t] = "closing" /\ pc'[t] = "idle"
                     /\ QueueDeleted(context, context', p, i,
                                     context.owned - IF queue = None THEN 0 ELSE 1,
                                     context.toClose \ {<<p, i>>})
               /\ pc' \in [MuxTasks -> {"idle", "closing"}]
  <1>s. Shape(context)
    BY TypeIs
  <1>1. CASE MX!CloseDrain
    <2>1. PICK q \in context.toClose :
             context' = IF context.queue[q[1]][q[2]] = None THEN context
                        ELSE [context EXCEPT !.queue[q[1]][q[2]] = None, !.owned = @ - 1]
      BY <1>1 DEF MX!CloseDrain
    <2>2. q \in PortsOf(context) \X IdxOf(context)
      BY DEF CloseInv
    <2> DEFINE p == q[1]
               i == q[2]
               d == context'
               n == context.owned - 1
               queue == context.queue[p][i]
    <2>3. p \in PortsOf(context) /\ i \in IdxOf(context) /\ <<p, i>> = q
      BY <2>2
    <2>4. d = IF queue = None THEN context ELSE [context EXCEPT !.queue[p][i] = None, !.owned = n]
      BY <2>1
    <2>5. /\ \A t \in MuxTasks : /\ pc[t] = "idle" /\ me[t].req = context.setup.reqs
                                 /\ pc'[t] = "closing"
          /\ me' = me /\ bus' = bus /\ pc' \in [MuxTasks -> {"idle", "closing"}]
      BY <1>1, TypeIs DEF MX!CloseDrain, MX!AllIdle
    <2> HIDE DEF p, i, d, n
    <2>6. IF queue = None THEN d = context ELSE QueueSet(context, d, p, i, None, n)
      <3>1. CASE queue # None
        <4>1. d = [context EXCEPT !.queue[p][i] = None, !.owned = n]
          BY <2>4, <3>1
        <4>2. QueueSet(context, d, p, i, None, n)
          BY <4>1, <2>3, <1>s, SetQueue, Zenon
        <4> QED BY <3>1, <4>2
      <3>2. CASE queue = None
        BY <2>4, <3>2
      <3> QED BY <3>1, <3>2
    <2> QED BY <2>3, <2>5, <2>6, Zenon DEF d, n
  <1>2. CASE MX!CloseDelete
    <2>1. PICK q \in context.toClose :
             context' = [context EXCEPT
                           !.queue[q[1]][q[2]] = Deleted, !.toClose = @ \ {q},
                           !.owned = @ - IF context.queue[q[1]][q[2]] = None THEN 0 ELSE 1]
      BY <1>2 DEF MX!CloseDelete
    <2>2. q \in PortsOf(context) \X IdxOf(context)
      BY DEF CloseInv
    <2> DEFINE p == q[1]
               i == q[2]
               d == context'
               queue == context.queue[p][i]
               n == context.owned - IF queue = None THEN 0 ELSE 1
               left == context.toClose \ {q}
    <2>3. p \in PortsOf(context) /\ i \in IdxOf(context) /\ <<p, i>> = q
      BY <2>2
    <2>4. d = [context EXCEPT !.queue[p][i] = Deleted, !.toClose = left, !.owned = n]
      BY <2>1
    <2>5. /\ \A t \in MuxTasks : pc[t] = "closing" /\ pc'[t] = "idle"
          /\ me' = me /\ bus' = bus /\ pc' \in [MuxTasks -> {"idle", "closing"}]
      BY <1>2, TypeIs DEF MX!CloseDelete
    <2> HIDE DEF p, i, d, n, left
    <2>6. QueueDeleted(context, d, p, i, n, left)
      BY <2>3, <2>4, <1>s, DeleteQueue, Zenon
    <2> QED BY <2>3, <2>5, <2>6, Zenon DEF d, n, left
  <1> QED BY <1>1, <1>2

-------------------------------------------------------------------------------
(* Every step keeps the types *)

LEMMA SlotsAre ==
  ASSUME MuxType
  PROVE  /\ \A p \in PortsOf(context), i \in IdxOf(context) : SlotOk(context, p, i)
         /\ BusOk(context, bus)
  BY DEF MuxType, ContextOk

LEMMA Before ==
  ASSUME MuxType, NEW t \in MuxTasks
  PROVE  /\ \A p \in PortsOf(context), i \in IdxOf(context) : SlotOk(context, p, i)
         /\ TaskOk(context, me[t], pc[t]) /\ BusOk(context, bus)
  BY DEF MuxType, ContextOk, MuxTasks

\* The frames of index i are in order after a step.
BusKept(i) ==
    /\ DOMAIN bus' = DOMAIN bus /\ bus'.fails \in Nat
    /\ \A f \in bus'.net : f.idx = i /\ f \notin bus.net => f \in Frames /\ f.port \in PortsOf(context)

LEMMA TypeStep ==
  ASSUME MuxType, NEW t \in MuxTasks, TaskStep(t), BusKept(me'[t].idx),
         \A p \in PortsOf(context) :
            /\ SlotOk(context', p, me'[t].idx)
            /\ context.rxsa[p][me'[t].idx] \in Ways => context'.rxsa[p][me'[t].idx] \in Ways,
         context.txbuf[me'[t].idx] \in Contents => context'.txbuf[me'[t].idx] \in Contents,
         pc'[t] \in RedLabels => context.setup.red,
         pc'[t] \notin {"idle", "scan", "closing"} => context'.txbuf[me'[t].idx] \in Contents,
         \A p \in PortsOf(context) : me'[t].in[p] => context'.rxsa[p][me'[t].idx] \in Ways,
         pc'[t] \in {"idle", "scan", "closing"} => me'[t].sends = 0 /\ ~me'[t].in[1] /\ ~me'[t].in[2],
         pc'[t] # "release" => me'[t].answer = None
  PROVE  MuxType'
  <1> DEFINE i == me'[t].idx
             d == context'
  <1>1. /\ Beside(context, d, i) /\ i \in IdxOf(context) /\ d.lastidx \in Nat
        /\ pc' \in [MuxTasks -> Labels] /\ DOMAIN me' = MuxTasks /\ TaskShape(me'[t])
        /\ \A u \in MuxTasks : u # t => pc'[u] = pc[u] /\ me'[u] = me[u]
        /\ bus'.cut = bus.cut /\ bus'.cb = bus.cb
        /\ \A f : f.idx # i => (f \in bus'.net <=> f \in bus.net)
    BY DEF TaskStep
  <1>2. d.setup = context.setup /\ Shape(d) /\ context.setup \in Setups
    BY <1>1, TypeIs DEF Beside
  <1>3. PortsOf(d) = PortsOf(context) /\ IdxOf(d) = IdxOf(context)
    BY <1>2 DEF PortsOf, IdxOf
  <1>4. \A p \in PortsOf(d), k \in IdxOf(d) : SlotOk(d, p, k)
    <2> TAKE p \in PortsOf(d), k \in IdxOf(d)
    <2>1. SlotOk(context, p, k)
      BY <1>3, Before
    <2>2. CASE k = i
      BY <1>3, <2>2
    <2>3. CASE k # i
      <3>1. /\ d.queue[p][k] = context.queue[p][k] /\ d.rxsa[p][k] = context.rxsa[p][k]
            /\ d.rxbuf[p][k] = context.rxbuf[p][k]
        BY <1>1, <1>3, <2>3 DEF Beside
      <3> QED BY <2>1, <3>1 DEF SlotOk
    <2> QED BY <2>2, <2>3
  <1>5. ContextOk(d)
    BY <1>1, <1>2, <1>4 DEF ContextOk
  <1>6. BusOk(d, bus')
    <2>1. BusOk(context, bus)
      BY Before
    <2>2. \A f \in bus'.net : f \in Frames /\ f.idx \in IdxOf(d) /\ f.port \in PortsOf(d)
      BY <1>1, <1>3, <2>1 DEF BusOk, BusKept
    <2> QED BY <1>1, <1>3, <2>1, <2>2 DEF BusOk, BusKept
  <1>7. \A u \in MuxTasks : TaskOk(d, me'[u], pc'[u])
    <2> TAKE u \in MuxTasks
    <2>1. CASE u = t
      BY <1>1, <1>2, <1>3, <2>1 DEF TaskOk
    <2>2. CASE u # t
      <3>0. TaskOk(context, me[u], pc[u])
        BY Before
      <3>1. me'[u] = me[u] /\ pc'[u] = pc[u] /\ me[u].idx \in IdxOf(context)
        BY <1>1, <2>2, TypeIs
      <3>2. context.txbuf[me[u].idx] \in Contents => d.txbuf[me[u].idx] \in Contents
        BY <1>1, <3>1, TypeIs DEF Beside
      <3>3. \A p \in PortsOf(context) :
               context.rxsa[p][me[u].idx] \in Ways => d.rxsa[p][me[u].idx] \in Ways
        BY <1>1, <3>1 DEF Beside
      <3> QED BY <3>0, <3>1, <3>2, <3>3, <1>2, <1>3 DEF TaskOk
    <2> QED BY <2>1, <2>2
  <1>8. MuxTasks = d.setup.tasks /\ MuxTasks = context'.setup.tasks
    BY <1>2 DEF MuxTasks
  <1> QED BY <1>1, <1>5, <1>6, <1>7, <1>8 DEF MuxType

LEMMA SameBus ==
  ASSUME MuxType, bus' = bus, NEW i
  PROVE  BusKept(i)
  BY TypeIs DEF BusKept

LEMMA TypeGetIndex ==
  ASSUME SetupsAssumption, MuxType, NEW t \in MuxTasks, MX!ecx_getindex(t)
  PROVE  MuxType'
  <1> DEFINE i == me'[t].idx
  <1>1. /\ TaskStep(t) /\ bus' = bus /\ pc[t] = "idle" /\ pc'[t] = "scan" /\ SameQueues /\ SameFrames
        /\ context'.txbuf = context.txbuf /\ me'[t].sends = me[t].sends
        /\ me'[t].answer = me[t].answer /\ SameIn(me'[t], me[t])
    BY GetIndexDoes
  <1>2. TaskOk(context, me[t], pc[t]) /\ i \in IdxOf(context) /\ PortsOf(context) \subseteq {1, 2}
    BY <1>1, Before, TypeIs DEF TaskStep
  <1>3. \A p \in PortsOf(context) :
            /\ SlotOk(context', p, i)
            /\ context.rxsa[p][i] \in Ways => context'.rxsa[p][i] \in Ways
    <2> TAKE p \in PortsOf(context)
    <2>1. SlotOk(context, p, i)
      BY <1>2, Before
    <2> QED BY <1>1, <2>1 DEF SlotOk, SameQueues, SameFrames
  <1>4. me'[t].sends = 0 /\ ~me'[t].in[1] /\ ~me'[t].in[2] /\ me'[t].answer = None
    BY <1>1, <1>2 DEF TaskOk, SameIn
  <1>5. BusKept(i)
    BY <1>1, SameBus
  <1> HIDE DEF i
  <1> QED BY <1>1, <1>2, <1>3, <1>4, <1>5, TypeStep DEF i, RedLabels

LEMMA TypeScanNext ==
  ASSUME SetupsAssumption, MuxType, NEW t \in MuxTasks, MX!ScanNext(t)
  PROVE  MuxType'
  <1> DEFINE i == me'[t].idx
  <1>1. /\ TaskStep(t) /\ bus' = bus /\ pc[t] = "scan" /\ pc'[t] = "scan" /\ context' = context
        /\ SameCall(me'[t], me[t]) /\ SameIn(me'[t], me[t])
    BY ScanNextDoes
  <1>2. TaskOk(context, me[t], pc[t]) /\ i \in IdxOf(context) /\ PortsOf(context) \subseteq {1, 2}
    BY <1>1, Before, TypeIs DEF TaskStep
  <1>3. \A p \in PortsOf(context) :
            /\ SlotOk(context', p, i)
            /\ context.rxsa[p][i] \in Ways => context'.rxsa[p][i] \in Ways
    BY <1>1, <1>2, Before
  <1>4. me'[t].sends = 0 /\ ~me'[t].in[1] /\ ~me'[t].in[2] /\ me'[t].answer = None
    BY <1>1, <1>2 DEF TaskOk, SameIn, SameCall
  <1>5. BusKept(i)
    BY <1>1, SameBus
  <1> HIDE DEF i
  <1> QED BY <1>1, <1>2, <1>3, <1>4, <1>5, TypeStep DEF i, RedLabels

LEMMA TypeFound ==
  ASSUME SetupsAssumption, MuxType, NEW t \in MuxTasks, MX!Found(t)
  PROVE  MuxType'
  <1> DEFINE i == me[t].idx
  <1>1. /\ TaskStep(t) /\ bus' = bus /\ pc[t] = "scan" /\ pc'[t] = "mark" /\ SameQueues /\ SameFrames
        /\ context'.txbuf[i] = [req |-> MX!Req(t), parts |-> {}] /\ me'[t].idx = i
        /\ SameCall(me'[t], me[t]) /\ SameIn(me'[t], me[t])
    BY FoundDoes
  <1>2. TaskOk(context, me[t], pc[t]) /\ i \in IdxOf(context) /\ PortsOf(context) \subseteq {1, 2}
    BY <1>1, Before, TypeIs DEF TaskStep
  <1>3. \A p \in PortsOf(context) :
            /\ SlotOk(context', p, i)
            /\ context.rxsa[p][i] \in Ways => context'.rxsa[p][i] \in Ways
    <2> TAKE p \in PortsOf(context)
    <2>1. SlotOk(context, p, i)
      BY <1>2, Before
    <2> QED BY <1>1, <2>1 DEF SlotOk, SameQueues, SameFrames
  <1>4. me'[t].sends = 0 /\ ~me'[t].in[1] /\ ~me'[t].in[2] /\ me'[t].answer = None
    BY <1>1, <1>2 DEF TaskOk, SameIn, SameCall
  <1>5. BusKept(i)
    BY <1>1, SameBus
  <1>6. context'.txbuf[i] \in Contents
    <2>1. context.setup \in Setups /\ t \in context.setup.tasks
      BY TypeIs DEF MuxTasks
    <2>2. me[t].req \in Nat
      BY <1>2 DEF TaskOk, TaskShape
    <2>3. MX!Req(t) \in {None} \cup ((UNION {s.tasks : s \in Setups}) \X Nat)
      BY <2>1, <2>2 DEF MX!Req
    <2> QED BY <1>1, <2>3 DEF Contents
  <1> HIDE DEF i
  <1> QED BY <1>1, <1>2, <1>3, <1>4, <1>5, <1>6, TypeStep DEF RedLabels

LEMMA TypeMark ==
  ASSUME MuxType, NEW t \in MuxTasks, MX!MarkPrimary(t) \/ MX!MarkSecondary(t) \/ MX!MarkResend(t)
  PROVE  MuxType'
  <1> DEFINE i == me[t].idx
  <1>1. /\ TaskStep(t) /\ bus' = bus /\ me'[t].idx = i
        /\ SameCall(me'[t], me[t]) /\ SameIn(me'[t], me[t]) /\ SameFrames /\ SameQueues
        /\ context'.txbuf = context.txbuf
        /\ pc[t] \in {"mark", "mark2", "mark3"} /\ pc'[t] \in {"send", "send2", "resend"}
        /\ pc'[t] \in RedLabels => context.setup.red
    BY MarkPrimaryDoes, MarkAgainDoes DEF SameCall, SameIn, StatSet, SameFrames, SameQueues, RedLabels
  <1>2. TaskOk(context, me[t], pc[t]) /\ i \in IdxOf(context) /\ PortsOf(context) \subseteq {1, 2}
    BY <1>1, Before, TypeIs DEF TaskStep
  <1>3. \A p \in PortsOf(context) :
            /\ SlotOk(context', p, i)
            /\ context.rxsa[p][i] \in Ways => context'.rxsa[p][i] \in Ways
    <2> TAKE p \in PortsOf(context)
    <2>1. SlotOk(context, p, i)
      BY <1>2, Before
    <2> QED BY <1>1, <2>1 DEF SlotOk, SameQueues, SameFrames
  <1>4. /\ me'[t].answer = None /\ context'.txbuf[i] \in Contents
        /\ \A p \in PortsOf(context) : me'[t].in[p] => context'.rxsa[p][i] \in Ways
    BY <1>1, <1>2 DEF TaskOk, SameIn, SameCall, SameFrames
  <1>5. BusKept(i)
    BY <1>1, SameBus
  <1> HIDE DEF i
  <1> QED BY <1>1, <1>2, <1>3, <1>4, <1>5, TypeStep

\* A send, at either port.
LEMMA TypeSent ==
  ASSUME MuxType, NEW t \in MuxTasks, TaskStep(t), me'[t].idx = me[t].idx,
         NEW p, NEW f, Sent(t, p, f), f \in Frames, f.port \in PortsOf(context),
         me'[t].answer = me[t].answer,
         \A q \in {1, 2} : q \in PortsOf(context) /\ me'[t].in[q] => me[t].in[q],
         pc[t] \notin {"idle", "scan", "closing", "release"}, pc'[t] \notin {"idle", "scan", "closing"},
         pc'[t] \in RedLabels => context.setup.red
  PROVE  MuxType'
  <1> DEFINE i == me[t].idx
  <1>2. /\ TaskOk(context, me[t], pc[t]) /\ i \in IdxOf(context) /\ PortsOf(context) \subseteq {1, 2}
        /\ bus.fails \in Nat
    BY Before, TypeIs DEF TaskStep
  <1>3. \A q \in PortsOf(context) :
            /\ SlotOk(context', q, i)
            /\ context.rxsa[q][i] \in Ways => context'.rxsa[q][i] \in Ways
    <2> TAKE q \in PortsOf(context)
    <2>1. SlotOk(context, q, i)
      BY <1>2, Before
    <2>2. /\ context'.queue[q][i] \in {None, context.queue[q][i]}
          /\ context'.rxsa = context.rxsa /\ context'.rxbuf = context.rxbuf
      BY DEF Sent, SameFrames
    <2> QED BY <2>1, <2>2 DEF SlotOk
  <1>4. /\ me'[t].answer = None /\ context'.txbuf[i] \in Contents
        /\ \A q \in PortsOf(context) : me'[t].in[q] => context'.rxsa[q][i] \in Ways
    <2>1. context'.txbuf = context.txbuf /\ context'.rxsa = context.rxsa
      BY DEF Sent, SameFrames
    <2> QED BY <1>2, <2>1 DEF TaskOk
  <1>5. BusKept(i)
    BY <1>2 DEF BusKept, Sent
  <1> HIDE DEF i
  <1> QED BY <1>2, <1>3, <1>4, <1>5, TypeStep DEF i

LEMMA TypeSend ==
  ASSUME MuxType, NEW t \in MuxTasks, MX!SendPrimary(t) \/ MX!SendSecondary(t) \/ MX!Resend(t)
  PROVE  MuxType'
  <1>1. CASE MX!SendPrimary(t)
    <2> DEFINE f == MX!Travel(1, me[t].idx, me[t].sends, "primary", context.txbuf[me[t].idx])
    <2>1. /\ TaskStep(t) /\ pc[t] = "send"
          /\ pc'[t] = IF context.setup.red THEN "mark2" ELSE "poll1"
          /\ Sent(t, 1, f) /\ f \in Frames /\ f.port \in PortsOf(context)
          /\ me'[t].idx = me[t].idx /\ me'[t].answer = me[t].answer
          /\ ~me'[t].in[1] /\ (me'[t].in[2] <=> ~context.setup.red)
      BY <1>1, SendPrimaryDoes
    <2> HIDE DEF f
    <2>2. \A q \in {1, 2} : q \in PortsOf(context) /\ me'[t].in[q] => me[t].in[q]
      BY <2>1, TypeIs
    <2>3. /\ pc[t] \notin {"idle", "scan", "closing", "release"}
          /\ pc'[t] \notin {"idle", "scan", "closing"}
          /\ pc'[t] \in RedLabels => context.setup.red
      BY <2>1 DEF RedLabels
    <2> QED BY <2>1, <2>2, <2>3, TypeSent
  <1>2. CASE MX!SendSecondary(t)
    <2> DEFINE f == MX!Travel(2, me[t].idx, me[t].sends, "secondary", [req |-> None, parts |-> {}])
    <2>1. /\ TaskStep(t) /\ pc[t] = "send2" /\ pc'[t] = "poll1" /\ context.setup.red
          /\ Sent(t, 2, f) /\ f \in Frames /\ f.port \in PortsOf(context)
          /\ me'[t].idx = me[t].idx /\ SameCall(me'[t], me[t]) /\ SameIn(me'[t], me[t])
      BY <1>2, SendSecondaryDoes
    <2> HIDE DEF f
    <2>2. \A q \in {1, 2} : q \in PortsOf(context) /\ me'[t].in[q] => me[t].in[q]
      BY <2>1 DEF SameIn
    <2>3. /\ pc[t] \notin {"idle", "scan", "closing", "release"}
          /\ pc'[t] \notin {"idle", "scan", "closing"}
          /\ pc'[t] \in RedLabels => context.setup.red
          /\ me'[t].answer = me[t].answer
      BY <2>1 DEF SameCall
    <2> QED BY <2>1, <2>2, <2>3, TypeSent
  <1>3. CASE MX!Resend(t)
    <2> DEFINE f == MX!Travel(2, me[t].idx, me[t].sends, "primary", context.txbuf[me[t].idx])
    <2>1. /\ TaskStep(t) /\ pc[t] = "resend" /\ pc'[t] = "rewait" /\ context.setup.red
          /\ Sent(t, 2, f) /\ f \in Frames /\ f.port \in PortsOf(context)
          /\ me'[t].idx = me[t].idx /\ SameCall(me'[t], me[t])
          /\ me'[t].in[1] = me[t].in[1] /\ ~me'[t].in[2]
      BY <1>3, ResendDoes
    <2> HIDE DEF f
    <2>2. \A q \in {1, 2} : q \in PortsOf(context) /\ me'[t].in[q] => me[t].in[q]
      BY <2>1
    <2>3. /\ pc[t] \notin {"idle", "scan", "closing", "release"}
          /\ pc'[t] \notin {"idle", "scan", "closing"}
          /\ pc'[t] \in RedLabels => context.setup.red
          /\ me'[t].answer = me[t].answer
      BY <2>1 DEF SameCall
    <2> QED BY <2>1, <2>2, <2>3, TypeSent
  <1> QED BY <1>1, <1>2, <1>3

LEMMA TypePoll ==
  ASSUME NoneAssumption, CloseInv, MuxType, NEW t \in MuxTasks,
         MX!PollPrimary(t) \/ MX!PollSecondary(t) \/ MX!Rewait(t)
  PROVE  MuxType'
  <1> DEFINE i == me[t].idx
  <1>1. /\ TaskStep(t) /\ bus' = bus /\ me'[t].idx = i /\ SameCall(me'[t], me[t])
        /\ pc[t] \in {"poll1", "poll2", "rewait"}
        /\ pc'[t] \in {"poll2", "timer", "rewait"}
        /\ pc'[t] \in RedLabels => context.setup.red
        /\ \E p \in PortsOf(context) : Takes(t, p) \/ Leaves(t, p)
    BY PollDoes DEF RedLabels, PortsOf
  <1>2. TaskOk(context, me[t], pc[t]) /\ i \in IdxOf(context) /\ PortsOf(context) \subseteq {1, 2}
    BY <1>1, Before, TypeIs DEF TaskStep
  <1>3. PICK p \in PortsOf(context) : Takes(t, p) \/ Leaves(t, p)
    BY <1>1
  <1>4. /\ me'[t].answer = None /\ context'.txbuf[i] \in Contents
        /\ context.txbuf[i] \in Contents
        /\ \A q \in PortsOf(context) :
              /\ SlotOk(context', q, i)
              /\ context.rxsa[q][i] \in Ways => context'.rxsa[q][i] \in Ways
              /\ me'[t].in[q] => context'.rxsa[q][i] \in Ways
    <2>0. me[t].answer = None /\ context.txbuf[i] \in Contents
      BY <1>1, <1>2 DEF TaskOk
    <2>1. CASE Leaves(t, p)
      BY <2>0, <2>1, <1>2, Before DEF Leaves, TaskOk
    <2>2. CASE Takes(t, p)
      <3> DEFINE f == context.queue[p][i]
      <3>1. /\ f # None /\ InSet(context, context', p, i, context.owned - 1, f.content, f.sa)
            /\ \A q \in {1, 2} : q # p => me'[t].in[q] = me[t].in[q]
        BY <2>2 DEF Takes
      <3>2. f \in Frames
        <4>1. SlotOk(context, p, i)
          BY <1>2, Before
        <4>2. f # Deleted
          <5>1. pc[t] \notin {"idle", "closing"} /\ t \in context.setup.tasks
            BY <1>1 DEF MuxTasks
          <5>2. context.toClose = PortsOf(context) \X IdxOf(context)
            BY <5>1 DEF CloseInv
          <5>3. <<p, i>> \in context.toClose
            BY <5>2, <1>2
          <5> QED BY <5>3, <1>2 DEF CloseInv
        <4> QED BY <3>1, <4>1, <4>2 DEF SlotOk
      <3>3. f.sa \in Ways /\ f.content \in Contents
        BY <3>2 DEF Frames
      <3> HIDE DEF f
      <3>4. context'.txbuf = context.txbuf
        BY <3>1 DEF InSet
      <3>5. ASSUME NEW q \in PortsOf(context)
            PROVE /\ SlotOk(context', q, i)
                  /\ context.rxsa[q][i] \in Ways => context'.rxsa[q][i] \in Ways
                  /\ me'[t].in[q] => context'.rxsa[q][i] \in Ways
        <4>1. SlotOk(context, q, i)
          BY <1>2, Before
        <4>2. /\ context'.queue[q][i] = IF q = p THEN None ELSE context.queue[q][i]
              /\ context'.rxbuf[q][i] = IF q = p THEN f.content ELSE context.rxbuf[q][i]
              /\ context'.rxsa[q][i] = IF q = p THEN f.sa ELSE context.rxsa[q][i]
          BY <3>1 DEF InSet
        <4>3. q # p => me'[t].in[q] = me[t].in[q]
          BY <3>1, <1>2
        <4> QED BY <1>2, <3>3, <4>1, <4>2, <4>3 DEF SlotOk, TaskOk
      <3> QED BY <1>1, <2>0, <3>4, <3>5 DEF SameCall
    <2> QED BY <1>3, <2>1, <2>2
  <1>5. BusKept(i)
    BY <1>1, SameBus
  <1> HIDE DEF i
  <1> QED BY <1>1, <1>4, <1>5, TypeStep

\* The rest of a call: what was received is put elsewhere, or nothing.
LEMMA TypeMoves ==
  ASSUME MuxType, NEW t \in MuxTasks, TaskStep(t), me'[t].idx = me[t].idx, bus' = bus,
         me'[t].answer = me[t].answer \/ pc'[t] = "release", SameIn(me'[t], me[t]),
         pc[t] \notin {"idle", "scan", "closing", "release"}, pc'[t] \notin {"idle", "scan", "closing"},
         pc'[t] \in RedLabels => context.setup.red,
         \/ context' = context
         \/ /\ context.setup.red /\ me[t].in[2]
            /\ RxSet(context, context', 1, me[t].idx, context.rxbuf[2][me[t].idx])
         \/ me[t].in[1] /\ TxSet(context, context', me[t].idx, context.rxbuf[1][me[t].idx])
  PROVE  MuxType'
  <1> DEFINE i == me[t].idx
  <1>2. TaskOk(context, me[t], pc[t]) /\ i \in IdxOf(context) /\ PortsOf(context) \subseteq {1, 2}
    BY Before, TypeIs DEF TaskStep
  <1>3. \A q \in PortsOf(context) : SlotOk(context, q, i)
    BY <1>2, Before
  <1>4. /\ context'.txbuf[i] \in Contents /\ context'.rxsa = context.rxsa
        /\ \A q \in PortsOf(context) : SlotOk(context', q, i)
    <2>0. context.txbuf[i] \in Contents /\ 1 \in PortsOf(context)
      BY <1>2, TypeIs DEF TaskOk
    <2>1. CASE context' = context
      BY <2>0, <2>1, <1>3
    <2>2. CASE /\ context.setup.red /\ me[t].in[2]
               /\ RxSet(context, context', 1, me[t].idx, context.rxbuf[2][me[t].idx])
      <3>1. 2 \in PortsOf(context)
        BY <2>2, TypeIs
      <3>2. context.rxbuf[2][i] \in Contents
        BY <1>2, <1>3, <2>2, <3>1 DEF TaskOk, SlotOk
      <3>3. ASSUME NEW q \in PortsOf(context) PROVE SlotOk(context', q, i)
        <4>1. SlotOk(context, q, i)
          BY <1>3
        <4>2. /\ context'.queue = context.queue /\ context'.rxsa = context.rxsa
              /\ context'.rxbuf[q][i] = IF q = 1 THEN context.rxbuf[2][i] ELSE context.rxbuf[q][i]
          BY <2>2 DEF RxSet
        <4> QED BY <4>1, <4>2, <3>2 DEF SlotOk
      <3> QED BY <2>0, <2>2, <3>3 DEF RxSet
    <2>3. CASE me[t].in[1] /\ TxSet(context, context', me[t].idx, context.rxbuf[1][me[t].idx])
      <3>2. context.rxbuf[1][i] \in Contents
        BY <1>2, <1>3, <2>0, <2>3 DEF TaskOk, SlotOk
      <3> QED BY <2>3, <3>2, <1>3 DEF TxSet, SlotOk
    <2> QED BY <2>1, <2>2, <2>3
  <1>5. BusKept(i)
    BY SameBus
  <1>6. /\ \A p \in PortsOf(context) : me'[t].in[p] => context'.rxsa[p][i] \in Ways
        /\ pc'[t] # "release" => me'[t].answer = None
    BY <1>2, <1>4 DEF TaskOk, SameIn
  <1> HIDE DEF i
  <1> QED BY <1>2, <1>4, <1>5, <1>6, TypeStep DEF i

LEMMA TypeRest ==
  ASSUME MuxType, NEW t \in MuxTasks,
         \/ MX!PollAgain(t) \/ MX!Retry(t) \/ MX!GiveUp(t) \/ MX!UseAnswer(t)
         \/ MX!WaitOver(t) \/ MX!RewaitOver(t)
  PROVE  MuxType'
  <1>1. CASE MX!PollAgain(t) \/ MX!Retry(t) \/ MX!GiveUp(t)
    <2>1. /\ TaskStep(t) /\ bus' = bus /\ me' = me /\ context' = context
          /\ pc[t] \in {"timer", "again"} /\ pc'[t] \in {"poll1", "mark", "release"}
      BY <1>1, TurnsDo
    <2> QED BY <2>1, TypeMoves DEF SameIn, RedLabels
  <1>2. CASE MX!UseAnswer(t)
    <2>1. /\ TaskStep(t) /\ bus' = bus /\ context' = context
          /\ pc[t] = "use" /\ pc'[t] = "release" /\ me'[t].idx = me[t].idx /\ SameIn(me'[t], me[t])
      BY <1>2, UseDoes
    <2> QED BY <2>1, TypeMoves DEF RedLabels
  <1>3. CASE MX!WaitOver(t)
    <2> DEFINE i == me[t].idx
    <2>1. /\ TaskStep(t) /\ bus' = bus /\ pc[t] = "timer" /\ me'[t].idx = i
          /\ me'[t].answer = me[t].answer /\ SameIn(me'[t], me[t])
      BY <1>3, WaitOverDoes DEF SameCall
    <2>2. /\ pc'[t] \in {"use", "mark3", "again"}
          /\ pc'[t] \in RedLabels => context.setup.red
          /\ \/ context' = context
             \/ /\ context.setup.red /\ me[t].in[2]
                /\ RxSet(context, context', 1, i, context.rxbuf[2][i])
             \/ me[t].in[1] /\ TxSet(context, context', i, context.rxbuf[1][i])
      BY <1>3, WaitOverDoes DEF RedLabels
    <2> QED BY <2>1, <2>2, TypeMoves
  <1>4. CASE MX!RewaitOver(t)
    <2> DEFINE i == me[t].idx
    <2>1. /\ TaskStep(t) /\ bus' = bus /\ pc[t] = "rewait" /\ me'[t].idx = i
          /\ me'[t].answer = me[t].answer /\ SameIn(me'[t], me[t])
      BY <1>4, RewaitOverDoes DEF SameCall
    <2>2. /\ pc'[t] \in {"use", "again"}
          /\ pc'[t] \in RedLabels => context.setup.red
          /\ \/ context' = context
             \/ /\ context.setup.red /\ me[t].in[2]
                /\ RxSet(context, context', 1, i, context.rxbuf[2][i])
      BY <1>4, RewaitOverDoes DEF RedLabels
    <2> QED BY <2>1, <2>2, TypeMoves
  <1> QED BY <1>1, <1>2, <1>3, <1>4

LEMMA TypeSetbufstat ==
  ASSUME SetupsAssumption, MuxType, NEW t \in MuxTasks, MX!ecx_setbufstat(t)
  PROVE  MuxType'
  <1> DEFINE i == me[t].idx
             d == context'
             n == me[t].req
             free == [MX!NoTask EXCEPT !.req = n]
  <1>1. /\ StatCleared(context, d, i) /\ bus' = bus /\ pc'[t] = "idle"
        /\ pc' \in [MuxTasks -> Labels] /\ DOMAIN me' = MuxTasks
        /\ \A u \in MuxTasks : u # t => pc'[u] = pc[u] /\ me'[u] = me[u]
        /\ me'[t] = free
    BY SetbufstatDoes
  <1>2. n \in Nat /\ 0 \in IdxOf(context) /\ context.setup \in Setups /\ context.lastidx \in Nat
        /\ PortsOf(context) \subseteq {1, 2}
    <2>1. i \in IdxOf(context) /\ n \in Nat
      BY TypeIs DEF TaskShape
    <2>2. 0 \in IdxOf(context)
      <3>1. context.setup.maxbuf \in Nat /\ context.setup.maxbuf > 0
        BY SizeIs
      <3> QED BY <3>1 DEF IdxOf
    <2> QED BY <2>1, <2>2, TypeIs
  <1>3. /\ Shape(d) /\ d.setup = context.setup /\ d.lastidx = context.lastidx
        /\ d.queue = context.queue /\ d.rxbuf = context.rxbuf /\ d.rxsa = context.rxsa
        /\ d.txbuf = context.txbuf
    BY <1>1 DEF StatCleared, Beside
  <1> HIDE DEF d, n
  <1>4. PortsOf(d) = PortsOf(context) /\ IdxOf(d) = IdxOf(context)
    BY <1>3 DEF PortsOf, IdxOf
  <1>5. ContextOk(d)
    BY <1>2, <1>3, <1>4, SlotsAre DEF ContextOk, SlotOk
  <1>6. BusOk(d, bus')
    BY <1>1, <1>4, SlotsAre DEF BusOk
  <1>7. TaskShape(free) /\ free.idx = 0 /\ free.sends = 0 /\ ~free.in[1] /\ ~free.in[2]
        /\ free.answer = None
    BY <1>2 DEF TaskShape, MX!NoTask
  <1> HIDE DEF free
  <1>8. \A u \in MuxTasks : TaskOk(d, me'[u], pc'[u])
    <2> TAKE u \in MuxTasks
    <2>1. CASE u = t
      BY <1>1, <1>2, <1>4, <1>7, <2>1 DEF TaskOk, RedLabels
    <2>2. CASE u # t
      BY <1>1, <1>3, <1>4, <2>2, Before DEF TaskOk
    <2> QED BY <2>1, <2>2
  <1>9. MuxTasks = context'.setup.tasks
    BY <1>3 DEF MuxTasks, d
  <1> QED BY <1>1, <1>5, <1>6, <1>8, <1>9 DEF MuxType, d

LEMMA TypeNet ==
  ASSUME MuxType, NEW i, NetStep(i), \A p \in PortsOf(context) : SlotOk(context', p, i),
         bus'.cb # None => /\ bus'.cb \in [frame : Frames, full : BOOLEAN]
                           /\ bus'.cb.frame.idx \in IdxOf(context)
                           /\ bus'.cb.frame.port \in PortsOf(context)
  PROVE  MuxType'
  <1> DEFINE d == context'
  <1>1. /\ Beside(context, d, i) /\ d.rxbuf = context.rxbuf /\ d.rxsa = context.rxsa
        /\ d.txbuf = context.txbuf /\ d.lastidx = context.lastidx
        /\ pc' = pc /\ DOMAIN me' = MuxTasks
        /\ \A t \in MuxTasks : SameTask(me'[t], me[t], i)
        /\ DOMAIN bus' = DOMAIN bus /\ bus'.fails = bus.fails /\ bus'.net \subseteq bus.net
    BY DEF NetStep, SameFrames
  <1>2. d.setup = context.setup /\ Shape(d) /\ context.setup \in Setups /\ d.lastidx \in Nat
    BY <1>1, TypeIs DEF Beside
  <1> HIDE DEF d
  <1>3. PortsOf(d) = PortsOf(context) /\ IdxOf(d) = IdxOf(context)
    BY <1>2 DEF PortsOf, IdxOf
  <1>4. \A p \in PortsOf(d), k \in IdxOf(d) : SlotOk(d, p, k)
    <2> TAKE p \in PortsOf(d), k \in IdxOf(d)
    <2>1. SlotOk(context, p, k)
      BY <1>3, SlotsAre
    <2>2. CASE k = i
      BY <1>3, <2>2 DEF d
    <2>3. CASE k # i
      <3>1. /\ d.queue[p][k] = context.queue[p][k] /\ d.rxsa[p][k] = context.rxsa[p][k]
            /\ d.rxbuf[p][k] = context.rxbuf[p][k]
        BY <1>1, <1>3, <2>3 DEF Beside
      <3> QED BY <2>1, <3>1 DEF SlotOk
    <2> QED BY <2>2, <2>3
  <1>5. ContextOk(d)
    BY <1>2, <1>4 DEF ContextOk
  <1>6. BusOk(d, bus')
    <2>1. /\ DOMAIN bus' = {"net", "cut", "cb", "fails"} /\ bus'.fails \in Nat
          /\ \A f \in bus.net : f \in Frames /\ f.idx \in IdxOf(context) /\ f.port \in PortsOf(context)
      BY <1>1, TypeIs, FramesAre
    <2> QED BY <1>1, <1>3, <2>1 DEF BusOk
  <1>7. \A t \in MuxTasks : TaskOk(d, me'[t], pc'[t])
    <2> TAKE t \in MuxTasks
    <2>1. /\ TaskShape(me'[t]) /\ me'[t].idx = me[t].idx /\ me'[t].sends = me[t].sends
          /\ me'[t].answer = me[t].answer /\ me'[t].in[1] = me[t].in[1] /\ me'[t].in[2] = me[t].in[2]
      BY <1>1 DEF SameTask, SameCall, SameIn
    <2>2. TaskOk(context, me[t], pc[t]) /\ PortsOf(context) \subseteq {1, 2}
      BY Before, TypeIs
    <2> QED BY <1>1, <1>2, <1>3, <2>1, <2>2 DEF TaskOk
  <1>9. MuxTasks = context'.setup.tasks /\ pc \in [MuxTasks -> Labels]
    BY <1>2, TypeIs DEF MuxTasks, d
  <1> QED BY <1>1, <1>5, <1>6, <1>7, <1>9 DEF MuxType, d

LEMMA HeldMade ==
  ASSUME NEW S, NEW f \in S, NEW b \in BOOLEAN
  PROVE  [frame |-> f, full |-> b] \in [frame : S, full : BOOLEAN] /\ [frame |-> f, full |-> b].frame = f
  OBVIOUS

LEMMA HeldIs ==
  ASSUME NEW f \in Frames, f.idx \in IdxOf(context), f.port \in PortsOf(context), NEW cb,
         cb \in {[frame |-> f, full |-> FALSE], [frame |-> f, full |-> TRUE], None}
  PROVE  cb # None => /\ cb \in [frame : Frames, full : BOOLEAN]
                      /\ cb.frame = f
  <1>1. FALSE \in BOOLEAN /\ TRUE \in BOOLEAN
    OBVIOUS
  <1>2. /\ [frame |-> f, full |-> FALSE] \in [frame : Frames, full : BOOLEAN]
        /\ [frame |-> f, full |-> FALSE].frame = f
    BY <1>1, HeldMade, Zenon
  <1>3. /\ [frame |-> f, full |-> TRUE] \in [frame : Frames, full : BOOLEAN]
        /\ [frame |-> f, full |-> TRUE].frame = f
    BY <1>1, HeldMade, Zenon
  <1>4. CASE cb = [frame |-> f, full |-> FALSE]
    BY <1>2, <1>4, Zenon
  <1>5. CASE cb = [frame |-> f, full |-> TRUE]
    BY <1>3, <1>5, Zenon
  <1> QED BY <1>4, <1>5

LEMMA TypeDriver ==
  ASSUME NoneAssumption, MuxType,
         MX!mux_rx_callback \/ MX!Posted \/ MX!Overrun \/ MX!LoseFrame
  PROVE  MuxType'
  <1>1. CASE MX!mux_rx_callback
    <2>1. PICK f \in bus.net :
             /\ NetStep(f.idx) /\ context' = context
             /\ bus'.cb \in {[frame |-> f, full |-> FALSE], None}
      BY <1>1, CallbackDoes
    <2>2. f \in Frames /\ f.idx \in IdxOf(context) /\ f.port \in PortsOf(context)
      BY FramesAre
    <2>3. bus'.cb # None => bus'.cb \in [frame : Frames, full : BOOLEAN] /\ bus'.cb.frame = f
      BY <2>1, <2>2, HeldIs
    <2> QED BY <2>1, <2>2, <2>3, SlotsAre, TypeNet
  <1>2. CASE MX!LoseFrame
    <2>1. PICK f \in bus.net :
             NetStep(f.idx) /\ context' = context /\ bus'.cb = bus.cb
      BY <1>2, LoseDoes
    <2>2. f.idx \in IdxOf(context)
      BY FramesAre
    <2>3. bus'.cb # None => /\ bus'.cb \in [frame : Frames, full : BOOLEAN]
                            /\ bus'.cb.frame.idx \in IdxOf(context)
                            /\ bus'.cb.frame.port \in PortsOf(context)
      BY <2>1, FramesAre
    <2> QED BY <2>1, <2>2, <2>3, SlotsAre, TypeNet
  <1>3. CASE MX!Posted \/ MX!Overrun
    <2> DEFINE g == bus.cb.frame
               i == g.idx
               p == g.port
    <2>1. /\ NetStep(i) /\ g \in Frames /\ p \in PortsOf(context)
          /\ bus'.cb \in {[frame |-> g, full |-> FALSE], [frame |-> g, full |-> TRUE], None}
          /\ \/ context' = context
             \/ \E n : QueueSet(context, context', p, i, g, n)
             \/ \E n : QueueSet(context, context', p, i, None, n)
      <3>1. CASE MX!Posted
        <4>1. /\ NetStep(g.idx) /\ g \in Frames /\ g.port \in PortsOf(context)
              /\ bus'.cb \in {[frame |-> g, full |-> TRUE], None}
              /\ \/ context' = context
                 \/ QueueSet(context, context', p, i, g, context.owned + 1)
          BY <3>1, PostedDoes
        <4> QED BY <4>1
      <3>2. CASE MX!Overrun
        <4>1. /\ NetStep(g.idx) /\ g \in Frames /\ g.port \in PortsOf(context)
              /\ bus'.cb = [frame |-> g, full |-> FALSE]
              /\ \/ context' = context
                 \/ QueueSet(context, context', p, i, None, context.owned - 1)
          BY <3>2, OverrunDoes
        <4> QED BY <4>1
      <3> QED BY <1>3, <3>1, <3>2
    <2>2. i \in IdxOf(context)
      BY <2>1 DEF NetStep
    <2>3. \A q \in PortsOf(context) : SlotOk(context', q, i)
      <3> TAKE q \in PortsOf(context)
      <3>1. SlotOk(context, q, i)
        BY <2>2, SlotsAre
      <3>2. /\ context'.queue[q][i] \in {context.queue[q][i], None} \/ (q = p /\ context'.queue[q][i] = g)
            /\ context'.rxbuf = context.rxbuf /\ context'.rxsa = context.rxsa
        BY <2>1 DEF QueueSet
      <3> QED BY <2>1, <3>1, <3>2 DEF SlotOk
    <2>4. bus'.cb # None => /\ bus'.cb \in [frame : Frames, full : BOOLEAN]
                            /\ bus'.cb.frame.idx \in IdxOf(context)
                            /\ bus'.cb.frame.port \in PortsOf(context)
      <3>1. /\ g \in Frames /\ i \in IdxOf(context) /\ p \in PortsOf(context)
            /\ bus'.cb \in {[frame |-> g, full |-> FALSE], [frame |-> g, full |-> TRUE], None}
        BY <2>1, <2>2
      <3> HIDE DEF g
      <3>2. bus'.cb # None => bus'.cb \in [frame : Frames, full : BOOLEAN] /\ bus'.cb.frame = g
        BY <3>1, HeldIs
      <3> QED BY <3>1, <3>2
    <2> QED BY <2>1, <2>3, <2>4, TypeNet
  <1> QED BY <1>1, <1>2, <1>3

LEMMA TypeClose ==
  ASSUME MuxType, CloseInv, MX!CloseDrain \/ MX!CloseDelete
  PROVE  MuxType'
  <1> DEFINE d == context'
  <1>1. PICK p \in PortsOf(context), i \in IdxOf(context) :
           /\ me' = me /\ bus' = bus /\ pc' \in [MuxTasks -> {"idle", "closing"}]
           /\ \A t \in MuxTasks : pc[t] \in {"idle", "closing"}
           /\ \/ d = context
              \/ \E n : QueueSet(context, d, p, i, None, n)
              \/ \E n, left : QueueDeleted(context, d, p, i, n, left)
    <2>1. PICK p \in PortsOf(context), i \in IdxOf(context) :
            LET queue == context.queue[p][i]
            IN /\ <<p, i>> \in context.toClose /\ me' = me /\ bus' = bus
               /\ \/ /\ \A t \in MuxTasks : /\ pc[t] = "idle" /\ me[t].req = context.setup.reqs
                                            /\ pc'[t] = "closing"
                     /\ IF queue = None THEN context' = context
                        ELSE QueueSet(context, context', p, i, None, context.owned - 1)
                  \/ /\ \A t \in MuxTasks : pc[t] = "closing" /\ pc'[t] = "idle"
                     /\ QueueDeleted(context, context', p, i,
                                     context.owned - IF queue = None THEN 0 ELSE 1,
                                     context.toClose \ {<<p, i>>})
               /\ pc' \in [MuxTasks -> {"idle", "closing"}]
      BY CloseDoes
    <2> QED BY <2>1, Zenon
  <1> HIDE DEF d
  <1>2. /\ Shape(d) /\ d.setup = context.setup /\ d.lastidx = context.lastidx
        /\ d.rxbuf = context.rxbuf /\ d.rxsa = context.rxsa /\ d.txbuf = context.txbuf
        /\ \A q \in PortsOf(context), k \in IdxOf(context) :
              d.queue[q][k] \in {context.queue[q][k], None, Deleted}
    <2>1. CASE d = context
      BY <2>1, TypeIs
    <2>2. CASE \E n : QueueSet(context, d, p, i, None, n)
      <3>1. PICK n : QueueSet(context, d, p, i, None, n)
        BY <2>2
      <3>2. ASSUME NEW q \in PortsOf(context), NEW k \in IdxOf(context)
            PROVE d.queue[q][k] \in {context.queue[q][k], None, Deleted}
        BY <3>1 DEF QueueSet, Beside
      <3> QED BY <3>1, <3>2 DEF QueueSet, Beside
    <2>3. CASE \E n, left : QueueDeleted(context, d, p, i, n, left)
      BY <2>3 DEF QueueDeleted
    <2> QED BY <1>1, <2>1, <2>2, <2>3
  <1>4. PortsOf(d) = PortsOf(context) /\ IdxOf(d) = IdxOf(context)
    BY <1>2 DEF PortsOf, IdxOf
  <1>5. ContextOk(d)
    <2>1. \A q \in PortsOf(d), k \in IdxOf(d) : SlotOk(d, q, k)
      <3> TAKE q \in PortsOf(d), k \in IdxOf(d)
      <3>1. SlotOk(context, q, k) /\ d.queue[q][k] \in {context.queue[q][k], None, Deleted}
        BY <1>2, <1>4, SlotsAre
      <3> QED BY <3>1, <1>2 DEF SlotOk
    <2> QED BY <2>1, <1>2, TypeIs DEF ContextOk
  <1>6. BusOk(d, bus')
    BY <1>1, <1>4, SlotsAre DEF BusOk
  <1>7. \A t \in MuxTasks : TaskOk(d, me'[t], pc'[t])
    <2> TAKE t \in MuxTasks
    <2>1. TaskOk(context, me[t], pc[t]) /\ pc[t] \in {"idle", "closing"} /\ pc'[t] \in {"idle", "closing"}
      BY <1>1, Before
    <2> QED BY <1>1, <1>2, <1>4, <2>1 DEF TaskOk, RedLabels
  <1>8. pc' \in [MuxTasks -> Labels]
    BY <1>1 DEF Labels
  <1>9. MuxTasks = context'.setup.tasks /\ DOMAIN me' = MuxTasks
    BY <1>1, <1>2, TypeIs DEF MuxTasks, d
  <1> QED BY <1>5, <1>6, <1>7, <1>8, <1>9 DEF MuxType, d

LEMMA TypeCall ==
  ASSUME SetupsAssumption, NoneAssumption, CloseInv, MuxType, NEW t \in MuxTasks, MX!Call(t)
  PROVE  MuxType'
  BY TypeGetIndex, TypeScanNext, TypeFound, TypeMark, TypeSend, TypePoll, TypeRest,
     TypeSetbufstat DEF MX!Call

-------------------------------------------------------------------------------
(* Every step keeps the order of closing *)

LEMMA QueuesOpen ==
  ASSUME CloseInv, NEW t \in MuxTasks,
         pc[t] \notin {"idle", "closing"} \/ me[t].req # context.setup.reqs
  PROVE  /\ context.toClose = PortsOf(context) \X IdxOf(context)
         /\ \A p \in PortsOf(context), i \in IdxOf(context) : context.queue[p][i] # Deleted
         /\ \A u \in MuxTasks : pc[u] # "closing"
  <1>1. t \in context.setup.tasks
    BY DEF MuxTasks
  <1>2. \A u \in MuxTasks : pc[u] # "closing"
    BY <1>1 DEF CloseInv, MuxTasks
  <1>3. context.toClose = PortsOf(context) \X IdxOf(context)
    BY <1>1 DEF CloseInv
  <1>4. \A p \in PortsOf(context), i \in IdxOf(context) : <<p, i>> \in context.toClose
    BY <1>3
  <1> QED BY <1>2, <1>3, <1>4 DEF CloseInv

LEMMA CloseStep ==
  ASSUME NoneAssumption, MuxType, CloseInv, NEW t \in MuxTasks, NEW i,
         pc[t] \notin {"idle", "closing"} \/ me[t].req # context.setup.reqs,
         Beside(context, context', i), pc'[t] # "closing",
         \A p \in PortsOf(context) : context'.queue[p][i] \in {context.queue[p][i], None},
         \A u \in MuxTasks : u # t => pc'[u] = pc[u]
  PROVE  CloseInv'
  <1> DEFINE d == context'
  <1>1. /\ d.setup = context.setup /\ d.toClose = context.toClose
        /\ \A p \in PortsOf(context), k \in IdxOf(context) :
              k # i => d.queue[p][k] = context.queue[p][k]
    BY DEF Beside
  <1>2. PortsOf(d) = PortsOf(context) /\ IdxOf(d) = IdxOf(context) /\ d.setup.tasks = MuxTasks
    BY <1>1 DEF PortsOf, IdxOf, MuxTasks
  <1>3. /\ context.toClose = PortsOf(context) \X IdxOf(context)
        /\ \A p \in PortsOf(context), k \in IdxOf(context) : context.queue[p][k] # Deleted
        /\ \A u \in MuxTasks : pc[u] # "closing"
    BY QueuesOpen
  <1>4. \A u \in MuxTasks : pc'[u] # "closing"
    BY <1>3
  <1>5. \A p \in PortsOf(d), k \in IdxOf(d) : d.queue[p][k] # Deleted /\ <<p, k>> \in d.toClose
    BY <1>1, <1>2, <1>3, NoneAssumption DEF NoneAssumption
  <1> HIDE DEF d
  <1>6. d.toClose = PortsOf(d) \X IdxOf(d)
    BY <1>1, <1>2, <1>3
  <1> QED BY <1>2, <1>4, <1>5, <1>6 DEF CloseInv, d

LEMMA CloseCall ==
  ASSUME SetupsAssumption, NoneAssumption, CloseInv, MuxType, NEW t \in MuxTasks, MX!Call(t)
  PROVE  CloseInv'
  <1> DEFINE i == me'[t].idx
             Kept(k) == \A p \in PortsOf(context) : context'.queue[p][k] \in {context.queue[p][k], None}
  <1>1. ASSUME TaskStep(t), Kept(i), pc[t] # "closing", pc'[t] # "closing",
               pc[t] = "idle" => me[t].req # context.setup.reqs
        PROVE  CloseInv'
    <2>1. Beside(context, context', i) /\ \A u \in MuxTasks : u # t => pc'[u] = pc[u]
      BY <1>1 DEF TaskStep
    <2>2. pc[t] \notin {"idle", "closing"} \/ me[t].req # context.setup.reqs
      BY <1>1
    <2> HIDE DEF i
    <2> QED BY <1>1, <2>1, <2>2, CloseStep
  <1>2. CASE MX!ecx_getindex(t)
    <2>1. /\ TaskStep(t) /\ pc[t] = "idle" /\ pc'[t] = "scan" /\ SameQueues
          /\ me[t].req < context.setup.reqs
      BY <1>2, GetIndexDoes
    <2>2. me[t].req # context.setup.reqs
      <3>1. me[t].req \in Nat /\ context.setup.reqs \in Nat
        BY TypeIs DEF TaskShape, SetupsAssumption
      <3> QED BY <3>1, <2>1
    <2>3. Kept(i)
      BY <2>1 DEF SameQueues
    <2> QED BY <2>1, <2>2, <2>3, <1>1
  <1>3. CASE MX!ScanNext(t)
    <2>1. TaskStep(t) /\ pc[t] = "scan" /\ pc'[t] = "scan" /\ context' = context
      BY <1>3, ScanNextDoes
    <2>2. Kept(i)
      BY <2>1
    <2> QED BY <2>1, <2>2, <1>1
  <1>4. CASE MX!Found(t)
    <2>1. TaskStep(t) /\ pc[t] = "scan" /\ pc'[t] = "mark" /\ SameQueues
      BY <1>4, FoundDoes
    <2>2. Kept(i)
      BY <2>1 DEF SameQueues
    <2> QED BY <2>1, <2>2, <1>1
  <1>5. CASE MX!MarkPrimary(t) \/ MX!MarkSecondary(t) \/ MX!MarkResend(t)
    <2>1. /\ TaskStep(t) /\ pc[t] \in {"mark", "mark2", "mark3"}
          /\ pc'[t] \in {"send", "send2", "resend"} /\ SameQueues
      BY <1>5, MarkPrimaryDoes, MarkAgainDoes DEF StatSet, SameQueues
    <2>2. Kept(i)
      BY <2>1 DEF SameQueues
    <2> QED BY <2>1, <2>2, <1>1
  <1>6. CASE MX!SendPrimary(t) \/ MX!SendSecondary(t) \/ MX!Resend(t)
    <2>1. /\ TaskStep(t) /\ pc[t] \in {"send", "send2", "resend"} /\ me'[t].idx = me[t].idx
          /\ pc'[t] \in {"mark2", "poll1", "rewait"} /\ \E p, f : Sent(t, p, f)
      <3>1. CASE MX!SendPrimary(t)
        BY <3>1, SendPrimaryDoes
      <3>2. CASE MX!SendSecondary(t)
        BY <3>2, SendSecondaryDoes
      <3>3. CASE MX!Resend(t)
        BY <3>3, ResendDoes
      <3> QED BY <1>6, <3>1, <3>2, <3>3
    <2>2. Kept(i)
      BY <2>1 DEF Sent
    <2> QED BY <2>1, <2>2, <1>1
  <1>7. CASE MX!PollPrimary(t) \/ MX!PollSecondary(t) \/ MX!Rewait(t)
    <2>1. /\ TaskStep(t) /\ pc[t] \in {"poll1", "poll2", "rewait"} /\ me'[t].idx = me[t].idx
          /\ pc'[t] \in {"poll2", "timer", "rewait"}
          /\ \E p : Takes(t, p) \/ Leaves(t, p)
      BY <1>7, PollDoes
    <2>2. Kept(i)
      BY <2>1 DEF Takes, Leaves, InSet
    <2> QED BY <2>1, <2>2, <1>1
  <1>8. CASE MX!PollAgain(t) \/ MX!Retry(t) \/ MX!GiveUp(t)
    <2>1. /\ TaskStep(t) /\ context' = context
          /\ pc[t] \in {"timer", "again"} /\ pc'[t] \in {"poll1", "mark", "release"}
      BY <1>8, TurnsDo
    <2>2. Kept(i)
      BY <2>1
    <2> QED BY <2>1, <2>2, <1>1
  <1>9. CASE MX!UseAnswer(t)
    <2>1. TaskStep(t) /\ context' = context /\ pc[t] = "use" /\ pc'[t] = "release"
      BY <1>9, UseDoes
    <2>2. Kept(i)
      BY <2>1
    <2> QED BY <2>1, <2>2, <1>1
  <1>10. CASE MX!WaitOver(t)
    <2>1. /\ TaskStep(t) /\ pc[t] = "timer" /\ pc'[t] \in {"use", "mark3", "again"}
          /\ \/ context' = context
             \/ RxSet(context, context', 1, me[t].idx, context.rxbuf[2][me[t].idx])
             \/ TxSet(context, context', me[t].idx, context.rxbuf[1][me[t].idx])
      BY <1>10, WaitOverDoes
    <2>2. Kept(i)
      BY <2>1 DEF RxSet, TxSet
    <2> QED BY <2>1, <2>2, <1>1
  <1>11. CASE MX!RewaitOver(t)
    <2>1. /\ TaskStep(t) /\ pc[t] = "rewait" /\ pc'[t] \in {"use", "again"}
          /\ \/ context' = context
             \/ RxSet(context, context', 1, me[t].idx, context.rxbuf[2][me[t].idx])
      BY <1>11, RewaitOverDoes
    <2>2. Kept(i)
      BY <2>1 DEF RxSet
    <2> QED BY <2>1, <2>2, <1>1
  <1>12. CASE MX!ecx_setbufstat(t)
    <2>1. /\ StatCleared(context, context', me[t].idx) /\ pc[t] = "release" /\ pc'[t] = "idle"
          /\ \A u \in MuxTasks : u # t => pc'[u] = pc[u]
      BY <1>12, SetbufstatDoes
    <2>2. Kept(me[t].idx) /\ Beside(context, context', me[t].idx)
      BY <2>1 DEF StatCleared
    <2>3. pc[t] \notin {"idle", "closing"} /\ pc'[t] # "closing"
      BY <2>1
    <2> QED BY <2>1, <2>2, <2>3, CloseStep
  <1> QED BY <1>2, <1>3, <1>4, <1>5, <1>6, <1>7, <1>8, <1>9, <1>10, <1>11, <1>12 DEF MX!Call

LEMMA CloseNet ==
  ASSUME MuxType, CloseInv, NEW i, NetStep(i),
         \A p \in PortsOf(context) : context'.queue[p][i] = Deleted <=> context.queue[p][i] = Deleted
  PROVE  CloseInv'
  <1> DEFINE d == context'
  <1>1. /\ d.setup = context.setup /\ d.toClose = context.toClose
        /\ \A p \in PortsOf(context), k \in IdxOf(context) :
              k # i => d.queue[p][k] = context.queue[p][k]
    BY DEF NetStep, Beside
  <1>2. PortsOf(d) = PortsOf(context) /\ IdxOf(d) = IdxOf(context) /\ d.setup.tasks = MuxTasks
    BY <1>1 DEF PortsOf, IdxOf, MuxTasks
  <1>3. pc' = pc /\ \A t \in MuxTasks : me'[t].req = me[t].req
    BY DEF NetStep, SameTask, SameCall
  <1>4. \A p \in PortsOf(d), k \in IdxOf(d) : d.queue[p][k] = Deleted <=> <<p, k>> \notin d.toClose
    <2> TAKE p \in PortsOf(d), k \in IdxOf(d)
    <2>1. context.queue[p][k] = Deleted <=> <<p, k>> \notin context.toClose
      BY <1>2 DEF CloseInv
    <2>2. d.queue[p][k] = Deleted <=> context.queue[p][k] = Deleted
      BY <1>1, <1>2
    <2> QED BY <1>1, <2>1, <2>2
  <1>5. \A t \in MuxTasks :
          /\ pc[t] = "closing" => \A u \in MuxTasks : pc[u] = "closing"
          /\ pc[t] = "closing" \/ context.toClose # PortsOf(context) \X IdxOf(context) =>
                pc[t] \in {"idle", "closing"} /\ me[t].req = context.setup.reqs
    BY DEF CloseInv, MuxTasks
  <1>6. context.toClose \subseteq PortsOf(context) \X IdxOf(context)
    BY DEF CloseInv
  <1> HIDE DEF d
  <1>7. /\ d.toClose \subseteq PortsOf(d) \X IdxOf(d)
        /\ \A t \in d.setup.tasks :
          /\ pc'[t] = "closing" => \A u \in d.setup.tasks : pc'[u] = "closing"
          /\ pc'[t] = "closing" \/ d.toClose # PortsOf(d) \X IdxOf(d) =>
                pc'[t] \in {"idle", "closing"} /\ me'[t].req = d.setup.reqs
    BY <1>1, <1>2, <1>3, <1>5, <1>6
  <1> QED BY <1>4, <1>7 DEF CloseInv, d

LEMMA CloseDriver ==
  ASSUME NoneAssumption, MuxType, CloseInv,
         MX!mux_rx_callback \/ MX!Posted \/ MX!Overrun \/ MX!LoseFrame
  PROVE  CloseInv'
  <1>1. CASE MX!mux_rx_callback
    <2>1. \E i : NetStep(i) /\ context' = context
      BY <1>1, CallbackDoes
    <2> QED BY <2>1, CloseNet
  <1>2. CASE MX!LoseFrame
    <2>1. \E i : NetStep(i) /\ context' = context
      BY <1>2, LoseDoes
    <2> QED BY <2>1, CloseNet
  <1> DEFINE g == bus.cb.frame
             p == g.port
             i == g.idx
  <1>3. CASE MX!Posted
    <2>1. /\ NetStep(i) /\ g \in Frames
          /\ \/ context' = context
             \/ context.queue[p][i] = None /\ QueueSet(context, context', p, i, g, context.owned + 1)
      BY <1>3, PostedDoes
    <2>2. g # Deleted /\ None # Deleted
      BY <2>1 DEF NoneAssumption
    <2> HIDE DEF g
    <2>3. \A q \in PortsOf(context) : context'.queue[q][i] = Deleted <=> context.queue[q][i] = Deleted
      BY <2>1, <2>2 DEF QueueSet
    <2> QED BY <2>1, <2>3, CloseNet
  <1>4. CASE MX!Overrun
    <2>1. /\ NetStep(i)
          /\ \/ context' = context
             \/ /\ context.queue[p][i] # Deleted
                /\ QueueSet(context, context', p, i, None, context.owned - 1)
      BY <1>4, OverrunDoes
    <2>2. None # Deleted
      BY DEF NoneAssumption
    <2> HIDE DEF g
    <2>3. \A q \in PortsOf(context) : context'.queue[q][i] = Deleted <=> context.queue[q][i] = Deleted
      BY <2>1, <2>2 DEF QueueSet
    <2> QED BY <2>1, <2>3, CloseNet
  <1> QED BY <1>1, <1>2, <1>3, <1>4

LEMMA CloseCloses ==
  ASSUME NoneAssumption, MuxType, CloseInv, MX!CloseDrain \/ MX!CloseDelete
  PROVE  CloseInv'
  <1> DEFINE d == context'
  <1>1. PICK p \in PortsOf(context), i \in IdxOf(context) :
            LET queue == context.queue[p][i]
            IN /\ <<p, i>> \in context.toClose /\ me' = me /\ bus' = bus
               /\ \/ /\ \A t \in MuxTasks : /\ pc[t] = "idle" /\ me[t].req = context.setup.reqs
                                            /\ pc'[t] = "closing"
                     /\ IF queue = None THEN d = context
                        ELSE QueueSet(context, d, p, i, None, context.owned - 1)
                  \/ /\ \A t \in MuxTasks : pc[t] = "closing" /\ pc'[t] = "idle"
                     /\ QueueDeleted(context, d, p, i,
                                     context.owned - IF queue = None THEN 0 ELSE 1,
                                     context.toClose \ {<<p, i>>})
               /\ pc' \in [MuxTasks -> {"idle", "closing"}]
    BY CloseDoes
  <1> HIDE DEF d
  <1>2. \A t \in MuxTasks : me[t].req = context.setup.reqs
    BY <1>1 DEF CloseInv, MuxTasks
  <1>3. /\ d.setup = context.setup
        /\ \A q \in PortsOf(context), k \in IdxOf(context) :
              d.queue[q][k] = Deleted <=> <<q, k>> \notin d.toClose
        /\ d.toClose \subseteq context.toClose
    <2>0. \A q \in PortsOf(context), k \in IdxOf(context) :
              context.queue[q][k] = Deleted <=> <<q, k>> \notin context.toClose
      BY DEF CloseInv
    <2>1. CASE d = context
      BY <2>0, <2>1
    <2>2. CASE QueueSet(context, d, p, i, None, context.owned - 1)
      <3>1. d.toClose = context.toClose /\ d.setup = context.setup
        BY <2>2 DEF QueueSet, Beside
      <3>2. ASSUME NEW q \in PortsOf(context), NEW k \in IdxOf(context)
            PROVE d.queue[q][k] = IF q = p /\ k = i THEN None ELSE context.queue[q][k]
        BY <2>2 DEF QueueSet, Beside
      <3> QED BY <1>1, <2>0, <3>1, <3>2 DEF NoneAssumption
    <2>3. CASE \E n : QueueDeleted(context, d, p, i, n, context.toClose \ {<<p, i>>})
      <3>1. /\ d.setup = context.setup /\ d.toClose = context.toClose \ {<<p, i>>}
            /\ \A q \in PortsOf(context), k \in IdxOf(context) :
                  d.queue[q][k] = IF q = p /\ k = i THEN Deleted ELSE context.queue[q][k]
        BY <2>3 DEF QueueDeleted
      <3>2. \A q \in PortsOf(context), k \in IdxOf(context) :
               <<q, k>> = <<p, i>> <=> q = p /\ k = i
        OBVIOUS
      <3> QED BY <2>0, <3>1, <3>2
    <2> QED BY <1>1, <2>1, <2>2, <2>3
  <1>4. PortsOf(d) = PortsOf(context) /\ IdxOf(d) = IdxOf(context) /\ d.setup.tasks = MuxTasks
    BY <1>3 DEF PortsOf, IdxOf, MuxTasks
  <1>5. /\ d.toClose \subseteq PortsOf(d) \X IdxOf(d)
        /\ \A q \in PortsOf(d), k \in IdxOf(d) : d.queue[q][k] = Deleted <=> <<q, k>> \notin d.toClose
    <2>1. context.toClose \subseteq PortsOf(context) \X IdxOf(context)
      BY DEF CloseInv
    <2> QED BY <1>3, <1>4, <2>1
  <1>6. \A t \in d.setup.tasks :
          /\ pc'[t] = "closing" => \A u \in d.setup.tasks : pc'[u] = "closing"
          /\ pc'[t] \in {"idle", "closing"} /\ me'[t].req = d.setup.reqs
    BY <1>1, <1>2, <1>3, <1>4
  <1> QED BY <1>5, <1>6 DEF CloseInv, d

-------------------------------------------------------------------------------
(* The list of errors *)

USE MaxEListAssumption

\* Stepping an index keeps it in the array and moves it.
LEMMA IncType == ASSUME NEW i \in Slots PROVE Inc(i) \in Slots /\ Inc(i) # i
  BY DEF Slots, Inc

\* The list never holds more than EC_MAXELIST entries, and where they are.
LEMMA PendingShape ==
  ASSUME TypeOK
  PROVE  /\ Count \in 0 .. MaxEList
         /\ \A i \in 0 .. MaxEList : Pos(i) \in Slots
         /\ Pending \in Seq(Entries)
         /\ Len(Pending) = Count
         /\ \A i \in 1 .. Count : Pending[i] = slot[Pos(i - 1)]
  <1>1. Count \in 0 .. MaxEList
    BY DEF Count, TypeOK, Slots
  <1>2. \A i \in 0 .. MaxEList : Pos(i) \in Slots
    BY DEF Pos, TypeOK, Slots
  <1>3. \A i \in 1 .. Count : slot[Pos(i - 1)] \in Entries
    <2> TAKE i \in 1 .. Count
    <2>1. i - 1 \in 0 .. MaxEList
      BY <1>1
    <2> QED BY <2>1, <1>2 DEF TypeOK
  <1>4. Pending \in [1 .. Count -> Entries]
    BY <1>3 DEF Pending
  <1>5. Pending \in Seq(Entries) /\ Len(Pending) = Count
    BY <1>1, <1>4
  <1> QED BY <1>1, <1>2, <1>5 DEF Pending

\* A function on 1 .. n + 1 that extends a sequence of length n by e is that
\* sequence with e appended.
LEMMA FunctionIsAppend ==
  ASSUME NEW s \in Seq(Entries), NEW e \in Entries, NEW f,
         DOMAIN f = 1 .. Len(s) + 1, f = [i \in DOMAIN f |-> f[i]],
         \A i \in 1 .. Len(s) : f[i] = s[i],
         f[Len(s) + 1] = e
  PROVE  f = Append(s, e)
  <1>1. f \in Seq(Entries) /\ Len(f) = Len(s) + 1
    OBVIOUS
  <1>2. \A i \in 1 .. Len(f) : f[i] = Append(s, e)[i]
    BY <1>1, AppendProperties
  <1> QED BY <1>1, <1>2, AppendProperties, SeqEqual

\* A pop of a non-empty list hands out the head of the queue and leaves its tail.
LEMMA PopEntryShifts ==
  ASSUME TypeOK, PopEntry
  PROVE  /\ Pending # <<>>
         /\ Pending' = Tail(Pending)
         /\ slot[tail] = Head(Pending)
  <1>1. Count > 0 /\ Count' = Count - 1 /\ Pos(0) = tail
    BY DEF Count, PopEntry, TypeOK, Slots, Inc, Pos
  <1>2. \A i \in 0 .. MaxEList - 1 : Pos(i)' = Pos(i + 1)
    BY DEF Pos, PopEntry, TypeOK, Slots, Inc
  <1>3. /\ Count \in 0 .. MaxEList
        /\ Len(Pending) = Count
        /\ Pending \in Seq(Entries)
        /\ \A i \in 1 .. Count : Pending[i] = slot[Pos(i - 1)]
    BY PendingShape
  <1>4. Pending' = [i \in 1 .. Count - 1 |-> Pending[i + 1]]
    <2>1. ASSUME NEW i \in 1 .. Count - 1
          PROVE  slot'[Pos(i - 1)'] = Pending[i + 1]
      <3>1. i - 1 \in 0 .. MaxEList - 1 /\ i - 1 + 1 = i
        BY <1>3
      <3>2. i + 1 \in 1 .. Count /\ i + 1 - 1 = i
        BY <1>3
      <3> QED BY <3>1, <3>2, <1>2, <1>3 DEF PopEntry
    <2> QED BY <2>1, <1>1 DEF Pending
  <1>5. Pending # <<>>
    BY <1>1, <1>3
  <1>6. Pending' = Tail(Pending)
    <2>1. /\ Tail(Pending) \in Seq(Entries)
          /\ Len(Tail(Pending)) = Count - 1
          /\ \A i \in 1 .. Count - 1 : Tail(Pending)[i] = Pending[i + 1]
      BY <1>3, <1>5, HeadTailProperties
    <2>2. \A i \in 1 .. Count - 1 : Pending[i + 1] \in Entries
      BY <1>3
    <2>3. Pending' \in Seq(Entries) /\ Len(Pending') = Count - 1
      BY <1>1, <1>3, <1>4, <2>2
    <2>4. \A i \in 1 .. Count - 1 : Pending'[i] = Tail(Pending)[i]
      BY <1>4, <2>1
    <2> QED BY <2>1, <2>3, <2>4, SeqEqual
  <1>7. Head(Pending) = slot[tail]
    <2>1. 1 \in 1 .. Count /\ 1 - 1 = 0
      BY <1>1, PendingShape
    <2>2. Pending[1] = slot[Pos(0)]
      BY <2>1, PendingShape
    <2> QED BY <2>2, <1>1, <1>3, <1>5
  <1> QED BY <1>5, <1>6, <1>7

\* A report appends to the queue, after dropping its oldest entry if it is full.
LEMMA PushAppends ==
  ASSUME TypeOK, NEW e \in Errors, Push(e)
  PROVE  Pending' = Append(IF Len(Pending) = MaxEList THEN Tail(Pending)
                                                      ELSE Pending, e)
  <1>1. /\ Count \in 0 .. MaxEList
        /\ Len(Pending) = Count
        /\ Pending \in Seq(Entries)
    BY PendingShape
  <1>2. CASE Count = MaxEList
    <2>1. Inc(head) = tail /\ Count' = Count
      BY <1>2 DEF Count, Push, TypeOK, Slots, Inc
    <2>2. \A i \in 0 .. MaxEList - 1 :
             Pos(i)' = Pos(i + 1) /\ (i # MaxEList - 1 => Pos(i)' # head)
      BY <2>1 DEF Pos, Push, TypeOK, Slots, Inc
    <2>3. Pos(MaxEList - 1)' = head
      BY <2>1 DEF Pos, Push, TypeOK, Slots, Inc
    <2>4. Pending' = [i \in 1 .. MaxEList |->
                        IF i = MaxEList THEN e ELSE slot[Pos(i)]]
      <3>1. ASSUME NEW i \in 1 .. MaxEList
            PROVE  slot'[Pos(i - 1)'] = IF i = MaxEList THEN e ELSE slot[Pos(i)]
        <4>1. i - 1 \in 0 .. MaxEList - 1 /\ i - 1 + 1 = i
          OBVIOUS
        <4>2. head \in Slots /\ slot \in [Slots -> Entries]
          BY DEF TypeOK
        <4>3. i # MaxEList => Pos(i) \in Slots
          BY PendingShape
        <4> QED BY <4>1, <4>2, <4>3, <2>2, <2>3 DEF Push
      <3> QED BY <3>1, <2>1, <1>2 DEF Pending
    <2>5. /\ Tail(Pending) \in Seq(Entries)
          /\ Len(Tail(Pending)) = MaxEList - 1
          /\ \A i \in 1 .. MaxEList - 1 : Tail(Pending)[i] = Pending[i + 1]
      <3>1. Pending # <<>>
        BY <1>1, <1>2
      <3> QED BY <1>1, <1>2, <3>1, HeadTailProperties
    <2>6. \A i \in 1 .. MaxEList - 1 : Pending[i + 1] = slot[Pos(i)]
      <3> TAKE i \in 1 .. MaxEList - 1
      <3>1. i + 1 \in 1 .. Count /\ i + 1 - 1 = i
        BY <1>2
      <3> QED BY <3>1, PendingShape
    <2>7. Pending' = Append(Tail(Pending), e)
      <3>1. DOMAIN Pending' = 1 .. Len(Tail(Pending)) + 1
        BY <2>4, <2>5
      <3>2. Pending'[Len(Tail(Pending)) + 1] = e
        BY <2>4, <2>5
      <3>3. \A i \in 1 .. Len(Tail(Pending)) : Pending'[i] = Tail(Pending)[i]
        BY <2>4, <2>5, <2>6
      <3>4. Pending' = [i \in DOMAIN Pending' |-> Pending'[i]]
        BY <2>4
      <3>5. e \in Entries
        BY DEF Entries
      <3> HIDE DEF Pending
      <3> QED BY <2>5, <3>1, <3>2, <3>3, <3>4, <3>5, FunctionIsAppend
    <2> QED BY <1>1, <1>2, <2>7
  <1>3. CASE Count < MaxEList
    <2>1. Inc(head) # tail /\ tail' = tail /\ Count' = Count + 1
      BY <1>3 DEF Count, Push, TypeOK, Slots, Inc
    <2>2. \A i \in 0 .. Count :
             Pos(i)' = Pos(i) /\ (Pos(i) = head <=> i = Count)
      BY <2>1, <1>3 DEF Pos, Count, TypeOK, Slots
    <2>3. Pending' = [i \in 1 .. Count + 1 |->
                        IF i = Count + 1 THEN e ELSE Pending[i]]
      <3>1. ASSUME NEW i \in 1 .. Count + 1
            PROVE  slot'[Pos(i - 1)'] = IF i = Count + 1 THEN e ELSE Pending[i]
        <4>1. i - 1 \in 0 .. Count /\ i - 1 \in 0 .. MaxEList
          BY <1>1
        <4>2. head \in Slots /\ slot \in [Slots -> Entries]
          BY DEF TypeOK
        <4>3. Pos(i - 1) \in Slots
          BY <4>1, PendingShape
        <4>4. i # Count + 1 => Pending[i] = slot[Pos(i - 1)]
          BY <1>1, PendingShape
        <4>5. Pos(i - 1)' = Pos(i - 1) /\ (Pos(i - 1) = head <=> i = Count + 1)
          BY <4>1, <2>2, <1>1
        <4>6. slot' = [slot EXCEPT ![head] = e]
          BY DEF Push
        <4> QED BY <4>2, <4>3, <4>4, <4>5, <4>6
      <3> QED BY <3>1, <2>1 DEF Pending
    <2>4. Pending' = Append(Pending, e)
      <3>1. DOMAIN Pending' = 1 .. Len(Pending) + 1
        BY <1>1, <2>3
      <3>2. Pending'[Len(Pending) + 1] = e
        BY <1>1, <2>3
      <3>3. \A i \in 1 .. Len(Pending) : Pending'[i] = Pending[i]
        BY <1>1, <2>3
      <3> QED BY <1>1, <2>3, <3>1, <3>2, <3>3, FunctionIsAppend DEF Entries
    <2> QED BY <1>1, <1>3, <2>4
  <1> QED BY <1>1, <1>2, <1>3

-------------------------------------------------------------------------------
LEMMA InitInv == ListInit => Inv
  <1> SUFFICES ASSUME ListInit PROVE Inv
    OBVIOUS
  <1>1. TypeOK
    <2>1. 0 \in Slots
      BY DEF Slots
    <2> QED BY <2>1 DEF ListInit, TypeOK, Entries
  <1>2. Count = 0
    BY DEF ListInit, Count
  <1> QED BY <1>1, <1>2 DEF Inv, ListInit, PendingWritten, FlagCovers

LEMMA NextInv == Inv /\ [ListNext]_listvars => Inv'
  <1> SUFFICES ASSUME Inv, [ListNext]_listvars
               PROVE  Inv'
    OBVIOUS
  <1> USE DEF Inv
  <1>1. CASE PopEntry
    <2>1. TypeOK'
      <3>1. tail \in Slots /\ Inc(tail) \in Slots
        BY IncType DEF TypeOK
      <3>2. Pos(0) = tail /\ Count \in 1 .. MaxEList /\ 1 - 1 = 0
        BY <1>1 DEF Pos, Count, PopEntry, TypeOK, Slots
      <3>3. slot[tail] \in Errors
        BY <3>2 DEF PendingWritten, Pending
      <3> QED BY <1>1, <3>1, <3>3 DEF TypeOK, PopEntry
    <2>2. PendingWritten'
      <3>1. /\ Pending' = Tail(Pending) /\ Pending # <<>>
            /\ Len(Pending) = Count /\ Count \in 0 .. MaxEList
            /\ Pending \in Seq(Entries)
        BY <1>1, PopEntryShifts, PendingShape
      <3>2. Count' = Count - 1
        BY <1>1 DEF Count, PopEntry, TypeOK, Slots, Inc
      <3> QED BY <3>1, <3>2 DEF PendingWritten
    <2>3. FlagCovers'
      BY <1>1 DEF FlagCovers, PopEntry
    <2> QED BY <2>1, <2>2, <2>3
  <1>2. CASE PopNothing
    BY <1>2 DEF PopNothing, TypeOK, PendingWritten, FlagCovers, Pending, Count, Pos
  <1>3. ASSUME NEW e \in Errors, Push(e)
        PROVE  Inv'
    <2>1. TypeOK'
      <3>1. Inc(head) \in Slots /\ Inc(tail) \in Slots
        BY IncType DEF TypeOK
      <3> QED BY <1>3, <3>1 DEF TypeOK, Push, Entries
    <2>2. PendingWritten'
      <3>1. /\ Pending' = Append(IF Len(Pending) = MaxEList THEN Tail(Pending)
                                                      ELSE Pending, e)
            /\ Len(Pending) = Count /\ Count \in 0 .. MaxEList
            /\ Pending \in Seq(Entries)
        BY <1>3, PushAppends, PendingShape
      <3>2. Len(Pending') = Count'
        <4>1. Count' \in 0 .. MaxEList
          <5>1. /\ Inc(head) \in Slots /\ Inc(tail) \in Slots /\ tail \in Slots
            BY IncType DEF TypeOK
          <5>2. head' \in 0 .. MaxEList /\ tail' \in 0 .. MaxEList
            BY <1>3, <5>1 DEF Push, Slots
          <5>3. Count' = IF head' >= tail' THEN head' - tail'
                                           ELSE head' + MaxEList + 1 - tail'
            BY DEF Count
          <5>4. ASSUME NEW h \in 0 .. MaxEList, NEW t \in 0 .. MaxEList
                PROVE  (IF h >= t THEN h - t ELSE h + MaxEList + 1 - t)
                          \in 0 .. MaxEList
            OBVIOUS
          <5> QED BY <5>2, <5>3, <5>4
        <4> QED BY <4>1 DEF Pending
      <3>3. Pending \in Seq(Errors)
        BY <3>1 DEF PendingWritten
      <3>4. Pending' \in Seq(Errors)
        BY <3>1, <3>3, <1>3
      <3> QED BY <3>2, <3>4 DEF PendingWritten
    <2>3. FlagCovers'
      BY <1>3 DEF FlagCovers, Push
    <2> QED BY <2>1, <2>2, <2>3
  <1>4. CASE UNCHANGED listvars
    BY <1>4 DEF listvars, TypeOK, PendingWritten, FlagCovers, Pending, Count, Pos
  <1> QED BY <1>1, <1>2, <1>3, <1>4 DEF ListNext

\* What every caller of the list relies on: the ring stays in its array, a pop
\* returns only what was pushed, and a lowered EcatError means an empty list.
THEOREM Invariance == ListSpec => []Inv
  BY InitInv, NextInv, PTL DEF ListSpec

\* The indices of the error list never leave Error[] (ecx_pusherror,
\* ecx_poperror), for every value of EC_MAXELIST.
THEOREM TypeCorrect == ListSpec => []TypeOK
  <1>1. Inv => TypeOK
    BY DEF Inv
  <1> QED BY InitInv, NextInv, <1>1, PTL DEF ListSpec

\* A slot that ecx_poperror can hand out was written by ecx_pusherror.
THEOREM OnlyReportedErrors == ListSpec => []PendingWritten
  <1>1. Inv => PendingWritten
    BY DEF Inv
  <1> QED BY InitInv, NextInv, <1>1, PTL DEF ListSpec

\* EcatError is never down while the list holds an error.
THEOREM FlagIsReliable == ListSpec => []FlagCovers
  <1>1. Inv => FlagCovers
    BY DEF Inv
  <1> QED BY InitInv, NextInv, <1>1, PTL DEF ListSpec

\* The ring is a queue that keeps the last EC_MAXELIST errors in order:
\* initial states map to initial states, every step to a step or a stutter.
THEOREM Implements == ListSpec => ImplementsQueue
  <1>1. ListInit => Queue!Init
    BY DEF ListInit, Queue!Init, Pending, Count
  <1>2. Inv /\ [ListNext]_listvars => [Queue!Next]_(Queue!vars)
    <2> SUFFICES ASSUME Inv, [ListNext]_listvars
                 PROVE  [Queue!Next]_(Queue!vars)
      OBVIOUS
    <2>0. /\ TypeOK /\ Len(Pending) = Count /\ Count \in 0 .. MaxEList
          /\ Pending \in Seq(Entries)
      BY PendingShape DEF Inv
    <2>1. CASE PopEntry
      <3>1. Queue!Pop
        BY <2>0, <2>1, PopEntryShifts DEF Queue!Pop, PopEntry
      <3> QED BY <3>1 DEF Queue!Next
    <2>2. CASE PopNothing
      <3>1. Pending = <<>> /\ Pending' = Pending
        BY <2>0, <2>2 DEF PopNothing, Count, Pending, TypeOK, Slots, Pos
      <3>2. Queue!PopEmpty
        BY <2>2, <3>1 DEF Queue!PopEmpty, PopNothing
      <3> QED BY <3>2 DEF Queue!Next
    <2>3. ASSUME NEW e \in Errors, Push(e)
          PROVE  Queue!Next
      <3>1. Queue!Push(e)
        BY <2>0, <2>3, PushAppends DEF Queue!Push, Push
      <3> QED BY <3>1 DEF Queue!Next
    <2>4. CASE UNCHANGED listvars
      BY <2>4 DEF listvars, Queue!vars, Pending, Count, Pos
    <2> QED BY <2>1, <2>2, <2>3, <2>4 DEF ListNext
  <1> QED BY <1>1, <1>2, InitInv, NextInv, PTL
          DEF ListSpec, ImplementsQueue, Queue!Spec
===============================================================================
