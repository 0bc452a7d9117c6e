----------------------------- MODULE Port_proofs ------------------------------
(* The port of nicdrv.c.  First the cable redundancy for any number of slaves  *)
(* (Redundancy): what ecx_srconfirm hands to its caller is the command with    *)
(* its own work counter, no slave has executed it twice, and every slave has   *)
(* executed it when nothing but one cable fails.  Then who may use which frame *)
(* buffer, and whose answer it holds, for any number of threads and buffers    *)
(* (Nicdrv).                                                                   *)
EXTENDS Nicdrv, Redundancy, FiniteSetTheorems, FunctionTheorems,
        WellFoundedInduction, TLAPS

USE NAssumption, ChangeAssumption DEF EC_NOFRAME

\* A frame as it can be on its way: only the command carries the primary MAC.
RedFrames ==
    {f \in [mac : Sides, kind : {"command", "dummy"}, by : Seq(1 .. N)] :
        f.mac = "prim" <=> f.kind = "command"}

Increasing(by) == \A i, j \in 1 .. Len(by) : i < j => by[i] < by[j]

\* Types, and the work counter of a side is that of its buffer.
TypeInv ==
    /\ RedTypeOK
    /\ sock \in [Sides -> Seq(RedFrames)]
    /\ wkc \in [Sides -> {EC_NOFRAME} \cup Nat]
    /\ rx \in [Sides -> RedFrames \cup {NoFrame}]
    /\ \A s \in Sides : wkc[s] > EC_NOFRAME => wkc[s] = Len(rx[s].by) /\ rx[s] \in RedFrames
    /\ redpc = "outsec" => wkc = [s \in Sides |-> EC_NOFRAME]

\* A frame that has come back to the primary NIC: the dummy has passed no slave,
\* the command the slaves up to some cable, which was the first one cut.  The
\* line c has changed n times since the start.
FirstCut(k, c, n) ==
    /\ n = 0 => k \in c /\ \A x \in c : x >= k
    /\ n = 1 => k \in c \/ \A x \in c : x >= k
Back(f, c, n) ==
    /\ f.kind = "dummy" => f.by = <<>>
    /\ f.kind = "command" =>
         \E k \in 0 .. N : f.by = Run(1, k) /\ (k > 0 => FirstCut(k, c, n))
BackInv ==
    /\ redpc \in {"outprim", "outsec", "wait"} => txby = <<>>
    /\ redpc = "return" /\ wkc["prim"] <= EC_NOFRAME => txby = <<>>
    /\ redpc = "rewait" /\ wkc["prim"] <= EC_NOFRAME => txby = <<>>
    /\ \A i \in 1 .. Len(sock["prim"]) : Back(sock["prim"][i], cut, changes)
    /\ redpc = "wait" /\ wkc["prim"] > EC_NOFRAME => Back(rx["prim"], cut, changes)

\* Slaves have passed a frame in their order.
Ordered == {f \in RedFrames : Increasing(f.by)}
OrderInv ==
    changes < 2 => /\ sock \in [Sides -> Seq(Ordered)]
                   /\ rx \in [Sides -> Ordered \cup {NoFrame}]

\* While an attempt has no frames of an earlier one, the dummy is the last frame
\* that comes in at the secondary NIC.
DummyInv ==
    ~leftover =>
      /\ redpc = "outsec" \/ redpc = "rewait"
           \/ (redpc = "wait" /\ wkc["sec"] > EC_NOFRAME /\ rx["sec"].mac = "sec") =>
           \A i \in 1 .. Len(sock["sec"]) : sock["sec"][i].kind = "command"
      /\ redpc = "wait" =>
           \A i \in 1 .. Len(sock["sec"]) - 1 : sock["sec"][i].kind = "command"
      /\ redpc \in {"rewait", "return", "done"} /\ wkc["prim"] > 0 => rx["prim"].kind = "command"

\* What comes in on each side when the line does not change and no frame gets
\* lost: with one cable cut, each NIC gets its own frame back.
Command(b) == Frame("prim", "command", b)
Dummy(b) == Frame("sec", "dummy", b)
Expected(side) ==
    IF side = "prim"
    THEN CASE cut = {} -> <<Dummy(<<>>)>>
           [] 0 \in cut -> <<>>
           [] OTHER -> <<Command(Run(1, Min(cut)))>>
    ELSE CASE cut = {} -> <<Command(Run(1, N))>>
           [] N \in cut -> <<>>
           [] OTHER -> <<Dummy(Run(Max(cut) + 1, N))>>
QuietInv ==
    changes = 0 /\ ~missed =>
      /\ cut = {} \/ \E k \in Cables : cut = {k}
      /\ redpc = "outprim" => \A s \in Sides : sock[s] = <<>>
      /\ redpc = "outsec" =>
           /\ sock["prim"] = IF cut = {} THEN <<>> ELSE Expected("prim")
           /\ sock["sec"] = IF cut = {} THEN Expected("sec") ELSE <<>>
      /\ redpc = "wait" =>
           \A s \in Sides :
             \/ sock[s] = Expected(s) /\ wkc[s] = EC_NOFRAME
             \/ sock[s] = <<>> /\ Expected(s) = <<rx[s]>> /\ wkc[s] = Len(rx[s].by)
      /\ redpc = "rewait" => sock["sec"] = <<Command(Run(1, N))>>
      /\ redpc \in {"return", "done"} => rx["prim"] = Command(Run(1, N)) /\ wkc["prim"] = N

-------------------------------------------------------------------------------
(* Cables and runs of slaves *)

\* A set of numbers that is not empty has a least one, as the numbers are well
\* founded: Min chooses it.
LEMMA MinIs ==
  ASSUME NEW S \in SUBSET Nat, S # {}
  PROVE  Min(S) \in S /\ \A y \in S : Min(S) <= y
  <1>1. IsWellFoundedOn({p \in Nat \X Nat : p[1] < p[2]}, Nat)
    BY NatLessThanWellFounded DEF OpToRel
  <1>2. PICK x \in S : \A y \in S : ~(<<y, x>> \in {p \in Nat \X Nat : p[1] < p[2]})
    BY <1>1, WFMin
  <1>3. ASSUME NEW y \in S
        PROVE  x <= y
    <2>1. x \in Nat /\ y \in Nat
      OBVIOUS
    <2>2. ~(y < x)
      BY <1>2, <2>1
    <2> QED BY <2>1, <2>2
  <1> QED BY <1>3 DEF Min

\* A set of cables has a greatest one: the least as counted from the other end.
LEMMA MaxIs ==
  ASSUME NEW S \in SUBSET Cables, S # {}
  PROVE  Max(S) \in S /\ \A y \in S : Max(S) >= y
  <1> DEFINE T == {N - x : x \in S}
  <1>1. T \in SUBSET Nat /\ T # {}
    <2>1. \A x \in S : x \in 0 .. N /\ N \in Nat
      BY DEF Cables
    <2>2. \A x \in S : N - x \in Nat
      BY <2>1
    <2> QED BY <2>2
  <1>2. PICK t \in T : \A y \in T : t <= y
    <2> HIDE DEF T
    <2> QED BY <1>1, MinIs
  <1>3. PICK x \in S : t = N - x
    BY <1>2
  <1>4. \A y \in S : x >= y
    <2>1. ASSUME NEW y \in S
          PROVE  x >= y
      <3>1. N - y \in T /\ x \in Int /\ y \in Int
        BY <1>3 DEF Cables
      <3> QED BY <1>2, <1>3, <3>1
    <2> QED BY <2>1
  <1> QED BY <1>3, <1>4 DEF Max

\* A run of slaves, and two of them one after the other.
LEMMA RunIs ==
  ASSUME NEW a \in 1 .. N + 1, NEW b \in 0 .. N
  PROVE  /\ Run(a, b) \in Seq(1 .. N)
         /\ Len(Run(a, b)) = IF b < a THEN 0 ELSE b - a + 1
         /\ \A i \in 1 .. Len(Run(a, b)) : Run(a, b)[i] = a + i - 1
         /\ Increasing(Run(a, b))
  <1> DEFINE l == IF b < a THEN 0 ELSE b - a + 1
  <1>1. l \in Nat /\ \A i \in 1 .. l : a + i - 1 \in 1 .. N
    OBVIOUS
  <1>2. Run(a, b) = [i \in 1 .. l |-> a + i - 1]
    BY DEF Run
  <1>3. Run(a, b) \in Seq(1 .. N) /\ Len(Run(a, b)) = l
    <2> HIDE DEF l
    <2> QED BY <1>1, <1>2
  <1>4. \A i \in 1 .. Len(Run(a, b)) : Run(a, b)[i] = a + i - 1
    BY <1>2, <1>3
  <1>5. Increasing(Run(a, b))
    <2> HIDE DEF l
    <2> QED BY <1>1, <1>3, <1>4 DEF Increasing
  <1> QED BY <1>3, <1>4, <1>5

LEMMA RunFrom ==
  ASSUME NEW m \in 0 .. N
  PROVE  /\ Run(m + 1, N) \in Seq(1 .. N) /\ Len(Run(m + 1, N)) = N - m
         /\ \A i \in 1 .. N - m : Run(m + 1, N)[i] = m + i
  <1>1. m + 1 \in 1 .. N + 1 /\ N \in 0 .. N
    OBVIOUS
  <1>2. /\ Run(m + 1, N) \in Seq(1 .. N)
        /\ Len(Run(m + 1, N)) = IF N < m + 1 THEN 0 ELSE N - (m + 1) + 1
        /\ \A i \in 1 .. Len(Run(m + 1, N)) : Run(m + 1, N)[i] = (m + 1) + i - 1
    BY <1>1, RunIs
  <1> QED BY <1>2

LEMMA RunTo ==
  ASSUME NEW k \in 0 .. N
  PROVE  /\ Run(1, k) \in Seq(1 .. N) /\ Len(Run(1, k)) = k
         /\ \A i \in 1 .. k : Run(1, k)[i] = i
  <1>1. 1 \in 1 .. N + 1
    OBVIOUS
  <1>2. /\ Run(1, k) \in Seq(1 .. N)
        /\ Len(Run(1, k)) = IF k < 1 THEN 0 ELSE k - 1 + 1
        /\ \A i \in 1 .. Len(Run(1, k)) : Run(1, k)[i] = 1 + i - 1
    BY <1>1, RunIs
  <1> QED BY <1>2

LEMMA Joined ==
  ASSUME NEW S, NEW a \in Seq(S), NEW b \in Seq(S)
  PROVE  /\ a \o b \in Seq(S) /\ Len(a \o b) = Len(a) + Len(b)
         /\ \A i \in 1 .. Len(a) + Len(b) :
               (a \o b)[i] = IF i <= Len(a) THEN a[i] ELSE b[i - Len(a)]
  OBVIOUS

LEMMA JoinIs ==
  ASSUME NEW k \in 0 .. N, NEW m \in 0 .. N, k <= m
  PROVE  /\ Run(1, k) \o Run(m + 1, N) \in Seq(1 .. N)
         /\ Increasing(Run(1, k) \o Run(m + 1, N))
         /\ k = m => Run(1, k) \o Run(m + 1, N) = Run(1, N)
  <1> DEFINE r == Run(1, k)  t == Run(m + 1, N)  j == r \o t
  <1>1. /\ r \in Seq(1 .. N) /\ Len(r) = k /\ \A i \in 1 .. k : r[i] = i
    BY RunTo
  <1>2. /\ t \in Seq(1 .. N) /\ Len(t) = N - m /\ \A i \in 1 .. N - m : t[i] = m + i
    BY RunFrom
  <1> HIDE DEF r, t
  <1>3. j \in Seq(1 .. N) /\ Len(j) = k + (N - m)
    BY <1>1, <1>2, Joined
  <1>4. \A i \in 1 .. Len(j) : j[i] = IF i <= k THEN i ELSE m + (i - k)
    <2>1. ASSUME NEW i \in 1 .. Len(j)
          PROVE  j[i] = IF i <= k THEN i ELSE m + (i - k)
      <3>0. j[i] = IF i <= Len(r) THEN r[i] ELSE t[i - Len(r)]
        BY <1>1, <1>2, <1>3, Joined
      <3>1. CASE i <= k
        BY <1>1, <1>3, <3>0, <3>1
      <3>2. CASE i > k
        <4>1. j[i] = t[i - k] /\ i - k \in 1 .. N - m
          BY <1>1, <1>2, <1>3, <3>0, <3>2
        <4> QED BY <1>2, <3>2, <4>1
      <3> QED BY <1>3, <3>1, <3>2
    <2> QED BY <2>1
  <1>5. Increasing(j)
    <2> HIDE DEF j
    <2>1. ASSUME NEW a \in 1 .. Len(j), NEW b \in 1 .. Len(j), a < b
          PROVE  j[a] < j[b]
      BY <1>3, <1>4, <2>1
    <2> QED BY <2>1 DEF Increasing
  <1>6. ASSUME k = m
        PROVE  j = Run(1, N)
    <2>1. Run(1, N) \in Seq(1 .. N) /\ Len(Run(1, N)) = N /\ \A i \in 1 .. N : Run(1, N)[i] = i
      BY RunTo
    <2>2. Len(j) = N /\ \A i \in 1 .. N : j[i] = i
      BY <1>3, <1>4, <1>6
    <2> HIDE DEF j
    <2> QED BY <1>3, <2>1, <2>2
  <1> QED BY <1>3, <1>5, <1>6 DEF r, t

\* A frame with one frame more, without its first, and without any one.
LEMMA Appended ==
  ASSUME NEW S, NEW q \in Seq(S), NEW f \in S
  PROVE  /\ Append(q, f) \in Seq(S) /\ Len(Append(q, f)) = Len(q) + 1
         /\ \A i \in 1 .. Len(q) + 1 :
               Append(q, f)[i] = IF i = Len(q) + 1 THEN f ELSE q[i]
  OBVIOUS

LEMMA Taken ==
  ASSUME NEW S, NEW q \in Seq(S), q # <<>>
  PROVE  /\ Head(q) = q[1] /\ q[1] \in S /\ Len(q) \in Nat \ {0}
         /\ Tail(q) \in Seq(S) /\ Len(Tail(q)) = Len(q) - 1
         /\ \A i \in 1 .. Len(q) - 1 : Tail(q)[i] = q[i + 1]
  OBVIOUS

LEMMA Removed ==
  ASSUME NEW S, NEW q \in Seq(S), NEW n \in 1 .. Len(q)
  PROVE  /\ RemoveAt(q, n) \in Seq(S) /\ Len(RemoveAt(q, n)) = Len(q) - 1
         /\ \A i \in 1 .. Len(q) - 1 :
               RemoveAt(q, n)[i] = IF i < n THEN q[i] ELSE q[i + 1]
  <1> DEFINE a == SubSeq(q, 1, n - 1)  b == SubSeq(q, n + 1, Len(q))
  <1>1. a \in Seq(S) /\ Len(a) = n - 1 /\ \A i \in 1 .. n - 1 : a[i] = q[i]
    OBVIOUS
  <1>2. b \in Seq(S) /\ Len(b) = Len(q) - n /\ \A i \in 1 .. Len(q) - n : b[i] = q[n + i]
    OBVIOUS
  <1>3. RemoveAt(q, n) = a \o b
    BY DEF RemoveAt
  <1> HIDE DEF a, b
  <1>4. a \o b \in Seq(S) /\ Len(a \o b) = Len(q) - 1
    <2>1. a \o b \in Seq(S) /\ Len(a \o b) = Len(a) + Len(b)
      BY <1>1, <1>2, Joined
    <2> QED BY <1>1, <1>2, <2>1
  <1>5. ASSUME NEW i \in 1 .. Len(q) - 1
        PROVE  (a \o b)[i] = IF i < n THEN q[i] ELSE q[i + 1]
    <2>0. (a \o b)[i] = IF i <= Len(a) THEN a[i] ELSE b[i - Len(a)]
      BY <1>1, <1>2, Joined
    <2>1. CASE i < n
      BY <1>1, <2>0, <2>1
    <2>2. CASE i >= n
      <3>1. (a \o b)[i] = b[i - (n - 1)] /\ i - (n - 1) \in 1 .. Len(q) - n
        BY <1>1, <2>0, <2>2
      <3>2. b[i - (n - 1)] = q[n + (i - (n - 1))] /\ n + (i - (n - 1)) = i + 1
        BY <1>2, <3>1
      <3> QED BY <2>2, <3>1, <3>2
    <2>3. i < n \/ i >= n
      OBVIOUS
    <2> QED BY <2>1, <2>2, <2>3
  <1> QED BY <1>3, <1>4, <1>5
-------------------------------------------------------------------------------
(* RedFrames on their way *)

Put(side, f) == sock' = [sock EXCEPT ![side] = Append(@, f)]

\* The command runs to the first cut cable and back, or to the other NIC.
LEMMA PrimTravels ==
  ASSUME cut \in SUBSET Cables, Travel("prim", Command(<<>>))
  PROVE  \/ cut = {} /\ Put("sec", Command(Run(1, N)))
         \/ 0 \in cut /\ sock' = sock
         \/ \E k \in 1 .. N : /\ k \in cut /\ \A c \in cut : c >= k
                              /\ k = Min(cut) /\ 0 \notin cut
                              /\ Put("prim", Command(Run(1, k)))
  <1>1. ASSUME NEW k \in 0 .. N
        PROVE  [Command(<<>>) EXCEPT !.by = @ \o Run(1, k)] = Command(Run(1, k))
    <2>1. Run(1, k) \in Seq(1 .. N)
      BY RunTo
    <2>2. <<>> \o Run(1, k) = Run(1, k)
      BY <2>1
    <2>3. [Command(<<>>) EXCEPT !.by = @ \o Run(1, k)] = Command(<<>> \o Run(1, k))
      BY DEF Command, Frame
    <2> QED BY <2>2, <2>3
  <1>2. CASE cut = {}
    <2>1. Arrive("sec", [Command(<<>>) EXCEPT !.by = @ \o Run(1, N)])
      BY <1>2 DEF Travel
    <2>2. N \in 0 .. N
      OBVIOUS
    <2>3. [Command(<<>>) EXCEPT !.by = @ \o Run(1, N)] = Command(Run(1, N))
      BY <1>1, <2>2
    <2> QED BY <1>2, <2>1, <2>3 DEF Arrive, Put
  <1>3. CASE 0 \in cut
    BY <1>3 DEF Travel
  <1>4. CASE cut # {} /\ 0 \notin cut
    <2>1. cut \in SUBSET Nat
      BY DEF Cables
    <2>2. Min(cut) \in cut /\ \A c \in cut : Min(cut) <= c
      BY <1>4, <2>1, MinIs
    <2> DEFINE k == Min(cut)
    <2>6. k \in cut /\ k \in 0 .. N /\ \A c \in cut : k <= c /\ c \in Nat
      BY <2>1, <2>2 DEF Cables
    <2> HIDE DEF k
    <2>7. k # 0
      BY <1>4, <2>6
    <2>3. k \in 1 .. N /\ \A c \in cut : c >= k
      BY <2>6, <2>7
    <2>4. Arrive("prim", [Command(<<>>) EXCEPT !.by = @ \o Run(1, Min(cut))])
      BY <1>4 DEF Travel
    <2>8. [Command(<<>>) EXCEPT !.by = @ \o Run(1, k)] = Command(Run(1, k))
      BY <1>1, <2>6
    <2>5. Put("prim", Command(Run(1, k)))
      BY <2>4, <2>8 DEF Arrive, Put, k
    <2> QED BY <1>4, <2>3, <2>5, <2>6 DEF k
  <1> QED BY <1>2, <1>3, <1>4

\* A frame from the secondary NIC runs to the last cut cable and is processed on
\* its way back, or arrives at the primary NIC as it was sent.
LEMMA SecTravels ==
  ASSUME cut \in SUBSET Cables, NEW f, Travel("sec", f)
  PROVE  \/ cut = {} /\ Put("prim", f)
         \/ N \in cut /\ sock' = sock
         \/ \E m \in 0 .. N - 1 : /\ m \in cut /\ \A c \in cut : m >= c
                                  /\ m = Max(cut) /\ N \notin cut
                                  /\ Put("sec", [f EXCEPT !.by = @ \o Run(m + 1, N)])
  <1>1. CASE cut = {}
    BY <1>1 DEF Travel, Arrive, Put
  <1>2. CASE N \in cut
    BY <1>2 DEF Travel
  <1>3. CASE cut # {} /\ N \notin cut
    <2>1. Max(cut) \in cut /\ \A c \in cut : Max(cut) >= c
      BY <1>3, MaxIs
    <2>2. Max(cut) \in 0 .. N - 1
      <3>1. Max(cut) \in 0 .. N /\ Max(cut) # N
        BY <1>3, <2>1 DEF Cables
      <3> QED BY <3>1
    <2>3. Put("sec", [f EXCEPT !.by = @ \o Run(Max(cut) + 1, N)])
      BY <1>3 DEF Travel, Arrive, Put
    <2> QED BY <1>3, <2>1, <2>2, <2>3
  <1> QED BY <1>1, <1>2, <1>3

\* The dummy that comes back to the secondary NIC.
LEMMA DummyBack ==
  ASSUME NEW m \in 0 .. N - 1
  PROVE  /\ [Dummy(<<>>) EXCEPT !.by = @ \o Run(m + 1, N)] = Dummy(Run(m + 1, N))
         /\ Dummy(Run(m + 1, N)) \in RedFrames /\ Increasing(Run(m + 1, N))
  <1>1. Run(m + 1, N) \in Seq(1 .. N) /\ Increasing(Run(m + 1, N))
    <2>1. m + 1 \in 1 .. N + 1 /\ N \in 0 .. N
      OBVIOUS
    <2> QED BY <2>1, RunIs
  <1>2. <<>> \o Run(m + 1, N) = Run(m + 1, N)
    BY <1>1
  <1>3. [Dummy(<<>>) EXCEPT !.by = @ \o Run(m + 1, N)] = Dummy(<<>> \o Run(m + 1, N))
    BY DEF Dummy, Frame
  <1> QED BY <1>1, <1>2, <1>3 DEF Dummy, Frame, RedFrames, Sides

\* Commands and dummies are frames.
LEMMA CommandIs ==
  ASSUME NEW b \in Seq(1 .. N)
  PROVE  /\ Command(b) \in RedFrames /\ Command(b).mac = "prim" /\ Command(b).kind = "command"
         /\ Command(b).by = b
  BY DEF Command, Frame, RedFrames, Sides

LEMMA DummyIs ==
  ASSUME NEW b \in Seq(1 .. N)
  PROVE  /\ Dummy(b) \in RedFrames /\ Dummy(b).mac = "sec" /\ Dummy(b).kind = "dummy"
         /\ Dummy(b).by = b
  BY DEF Dummy, Frame, RedFrames, Sides

\* A frame is processed.
LEMMA Extended ==
  ASSUME NEW b, NEW r
  PROVE  [Command(b) EXCEPT !.by = r] = Command(r)
  BY DEF Command, Frame

\* The resent command that comes back to the secondary NIC.
LEMMA ResentBack ==
  ASSUME NEW b \in Seq(1 .. N), NEW m \in 0 .. N - 1
  PROVE  /\ [Command(b) EXCEPT !.by = @ \o Run(m + 1, N)] = Command(b \o Run(m + 1, N))
         /\ b \o Run(m + 1, N) \in Seq(1 .. N)
  <1>1. Run(m + 1, N) \in Seq(1 .. N)
    BY RunFrom
  <1>2. b \o Run(m + 1, N) \in Seq(1 .. N)
    BY <1>1, Joined
  <1>3. [Command(b) EXCEPT !.by = @ \o Run(m + 1, N)] = Command(b \o Run(m + 1, N))
    <2>1. Command(b).by = b
      BY DEF Command, Frame
    <2>2. [Command(b) EXCEPT !.by = Command(b).by \o Run(m + 1, N)]
             = Command(b \o Run(m + 1, N))
      BY <2>1, Extended
    <2> QED BY <2>2
  <1> QED BY <1>2, <1>3

\* What ecx_inframe does on a side.
LEMMA Inframed ==
  ASSUME TypeInv, NEW side \in Sides, RedInframe(side)
  PROVE  /\ wkc[side] = EC_NOFRAME /\ sock[side] # <<>> /\ sock[side] \in Seq(RedFrames)
         /\ rx' = [rx EXCEPT ![side] = sock[side][1]]
         /\ wkc' = [wkc EXCEPT ![side] = Len(sock[side][1].by)]
         /\ sock' = [sock EXCEPT ![side] = Tail(@)]
         /\ sock[side][1] \in RedFrames
  BY Taken DEF RedInframe, TypeInv, Wkc, Sides

-------------------------------------------------------------------------------
(* The invariants *)

LEMMA FrameLen ==
  ASSUME NEW f \in RedFrames
  PROVE  f.by \in Seq(1 .. N) /\ Len(f.by) \in Nat /\ f # NoFrame /\ f.mac \in Sides
  BY DEF RedFrames, NoFrame, Frame, Sides

LEMMA PutType ==
  ASSUME NEW S, sock \in [Sides -> Seq(S)], NEW side \in Sides, NEW f \in S, Put(side, f)
  PROVE  sock' \in [Sides -> Seq(S)]
  BY DEF Put

LEMMA RedTypeStep ==
  ASSUME TypeInv, BackInv, [RedNext]_redvars
  PROVE  TypeInv'
  <1> USE DEF TypeInv, RedTypeOK
  <1>0. /\ "prim" \in Sides /\ "sec" \in Sides /\ <<>> \in Seq(1 .. N)
        /\ cut \in SUBSET Cables
    BY DEF Sides
  <1>1. CASE OutPrimary
    <2>1. /\ Travel("prim", Command(<<>>)) /\ redpc' = "outsec"
          /\ wkc' = [s \in Sides |-> EC_NOFRAME] /\ leftover' \in BOOLEAN
          /\ UNCHANGED <<line, try, txby, rx, missed>>
      BY <1>1 DEF OutPrimary, BackInv, Command
    <2>2. Command(Run(1, N)) \in RedFrames /\ \A k \in 1 .. N : Command(Run(1, k)) \in RedFrames
      BY RunTo, CommandIs
    <2>3. sock' \in [Sides -> Seq(RedFrames)]
      BY <1>0, <2>1, <2>2, PrimTravels, PutType
    <2> QED BY <2>1, <2>3 DEF line
  <1>2. CASE OutSecondary
    <2>1. /\ Travel("sec", Dummy(<<>>)) /\ redpc' = "wait"
          /\ UNCHANGED <<line, try, txby, wkc, rx, history>>
      BY <1>2 DEF OutSecondary, Dummy
    <2>2. Dummy(<<>>) \in RedFrames
      BY <1>0, DummyIs
    <2>3. sock' \in [Sides -> Seq(RedFrames)]
      <3>1. CASE Put("prim", Dummy(<<>>))
        BY <1>0, <2>2, <3>1, PutType
      <3>2. CASE sock' = sock
        BY <3>2
      <3>3. ASSUME NEW m \in 0 .. N - 1,
                   Put("sec", [Dummy(<<>>) EXCEPT !.by = @ \o Run(m + 1, N)])
            PROVE  sock' \in [Sides -> Seq(RedFrames)]
        BY <1>0, <3>3, DummyBack, PutType
      <3> QED BY <1>0, <2>1, <3>1, <3>2, <3>3, SecTravels
    <2> QED BY <2>1, <2>3 DEF line, history
  <1>3. CASE WaitBoth
    <2>1. PICK side \in Sides : RedInframe(side)
      BY <1>3 DEF WaitBoth
    <2>2. redpc = "wait" /\ UNCHANGED <<line, redpc, try, txby, history>>
      BY <1>3 DEF WaitBoth
    <2>3. /\ rx' = [rx EXCEPT ![side] = sock[side][1]]
          /\ wkc' = [wkc EXCEPT ![side] = Len(sock[side][1].by)]
          /\ sock' = [sock EXCEPT ![side] = Tail(@)]
          /\ sock[side][1] \in RedFrames /\ sock[side] # <<>> /\ sock[side] \in Seq(RedFrames)
      BY <2>1, Inframed
    <2>4. Tail(sock[side]) \in Seq(RedFrames) /\ Len(sock[side][1].by) \in Nat
      BY <2>3, Taken, FrameLen
    <2>5. sock' \in [Sides -> Seq(RedFrames)]
      BY <2>3, <2>4
    <2>6. rx' \in [Sides -> RedFrames \cup {NoFrame}] /\ wkc' \in [Sides -> {EC_NOFRAME} \cup Nat]
      BY <2>3, <2>4
    <2>7. \A s \in Sides : wkc'[s] > EC_NOFRAME => wkc'[s] = Len(rx'[s].by) /\ rx'[s] \in RedFrames
      BY <2>3, <2>4
    <2>8. \A s \in Sides : rx'[s].mac \in Sides \cup {"none"} /\ (rx'[s] \in RedFrames => rx'[s] # NoFrame)
      BY <2>6, FrameLen DEF NoFrame, Frame
    <2> QED BY <2>2, <2>5, <2>6, <2>7, <2>8 DEF line, history
  <1>4. CASE Normal
    <2>1. /\ rx' = [rx EXCEPT !["prim"] = rx["sec"]] /\ wkc' = [wkc EXCEPT !["prim"] = wkc["sec"]]
          /\ redpc' = "return" /\ missed' \in BOOLEAN /\ UNCHANGED <<line, sock, try, txby, leftover>>
      BY <1>4 DEF Normal, NoteMissed
    <2> QED BY <1>0, <2>1 DEF line
  <1>5. CASE Resend
    <2>1. /\ txby' = (IF Came("prim") = "prim" THEN rx["prim"].by ELSE txby)
          /\ Travel("sec", Command(txby'))
          /\ wkc' = [wkc EXCEPT !["sec"] = EC_NOFRAME]
          /\ redpc' = "rewait" /\ missed' \in BOOLEAN
          /\ UNCHANGED <<line, try, rx, leftover>>
      BY <1>5 DEF Resend, NoteMissed, Command
    <2>2. txby' \in Seq(1 .. N)
      <3>1. CASE Came("prim") = "prim"
        BY <1>0, <2>1, <3>1, FrameLen DEF Came
      <3> QED BY <2>1, <3>1
    <2>3. Command(txby') \in RedFrames
      BY <2>2, CommandIs
    <2>4. ASSUME NEW m \in 0 .. N - 1
          PROVE  [Command(txby') EXCEPT !.by = @ \o Run(m + 1, N)] \in RedFrames
      <3>1. /\ [Command(txby') EXCEPT !.by = @ \o Run(m + 1, N)] = Command(txby' \o Run(m + 1, N))
            /\ txby' \o Run(m + 1, N) \in Seq(1 .. N)
        BY <2>2, ResentBack
      <3> QED BY <3>1, CommandIs
    <2>5. sock' \in [Sides -> Seq(RedFrames)]
      BY <1>0, <2>1, <2>3, <2>4, SecTravels, PutType
    <2>6. wkc' \in [Sides -> {EC_NOFRAME} \cup Nat]
      BY <1>0, <2>1
    <2>7. \A s \in Sides : wkc'[s] > EC_NOFRAME => wkc'[s] = wkc[s] /\ wkc[s] > EC_NOFRAME
      BY <1>0, <2>1
    <2> QED BY <1>0, <2>1, <2>2, <2>5, <2>6, <2>7 DEF line
  <1>6. CASE NoRepair \/ RewaitOver
    <2>1. /\ redpc' = "return" /\ missed' \in BOOLEAN
          /\ UNCHANGED <<line, sock, try, txby, wkc, rx, leftover>>
      BY <1>6 DEF NoRepair, RewaitOver, NoteMissed
    <2> QED BY <2>1 DEF line
  <1>7. CASE Rewait
    <2> DEFINE h == sock["sec"][1]
    <2>1. /\ sock["sec"] # <<>> /\ sock["sec"] \in Seq(RedFrames)
          /\ sock' = [sock EXCEPT !["sec"] = Tail(@)] /\ redpc' = "return"
          /\ UNCHANGED <<line, try, txby, history>>
      BY <1>0, <1>7 DEF Rewait
    <2>2. h \in RedFrames /\ Tail(sock["sec"]) \in Seq(RedFrames) /\ Len(h.by) \in Nat
      BY <2>1, Taken, FrameLen
    <2>3. rx' = [s \in Sides |-> h] /\ wkc' = [s \in Sides |-> Len(h.by)]
      BY <1>7, <2>1, Taken DEF Rewait, Wkc
    <2> HIDE DEF h
    <2>4. sock' \in [Sides -> Seq(RedFrames)]
      BY <2>1, <2>2
    <2>5. h # NoFrame /\ h.mac \in Sides
      BY <2>2, FrameLen
    <2> QED BY <2>1, <2>2, <2>3, <2>4, <2>5 DEF line, history
  <1>8. CASE RetryConfirm \/ Done
    BY <1>8 DEF RetryConfirm, Done, line, history
  <1>9. CASE CutCable \/ MendCable
    <2>1. cut' \subseteq Cables /\ changes' \in 0 .. MaxChange
      BY <1>9 DEF CutCable, MendCable
    <2> QED BY <1>9, <2>1 DEF CutCable, MendCable, history
  <1>10. CASE LoseOnLine
    <2>0. PICK s \in Sides : \E i \in 1 .. Len(sock[s]) :
                  sock' = [sock EXCEPT ![s] = RemoveAt(@, i)]
      BY <1>10 DEF LoseOnLine
    <2>1. PICK n \in 1 .. Len(sock[s]) : sock' = [sock EXCEPT ![s] = RemoveAt(@, n)]
      BY <2>0
    <2>2. RemoveAt(sock[s], n) \in Seq(RedFrames)
      BY Removed
    <2>3. sock' \in [Sides -> Seq(RedFrames)]
      BY <2>1, <2>2
    <2>4. missed' = TRUE /\ UNCHANGED <<line, redpc, try, txby, wkc, rx, leftover>>
      BY <1>10 DEF LoseOnLine
    <2> QED BY <2>3, <2>4 DEF line
  <1>11. CASE UNCHANGED redvars
    BY <1>11 DEF redvars, line, history
  <1> QED BY <1>1, <1>2, <1>3, <1>4, <1>5, <1>6, <1>7, <1>8, <1>9, <1>10, <1>11
          DEF RedNext, Driver

\* A change of the line leaves a cut cable cut, or no cable before it.
LEMMA BackStays ==
  ASSUME TypeInv, UNCHANGED line \/ CutCable \/ MendCable, NEW f, Back(f, cut, changes)
  PROVE  Back(f, cut', changes')
  <1>1. ASSUME NEW k \in 1 .. N, FirstCut(k, cut, changes)
        PROVE  FirstCut(k, cut', changes')
    <2>1. CASE UNCHANGED line
      BY <1>1, <2>1 DEF line
    <2>2. changes \in Nat /\ cut \in SUBSET Cables
      BY DEF TypeInv, RedTypeOK
    <2>3. CASE CutCable
      <3>1. changes' = changes + 1 /\ cut \subseteq cut'
        BY <2>3 DEF CutCable
      <3> QED BY <1>1, <2>2, <3>1 DEF FirstCut
    <2>4. CASE MendCable
      <3>1. changes' = changes + 1 /\ cut' \subseteq cut
        BY <2>4 DEF MendCable
      <3> QED BY <1>1, <2>2, <3>1 DEF FirstCut
    <2> QED BY <2>1, <2>3, <2>4
  <1> QED BY <1>1 DEF Back

\* The master has sent nothing on unless something came back, and what came back
\* has passed the slaves up to the first cut.
LEMMA BackStep ==
  ASSUME TypeInv, BackInv, [RedNext]_redvars
  PROVE  BackInv'
  <1> USE DEF BackInv
  <1>0. /\ "prim" \in Sides /\ "sec" \in Sides /\ "prim" # "sec"
        /\ cut \in SUBSET Cables /\ sock \in [Sides -> Seq(RedFrames)]
        /\ wkc \in [Sides -> {EC_NOFRAME} \cup Nat] /\ rx \in [Sides -> RedFrames \cup {NoFrame}]
        /\ sock["prim"] \in Seq(RedFrames) /\ sock["sec"] \in Seq(RedFrames) /\ <<>> \in Seq(1 .. N)
    BY DEF Sides, TypeInv, RedTypeOK
  <1>a. ASSUME UNCHANGED line, NEW f \in RedFrames, Back(f, cut, changes), Put("prim", f)
        PROVE  \A i \in 1 .. Len(sock'["prim"]) : Back(sock'["prim"][i], cut', changes')
    <2>1. sock'["prim"] = Append(sock["prim"], f)
      BY <1>0, <1>a DEF Put
    <2>2. /\ Len(sock'["prim"]) = Len(sock["prim"]) + 1 /\ Len(sock["prim"]) \in Nat
          /\ \A i \in 1 .. Len(sock["prim"]) + 1 :
                sock'["prim"][i] = IF i = Len(sock["prim"]) + 1 THEN f ELSE sock["prim"][i]
      BY <1>0, <2>1, Appended
    <2>3. \A i \in 1 .. Len(sock["prim"]) + 1 : Back(sock'["prim"][i], cut, changes)
      BY <1>a, <2>2
    <2> QED BY <1>a, <2>2, <2>3 DEF line
  <1>b. ASSUME UNCHANGED line, sock'["prim"] = sock["prim"]
        PROVE  \A i \in 1 .. Len(sock'["prim"]) : Back(sock'["prim"][i], cut', changes')
    BY <1>b DEF line
  <1>c. ASSUME NEW f, Put("sec", f) \/ sock' = sock
        PROVE  sock'["prim"] = sock["prim"]
    BY <1>0, <1>c DEF Put
  <1>1. CASE OutPrimary
    <2>1. /\ Travel("prim", Command(<<>>)) /\ redpc' = "outsec" /\ txby' = txby
          /\ UNCHANGED line /\ redpc = "outprim"
      BY <1>1 DEF OutPrimary, Command
    <2>2. ASSUME NEW k \in 1 .. N, k \in cut, \A c \in cut : c >= k,
                 Put("prim", Command(Run(1, k)))
          PROVE  \A i \in 1 .. Len(sock'["prim"]) : Back(sock'["prim"][i], cut', changes')
      <3>1. /\ Command(Run(1, k)) \in RedFrames /\ Command(Run(1, k)).kind = "command"
            /\ Command(Run(1, k)).by = Run(1, k)
        BY RunTo, CommandIs
      <3>2. Back(Command(Run(1, k)), cut, changes)
        BY <2>2, <3>1 DEF Back, FirstCut
      <3> QED BY <1>a, <2>1, <2>2, <3>1, <3>2
    <2>3. \A i \in 1 .. Len(sock'["prim"]) : Back(sock'["prim"][i], cut', changes')
      BY <1>0, <1>b, <1>c, <2>1, <2>2, PrimTravels
    <2> QED BY <2>1, <2>3
  <1>2. CASE OutSecondary
    <2>1. /\ Travel("sec", Dummy(<<>>)) /\ redpc' = "wait" /\ redpc = "outsec"
          /\ UNCHANGED <<line, txby, wkc>>
      BY <1>2 DEF OutSecondary, Dummy
    <2>2. Dummy(<<>>) \in RedFrames /\ Back(Dummy(<<>>), cut, changes)
      BY <1>0, DummyIs DEF Back
    <2>3. \A i \in 1 .. Len(sock'["prim"]) : Back(sock'["prim"][i], cut', changes')
      BY <1>0, <1>a, <1>b, <1>c, <2>1, <2>2, SecTravels
    <2>4. wkc'["prim"] = EC_NOFRAME
      BY <1>0, <2>1 DEF TypeInv
    <2> QED BY <2>1, <2>3, <2>4
  <1>3. CASE WaitBoth
    <2>1. PICK side \in Sides : RedInframe(side)
      BY <1>3 DEF WaitBoth
    <2>2. redpc = "wait" /\ UNCHANGED <<line, redpc, txby>>
      BY <1>3 DEF WaitBoth
    <2>3. /\ rx' = [rx EXCEPT ![side] = sock[side][1]]
          /\ wkc' = [wkc EXCEPT ![side] = Len(sock[side][1].by)]
          /\ sock' = [sock EXCEPT ![side] = Tail(@)]
          /\ sock[side] # <<>> /\ sock[side] \in Seq(RedFrames)
      BY <2>1, Inframed
    <2>4. CASE side = "sec"
      <3>1. sock'["prim"] = sock["prim"] /\ rx'["prim"] = rx["prim"] /\ wkc'["prim"] = wkc["prim"]
        BY <1>0, <2>3, <2>4
      <3> QED BY <2>2, <3>1 DEF line
    <2>5. CASE side = "prim"
      <3>1. /\ Len(sock["prim"]) \in Nat \ {0} /\ Len(Tail(sock["prim"])) = Len(sock["prim"]) - 1
            /\ \A i \in 1 .. Len(sock["prim"]) - 1 : Tail(sock["prim"])[i] = sock["prim"][i + 1]
        BY <2>3, <2>5, Taken
      <3>2. sock'["prim"] = Tail(sock["prim"]) /\ rx'["prim"] = sock["prim"][1]
        BY <1>0, <2>3, <2>5
      <3>3. Back(rx'["prim"], cut, changes)
        BY <3>1, <3>2
      <3>4. \A i \in 1 .. Len(sock'["prim"]) : Back(sock'["prim"][i], cut, changes)
        <4>1. ASSUME NEW i \in 1 .. Len(sock'["prim"])
              PROVE  Back(sock'["prim"][i], cut, changes)
          <5>1. i + 1 \in 1 .. Len(sock["prim"]) /\ sock'["prim"][i] = sock["prim"][i + 1]
            BY <3>1, <3>2
          <5> QED BY <5>1
        <4> QED BY <4>1
      <3> QED BY <2>2, <3>3, <3>4 DEF line
    <2> QED BY <2>4, <2>5 DEF Sides
  <1>4. CASE Normal
    <2>1. /\ Came("sec") = "prim" /\ wkc' = [wkc EXCEPT !["prim"] = wkc["sec"]]
          /\ redpc' = "return" /\ UNCHANGED <<line, sock, txby>>
      BY <1>4 DEF Normal
    <2>2. wkc["sec"] > EC_NOFRAME
      BY <2>1 DEF Came
    <2>3. wkc["sec"] \in Nat
      BY <1>0, <2>2
    <2>4. ~(wkc'["prim"] <= EC_NOFRAME)
      BY <1>0, <2>1, <2>3
    <2> QED BY <1>b, <2>1, <2>4
  <1>5. CASE Resend
    <2>1. /\ txby' = (IF Came("prim") = "prim" THEN rx["prim"].by ELSE txby)
          /\ Travel("sec", Command(txby'))
          /\ wkc' = [wkc EXCEPT !["sec"] = EC_NOFRAME] /\ redpc' = "rewait" /\ redpc = "wait"
          /\ UNCHANGED line
      BY <1>5 DEF Resend, WaitOver, Command
    <2>4. wkc'["prim"] = wkc["prim"]
      BY <1>0, <2>1
    <2>2. CASE Came("prim") = "prim"
      <3>1. /\ rx["prim"] \in RedFrames /\ rx["prim"].mac = "prim" /\ wkc["prim"] > EC_NOFRAME
        BY <1>0, <2>2 DEF Came, TypeInv
      <3>2. rx["prim"].kind = "command" /\ rx["prim"].by \in Seq(1 .. N)
        BY <3>1, FrameLen DEF RedFrames
      <3>3. PICK k \in 0 .. N : rx["prim"].by = Run(1, k) /\ (k > 0 => FirstCut(k, cut, changes))
        BY <2>1, <3>1, <3>2 DEF Back
      <3>4. /\ Command(txby') \in RedFrames /\ Command(txby').kind = "command"
            /\ Command(txby').by = txby'
        BY <2>1, <2>2, <3>2, CommandIs
      <3>5. Back(Command(txby'), cut, changes)
        BY <2>1, <2>2, <3>3, <3>4 DEF Back
      <3>6. \A i \in 1 .. Len(sock'["prim"]) : Back(sock'["prim"][i], cut', changes')
        BY <1>0, <1>a, <1>b, <1>c, <2>1, <3>4, <3>5, SecTravels
      <3>8. wkc["prim"] \in Nat
        BY <1>0, <3>1
      <3>7. ~(wkc'["prim"] <= EC_NOFRAME)
        BY <2>4, <3>8
      <3> QED BY <2>1, <3>6, <3>7
    <2>3. CASE Came("prim") # "prim"
      <3>1. txby' = <<>>
        BY <2>1, <2>3
      <3>2. Run(1, 0) = <<>>
        BY DEF Run
      <3>3. Command(<<>>) \in RedFrames /\ Command(<<>>).kind = "command" /\ Command(<<>>).by = <<>>
        BY <1>0, CommandIs
      <3>4. Back(Command(<<>>), cut, changes)
        <4>1. 0 \in 0 .. N /\ ~(0 > 0)
          OBVIOUS
        <4> QED BY <3>2, <3>3, <4>1 DEF Back
      <3>5. \A i \in 1 .. Len(sock'["prim"]) : Back(sock'["prim"][i], cut', changes')
        BY <1>0, <1>a, <1>b, <1>c, <2>1, <3>1, <3>3, <3>4, SecTravels
      <3> QED BY <2>1, <3>1, <3>5
    <2> QED BY <2>2, <2>3
  <1>6. CASE NoRepair \/ RewaitOver
    <2>1. redpc' = "return" /\ redpc \in {"wait", "rewait"} /\ UNCHANGED <<line, sock, txby, wkc>>
      BY <1>6 DEF NoRepair, RewaitOver, WaitOver
    <2> QED BY <1>b, <2>1
  <1>7. CASE Rewait
    <2>1. /\ sock["sec"] # <<>> /\ sock' = [sock EXCEPT !["sec"] = Tail(@)] /\ redpc' = "return"
          /\ UNCHANGED line /\ wkc' = [s \in Sides |-> Len(Head(sock["sec"]).by)]
      BY <1>7 DEF Rewait, Wkc
    <2>2. Len(Head(sock["sec"]).by) \in Nat
      BY <1>0, <2>1, Taken, FrameLen
    <2>3. ~(wkc'["prim"] <= EC_NOFRAME) /\ sock'["prim"] = sock["prim"]
      BY <1>0, <2>1, <2>2
    <2> QED BY <1>b, <2>1, <2>3
  <1>8. CASE RetryConfirm \/ Done
    <2>1. /\ UNCHANGED <<line, sock, txby>> /\ redpc' \in {"outprim", "done"}
          /\ redpc' = "outprim" => wkc["prim"] <= EC_NOFRAME /\ redpc = "return"
      BY <1>8 DEF RetryConfirm, Done
    <2> QED BY <1>b, <2>1
  <1>9. CASE CutCable \/ MendCable
    <2>1. UNCHANGED <<sock, redpc, txby, wkc, rx>>
      BY <1>9 DEF CutCable, MendCable
    <2> QED BY <1>9, <2>1, BackStays
  <1>10. CASE LoseOnLine
    <2>0. PICK s \in Sides : \E i \in 1 .. Len(sock[s]) :
                sock' = [sock EXCEPT ![s] = RemoveAt(@, i)]
      BY <1>10 DEF LoseOnLine
    <2>1. PICK n \in 1 .. Len(sock[s]) : sock' = [sock EXCEPT ![s] = RemoveAt(@, n)]
      BY <2>0
    <2>2. UNCHANGED <<line, redpc, txby, wkc, rx>>
      BY <1>10 DEF LoseOnLine
    <2>3. CASE s = "sec"
      <3>1. sock'["prim"] = sock["prim"]
        BY <1>0, <2>1, <2>3
      <3> QED BY <2>2, <3>1 DEF line
    <2>4. CASE s = "prim"
      <3>1. sock'["prim"] = RemoveAt(sock["prim"], n) /\ n \in 1 .. Len(sock["prim"])
        BY <1>0, <2>1, <2>4
      <3>2. /\ Len(sock'["prim"]) = Len(sock["prim"]) - 1 /\ Len(sock["prim"]) \in Nat
            /\ \A i \in 1 .. Len(sock["prim"]) - 1 :
                  sock'["prim"][i] = IF i < n THEN sock["prim"][i] ELSE sock["prim"][i + 1]
        BY <1>0, <3>1, Removed
      <3>3. ASSUME NEW i \in 1 .. Len(sock'["prim"])
            PROVE  Back(sock'["prim"][i], cut, changes)
        <4>1. i \in 1 .. Len(sock["prim"]) /\ i + 1 \in 1 .. Len(sock["prim"])
          BY <3>2
        <4> QED BY <3>2, <4>1
      <3> QED BY <2>2, <3>3 DEF line
    <2> QED BY <2>3, <2>4 DEF Sides
  <1>11. CASE UNCHANGED redvars
    BY <1>11 DEF redvars, line, history
  <1> QED BY <1>1, <1>2, <1>3, <1>4, <1>5, <1>6, <1>7, <1>8, <1>9, <1>10, <1>11
          DEF RedNext, Driver

\* What comes in is kept in order, and what is sent on goes to slaves behind the
\* ones that it has passed.
LEMMA OrderStep ==
  ASSUME TypeInv, BackInv, OrderInv, [RedNext]_redvars
  PROVE  OrderInv'
  <1>0. /\ "prim" \in Sides /\ "sec" \in Sides /\ "prim" # "sec"
        /\ cut \in SUBSET Cables /\ sock \in [Sides -> Seq(RedFrames)] /\ changes \in Nat
        /\ wkc \in [Sides -> {EC_NOFRAME} \cup Nat] /\ rx \in [Sides -> RedFrames \cup {NoFrame}]
        /\ <<>> \in Seq(1 .. N) /\ Increasing(<<>>)
    BY DEF Sides, TypeInv, RedTypeOK, Increasing
  <1>1. CASE CutCable \/ MendCable
    <2>1. UNCHANGED <<sock, rx>> /\ changes' = changes + 1
      BY <1>1 DEF CutCable, MendCable
    <2> QED BY <1>0, <2>1 DEF OrderInv
  <1> SUFFICES ASSUME ~(CutCable \/ MendCable), changes' < 2
               PROVE  OrderInv'
    BY <1>1 DEF OrderInv
  <1>2. changes' = changes
    BY DEF RedNext, Driver, OutPrimary, OutSecondary, WaitBoth, Normal, Resend, NoRepair,
       Rewait, RewaitOver, RetryConfirm, Done, LoseOnLine, line, redvars
  <1>3. /\ changes < 2 /\ sock \in [Sides -> Seq(Ordered)]
        /\ rx \in [Sides -> Ordered \cup {NoFrame}]
    BY <1>2 DEF OrderInv
  <1>4. CASE OutPrimary
    <2>1. Travel("prim", Command(<<>>)) /\ rx' = rx
      BY <1>4 DEF OutPrimary, Command, BackInv
    <2>2. \A k \in 0 .. N : Command(Run(1, k)) \in Ordered
      <3>1. ASSUME NEW k \in 0 .. N
            PROVE  Command(Run(1, k)) \in Ordered
        <4>1. 1 \in 1 .. N + 1
          OBVIOUS
        <4>2. Increasing(Run(1, k)) /\ Run(1, k) \in Seq(1 .. N)
          BY <4>1, RunIs
        <4> QED BY <4>2, CommandIs DEF Ordered
      <3> QED BY <3>1
    <2>3. N \in 0 .. N /\ \A k \in 1 .. N : k \in 0 .. N
      OBVIOUS
    <2>4. sock' \in [Sides -> Seq(Ordered)]
      BY <1>0, <1>3, <2>1, <2>2, <2>3, PrimTravels, PutType
    <2> QED BY <1>3, <2>1, <2>4 DEF OrderInv
  <1>5. CASE OutSecondary
    <2>1. Travel("sec", Dummy(<<>>)) /\ rx' = rx
      BY <1>5 DEF OutSecondary, Dummy
    <2>2. Dummy(<<>>) \in Ordered
      BY <1>0, DummyIs DEF Ordered
    <2>3. ASSUME NEW m \in 0 .. N - 1,
                 Put("sec", [Dummy(<<>>) EXCEPT !.by = @ \o Run(m + 1, N)])
          PROVE  sock' \in [Sides -> Seq(Ordered)]
      <3>1. Dummy(Run(m + 1, N)) \in Ordered
        <4>0. m \in 0 .. N
          OBVIOUS
        <4>1. Run(m + 1, N) \in Seq(1 .. N) /\ Increasing(Run(m + 1, N))
          BY <4>0, DummyBack, RunFrom
        <4> QED BY <4>1, DummyIs DEF Ordered
      <3>2. Put("sec", Dummy(Run(m + 1, N)))
        BY <2>3, DummyBack
      <3> QED BY <1>0, <1>3, <3>1, <3>2, PutType
    <2>4. sock' \in [Sides -> Seq(Ordered)]
      BY <1>0, <1>3, <2>1, <2>2, <2>3, SecTravels, PutType
    <2> QED BY <1>3, <2>1, <2>4 DEF OrderInv
  <1>6. CASE WaitBoth
    <2>1. PICK side \in Sides : RedInframe(side)
      BY <1>6 DEF WaitBoth
    <2>2. /\ rx' = [rx EXCEPT ![side] = sock[side][1]]
          /\ sock' = [sock EXCEPT ![side] = Tail(@)] /\ sock[side] # <<>>
      BY <2>1, Inframed
    <2>3. sock[side][1] \in Ordered /\ Tail(sock[side]) \in Seq(Ordered)
      BY <1>3, <2>2, Taken
    <2> QED BY <1>3, <2>2, <2>3 DEF OrderInv
  <1>7. CASE Normal
    <2>1. rx' = [rx EXCEPT !["prim"] = rx["sec"]] /\ sock' = sock
      BY <1>7 DEF Normal
    <2> QED BY <1>0, <1>3, <2>1 DEF OrderInv
  <1>8. CASE Resend
    <2>1. /\ txby' = (IF Came("prim") = "prim" THEN rx["prim"].by ELSE txby)
          /\ Travel("sec", Command(txby')) /\ rx' = rx /\ redpc = "wait"
      BY <1>8 DEF Resend, WaitOver, Command
    <2>2. PICK k \in 0 .. N : txby' = Run(1, k) /\ (k > 0 => FirstCut(k, cut, changes))
      <3>1. CASE Came("prim") = "prim"
        <4>1. rx["prim"] \in RedFrames /\ rx["prim"].mac = "prim" /\ wkc["prim"] > EC_NOFRAME
          BY <1>0, <3>1 DEF Came, TypeInv
        <4>2. rx["prim"].kind = "command" /\ Back(rx["prim"], cut, changes)
          BY <2>1, <4>1 DEF RedFrames, BackInv
        <4> QED BY <2>1, <3>1, <4>2 DEF Back
      <3>2. CASE Came("prim") # "prim"
        <4>1. txby' = <<>> /\ Run(1, 0) = <<>> /\ 0 \in 0 .. N /\ ~(0 > 0)
          BY <2>1, <3>2 DEF BackInv, Run
        <4> QED BY <4>1
      <3> QED BY <3>1, <3>2
    <2>3. txby' \in Seq(1 .. N) /\ Increasing(txby')
      <3>1. 1 \in 1 .. N + 1
        OBVIOUS
      <3> QED BY <2>2, <3>1, RunIs
    <2>4. Command(txby') \in Ordered
      BY <2>3, CommandIs DEF Ordered
    <2>5. ASSUME NEW m \in 0 .. N - 1, m \in cut, \A c \in cut : m >= c,
                 Put("sec", [Command(txby') EXCEPT !.by = @ \o Run(m + 1, N)])
          PROVE  sock' \in [Sides -> Seq(Ordered)]
      <3>1. k <= m
        <4>1. CASE k > 0
          <5>1. k \in cut \/ \A x \in cut : x >= k
            BY <1>0, <1>3, <2>2, <4>1 DEF FirstCut
          <5> QED BY <2>5, <5>1
        <4> QED BY <4>1
      <3>2. m \in 0 .. N
        OBVIOUS
      <3>3. Run(1, k) \o Run(m + 1, N) \in Seq(1 .. N) /\ Increasing(Run(1, k) \o Run(m + 1, N))
        BY <3>1, <3>2, JoinIs
      <3>4. Command(txby' \o Run(m + 1, N)) \in Ordered
        BY <2>2, <3>3, CommandIs DEF Ordered
      <3>5. Put("sec", Command(txby' \o Run(m + 1, N)))
        BY <2>3, <2>5, ResentBack
      <3> QED BY <1>0, <1>3, <3>4, <3>5, PutType
    <2>6. sock' \in [Sides -> Seq(Ordered)]
      BY <1>0, <1>3, <2>1, <2>4, <2>5, SecTravels, PutType
    <2> QED BY <1>3, <2>1, <2>6 DEF OrderInv
  <1>9. CASE Rewait
    <2>1. /\ sock["sec"] # <<>> /\ sock' = [sock EXCEPT !["sec"] = Tail(@)]
          /\ rx' = [s \in Sides |-> Head(sock["sec"])]
      BY <1>9 DEF Rewait
    <2>2. Head(sock["sec"]) \in Ordered /\ Tail(sock["sec"]) \in Seq(Ordered)
      <3>1. sock["sec"] \in Seq(Ordered)
        BY <1>0, <1>3
      <3> QED BY <2>1, <3>1, Taken
    <2> QED BY <1>0, <1>3, <2>1, <2>2 DEF OrderInv
  <1>10. CASE NoRepair \/ RewaitOver \/ RetryConfirm \/ Done \/ UNCHANGED redvars
    BY <1>3, <1>10 DEF NoRepair, RewaitOver, RetryConfirm, Done, redvars, OrderInv
  <1>11. CASE LoseOnLine
    <2>0. PICK s \in Sides : \E i \in 1 .. Len(sock[s]) :
                sock' = [sock EXCEPT ![s] = RemoveAt(@, i)]
      BY <1>11 DEF LoseOnLine
    <2>1. PICK n \in 1 .. Len(sock[s]) : sock' = [sock EXCEPT ![s] = RemoveAt(@, n)]
      BY <2>0
    <2>2. RemoveAt(sock[s], n) \in Seq(Ordered)
      BY <1>3, Removed
    <2>3. rx' = rx
      BY <1>11 DEF LoseOnLine
    <2> QED BY <1>3, <2>1, <2>2, <2>3 DEF OrderInv
  <1> QED BY <1>4, <1>5, <1>6, <1>7, <1>8, <1>9, <1>10, <1>11 DEF RedNext, Driver

\* The dummy is not behind the command that is sent on.
LEMMA DummyStep ==
  ASSUME TypeInv, BackInv, DummyInv, [RedNext]_redvars
  PROVE  DummyInv'
  <1>0. /\ "prim" \in Sides /\ "sec" \in Sides /\ "prim" # "sec" /\ cut \in SUBSET Cables
        /\ sock \in [Sides -> Seq(RedFrames)] /\ sock["sec"] \in Seq(RedFrames)
        /\ wkc \in [Sides -> {EC_NOFRAME} \cup Nat] /\ rx \in [Sides -> RedFrames \cup {NoFrame}]
        /\ <<>> \in Seq(1 .. N) /\ Len(sock["sec"]) \in Nat
    BY DEF Sides, TypeInv, RedTypeOK
  <1> SUFFICES ASSUME ~leftover'
               PROVE  DummyInv'
    BY DEF DummyInv
  <1>a. ASSUME NEW f \in RedFrames, Put("sec", f)
        PROVE  /\ Len(sock'["sec"]) = Len(sock["sec"]) + 1
               /\ \A i \in 1 .. Len(sock["sec"]) + 1 :
                     sock'["sec"][i] = IF i = Len(sock["sec"]) + 1 THEN f ELSE sock["sec"][i]
    <2>1. sock'["sec"] = Append(sock["sec"], f)
      BY <1>0, <1>a DEF Put
    <2> QED BY <1>0, <2>1, Appended
  <1>b. ASSUME NEW f, Put("prim", f) \/ sock' = sock
        PROVE  sock'["sec"] = sock["sec"]
    BY <1>0, <1>b DEF Put
  <1>c. ASSUME redpc = "wait", wkc["prim"] > 0
        PROVE  rx["prim"].kind = "command"
    <2>1. wkc["prim"] > EC_NOFRAME /\ rx["prim"] \in RedFrames /\ wkc["prim"] = Len(rx["prim"].by)
      BY <1>0, <1>c DEF TypeInv
    <2>2. rx["prim"].by # <<>>
      BY <1>c, <2>1
    <2> QED BY <1>c, <2>1, <2>2 DEF BackInv, Back, RedFrames
  <1>1. CASE OutPrimary
    <2>1. /\ Travel("prim", Command(<<>>)) /\ redpc' = "outsec" /\ sock["sec"] = <<>>
      BY <1>0, <1>1 DEF OutPrimary, Command, BackInv
    <2>2. \A i \in 1 .. Len(sock'["sec"]) : sock'["sec"][i].kind = "command"
      <3>1. CASE Put("sec", Command(Run(1, N)))
        <4>1. /\ Command(Run(1, N)) \in RedFrames /\ Command(Run(1, N)).kind = "command"
          BY RunTo, CommandIs
        <4>2. Len(sock["sec"]) = 0
          BY <2>1
        <4> QED BY <1>a, <3>1, <4>1, <4>2
      <3>2. CASE sock'["sec"] = sock["sec"]
        BY <2>1, <3>2
      <3> QED BY <1>0, <1>b, <2>1, <3>1, <3>2, PrimTravels
    <2> QED BY <2>1, <2>2 DEF DummyInv
  <1>2. CASE OutSecondary
    <2>1. /\ Travel("sec", Dummy(<<>>)) /\ redpc' = "wait" /\ redpc = "outsec" /\ ~leftover
          /\ UNCHANGED <<wkc, rx>>
      BY <1>2 DEF OutSecondary, Dummy, history
    <2>2. wkc'["sec"] = EC_NOFRAME
      BY <1>0, <2>1 DEF TypeInv
    <2>3. \A i \in 1 .. Len(sock["sec"]) : sock["sec"][i].kind = "command"
      BY <2>1 DEF DummyInv
    <2>4. \A i \in 1 .. Len(sock'["sec"]) - 1 : sock'["sec"][i].kind = "command"
      <3>1. ASSUME NEW m \in 0 .. N - 1,
                   Put("sec", [Dummy(<<>>) EXCEPT !.by = @ \o Run(m + 1, N)])
            PROVE  \A i \in 1 .. Len(sock'["sec"]) - 1 : sock'["sec"][i].kind = "command"
        <4>1. Dummy(Run(m + 1, N)) \in RedFrames /\ Put("sec", Dummy(Run(m + 1, N)))
          BY <3>1, DummyBack
        <4>2. /\ Len(sock'["sec"]) = Len(sock["sec"]) + 1
              /\ \A i \in 1 .. Len(sock["sec"]) + 1 :
                    sock'["sec"][i] = IF i = Len(sock["sec"]) + 1 THEN Dummy(Run(m + 1, N))
                                      ELSE sock["sec"][i]
          BY <1>a, <4>1
        <4> HIDE DEF Dummy
        <4> QED BY <1>0, <2>3, <4>2
      <3>2. CASE sock'["sec"] = sock["sec"]
        BY <1>0, <2>3, <3>2
      <3> QED BY <1>0, <1>b, <2>1, <3>1, <3>2, SecTravels
    <2> QED BY <2>1, <2>2, <2>4 DEF DummyInv
  <1>3. CASE WaitBoth
    <2>1. PICK side \in Sides : RedInframe(side)
      BY <1>3 DEF WaitBoth
    <2>2. redpc = "wait" /\ redpc' = "wait" /\ ~leftover
      BY <1>3 DEF WaitBoth, history
    <2>3. /\ rx' = [rx EXCEPT ![side] = sock[side][1]]
          /\ wkc' = [wkc EXCEPT ![side] = Len(sock[side][1].by)]
          /\ sock' = [sock EXCEPT ![side] = Tail(@)]
          /\ sock[side] # <<>> /\ sock[side] \in Seq(RedFrames)
      BY <2>1, Inframed
    <2>4. CASE side = "prim"
      <3>1. sock'["sec"] = sock["sec"] /\ rx'["sec"] = rx["sec"] /\ wkc'["sec"] = wkc["sec"]
        BY <1>0, <2>3, <2>4
      <3> QED BY <2>2, <3>1 DEF DummyInv
    <2>5. CASE side = "sec"
      <3>1. sock'["sec"] = Tail(sock["sec"]) /\ rx'["sec"] = sock["sec"][1]
        BY <1>0, <2>3, <2>5
      <3>2. /\ Len(sock'["sec"]) = Len(sock["sec"]) - 1 /\ Len(sock["sec"]) > 0
            /\ \A i \in 1 .. Len(sock["sec"]) - 1 : sock'["sec"][i] = sock["sec"][i + 1]
            /\ sock["sec"][1] \in RedFrames
        <4>1. sock["sec"] # <<>> /\ sock["sec"] \in Seq(RedFrames)
          BY <2>3, <2>5
        <4>2. /\ sock["sec"][1] \in RedFrames /\ Len(sock["sec"]) \in Nat \ {0}
              /\ Len(Tail(sock["sec"])) = Len(sock["sec"]) - 1
              /\ \A i \in 1 .. Len(sock["sec"]) - 1 : Tail(sock["sec"])[i] = sock["sec"][i + 1]
          BY <4>1, Taken
        <4> QED BY <3>1, <4>2
      <3>3. \A i \in 1 .. Len(sock["sec"]) - 1 : sock["sec"][i].kind = "command"
        BY <2>2 DEF DummyInv
      <3>4. \A i \in 1 .. Len(sock'["sec"]) - 1 : sock'["sec"][i].kind = "command"
        <4>1. ASSUME NEW i \in 1 .. Len(sock'["sec"]) - 1
              PROVE  sock'["sec"][i].kind = "command"
          <5>1. i + 1 \in 1 .. Len(sock["sec"]) - 1 /\ i \in 1 .. Len(sock["sec"]) - 1
            BY <1>0, <3>2
          <5> QED BY <3>2, <3>3, <5>1
        <4> QED BY <4>1
      <3>5. ASSUME rx'["sec"].mac = "sec"
            PROVE  Len(sock'["sec"]) = 0
        <4>1. sock["sec"][1].kind # "command"
          BY <3>1, <3>2, <3>5 DEF RedFrames
        <4>2. ~(1 \in 1 .. Len(sock["sec"]) - 1)
          BY <3>3, <4>1
        <4>3. Len(sock["sec"]) = 1
          <5> DEFINE l == Len(sock["sec"])
          <5>1. l \in Nat /\ l > 0 /\ ~(1 \in 1 .. l - 1)
            BY <1>0, <3>2, <4>2
          <5> HIDE DEF l
          <5>2. l = 1
            BY <5>1
          <5> QED BY <5>2 DEF l
        <4> QED BY <3>2, <4>3
      <3> QED BY <2>2, <3>4, <3>5 DEF DummyInv
    <2> QED BY <2>4, <2>5 DEF Sides
  <1>4. CASE Normal
    <2>1. /\ Came("sec") = "prim" /\ rx' = [rx EXCEPT !["prim"] = rx["sec"]]
          /\ redpc' = "return"
      BY <1>4 DEF Normal
    <2>2. rx["sec"] \in RedFrames /\ rx["sec"].mac = "prim"
      BY <1>0, <2>1 DEF Came, TypeInv
    <2>3. rx'["prim"].kind = "command"
      BY <1>0, <2>1, <2>2 DEF RedFrames
    <2> QED BY <2>1, <2>3 DEF DummyInv
  <1>5. CASE Resend
    <2>1. /\ txby' = (IF Came("prim") = "prim" THEN rx["prim"].by ELSE txby)
          /\ Travel("sec", Command(txby')) /\ Came("sec") = "sec"
          /\ wkc' = [wkc EXCEPT !["sec"] = EC_NOFRAME] /\ rx' = rx
          /\ redpc' = "rewait" /\ redpc = "wait" /\ ~leftover
      BY <1>5 DEF Resend, WaitOver, Command
    <2>2. wkc'["prim"] > 0 => rx'["prim"].kind = "command"
      BY <1>0, <1>c, <2>1
    <2>3. \A i \in 1 .. Len(sock["sec"]) : sock["sec"][i].kind = "command"
      BY <2>1 DEF Came, DummyInv
    <2>4. txby' \in Seq(1 .. N)
      <3>1. CASE Came("prim") = "prim"
        <4>1. rx["prim"] \in RedFrames
          BY <1>0, <3>1 DEF Came, TypeInv
        <4> QED BY <2>1, <3>1, <4>1, FrameLen
      <3> QED BY <1>0, <2>1, <3>1 DEF BackInv
    <2>5. ASSUME NEW m \in 0 .. N - 1,
                 Put("sec", [Command(txby') EXCEPT !.by = @ \o Run(m + 1, N)])
          PROVE  \A i \in 1 .. Len(sock'["sec"]) : sock'["sec"][i].kind = "command"
      <3>1. /\ Put("sec", Command(txby' \o Run(m + 1, N)))
            /\ txby' \o Run(m + 1, N) \in Seq(1 .. N)
        BY <2>4, <2>5, ResentBack
      <3>2. /\ Command(txby' \o Run(m + 1, N)) \in RedFrames
            /\ Command(txby' \o Run(m + 1, N)).kind = "command"
        BY <3>1, CommandIs
      <3> DEFINE f == Command(txby' \o Run(m + 1, N))
      <3>3. /\ Len(sock'["sec"]) = Len(sock["sec"]) + 1
            /\ \A i \in 1 .. Len(sock["sec"]) + 1 :
                  sock'["sec"][i] = IF i = Len(sock["sec"]) + 1 THEN f ELSE sock["sec"][i]
        BY <1>a, <3>1, <3>2
      <3>4. f.kind = "command"
        BY <3>2
      <3> HIDE DEF f
      <3> QED BY <1>0, <2>3, <3>3, <3>4
    <2>6. \A i \in 1 .. Len(sock'["sec"]) : sock'["sec"][i].kind = "command"
      <3>1. CASE sock'["sec"] = sock["sec"]
        BY <2>3, <3>1
      <3> QED BY <1>0, <1>b, <2>1, <2>5, <3>1, SecTravels
    <2> QED BY <2>1, <2>2, <2>6 DEF DummyInv
  <1>6. CASE NoRepair
    <2>1. redpc' = "return" /\ redpc = "wait" /\ UNCHANGED <<wkc, rx>>
      BY <1>6 DEF NoRepair, WaitOver
    <2> QED BY <1>c, <2>1 DEF DummyInv
  <1>7. CASE RewaitOver
    <2>1. redpc' = "return" /\ redpc = "rewait" /\ ~leftover /\ UNCHANGED <<wkc, rx>>
      BY <1>7 DEF RewaitOver
    <2> QED BY <2>1 DEF DummyInv
  <1>8. CASE Rewait
    <2>1. /\ sock["sec"] # <<>> /\ redpc = "rewait" /\ redpc' = "return" /\ ~leftover
          /\ rx' = [s \in Sides |-> Head(sock["sec"])]
      BY <1>8 DEF Rewait, history
    <2>2. Head(sock["sec"]) = sock["sec"][1] /\ 1 \in 1 .. Len(sock["sec"])
      BY <1>0, <2>1, Taken
    <2>3. rx'["prim"].kind = "command"
      BY <1>0, <2>1, <2>2 DEF DummyInv
    <2> QED BY <2>1, <2>3 DEF DummyInv
  <1>9. CASE RetryConfirm \/ Done
    <2>1. /\ redpc' = "outprim" \/ (redpc' = "done" /\ redpc = "return")
          /\ ~leftover /\ UNCHANGED <<wkc, rx>>
      BY <1>9 DEF RetryConfirm, Done, history
    <2> QED BY <2>1 DEF DummyInv
  <1>10. CASE CutCable \/ MendCable \/ UNCHANGED redvars
    <2>1. UNCHANGED <<redpc, sock, wkc, rx, leftover>>
      BY <1>10 DEF CutCable, MendCable, redvars, history
    <2> QED BY <2>1 DEF DummyInv
  <1>11. CASE LoseOnLine
    <2>0. PICK s \in Sides : \E i \in 1 .. Len(sock[s]) :
                sock' = [sock EXCEPT ![s] = RemoveAt(@, i)]
      BY <1>11 DEF LoseOnLine
    <2>1. PICK n \in 1 .. Len(sock[s]) : sock' = [sock EXCEPT ![s] = RemoveAt(@, n)]
      BY <2>0
    <2>2. UNCHANGED <<redpc, wkc, rx, leftover>>
      BY <1>11 DEF LoseOnLine
    <2>3. CASE s = "prim"
      <3>1. sock'["sec"] = sock["sec"]
        BY <1>0, <2>1, <2>3
      <3> QED BY <2>2, <3>1 DEF DummyInv
    <2>4. CASE s = "sec"
      <3>1. sock'["sec"] = RemoveAt(sock["sec"], n) /\ n \in 1 .. Len(sock["sec"])
        BY <1>0, <2>1, <2>4
      <3>2. /\ Len(sock'["sec"]) = Len(sock["sec"]) - 1
            /\ \A i \in 1 .. Len(sock["sec"]) - 1 :
                  sock'["sec"][i] = IF i < n THEN sock["sec"][i] ELSE sock["sec"][i + 1]
        <4>1. /\ Len(RemoveAt(sock["sec"], n)) = Len(sock["sec"]) - 1
              /\ \A i \in 1 .. Len(sock["sec"]) - 1 :
                    RemoveAt(sock["sec"], n)[i] = IF i < n THEN sock["sec"][i] ELSE sock["sec"][i + 1]
          BY <1>0, <3>1, Removed
        <4> QED BY <3>1, <4>1
      <3>3. ASSUME \A i \in 1 .. Len(sock["sec"]) : sock["sec"][i].kind = "command"
            PROVE  \A i \in 1 .. Len(sock'["sec"]) : sock'["sec"][i].kind = "command"
        <4>1. ASSUME NEW i \in 1 .. Len(sock'["sec"])
              PROVE  sock'["sec"][i].kind = "command"
          <5>1. i \in 1 .. Len(sock["sec"]) /\ i + 1 \in 1 .. Len(sock["sec"])
                /\ i \in 1 .. Len(sock["sec"]) - 1
            BY <1>0, <3>2
          <5> QED BY <3>2, <3>3, <5>1
        <4> QED BY <4>1
      <3>4. ASSUME \A i \in 1 .. Len(sock["sec"]) - 1 : sock["sec"][i].kind = "command"
            PROVE  \A i \in 1 .. Len(sock'["sec"]) - 1 : sock'["sec"][i].kind = "command"
        <4>1. ASSUME NEW i \in 1 .. Len(sock'["sec"]) - 1
              PROVE  sock'["sec"][i].kind = "command"
          <5>1. i \in 1 .. Len(sock["sec"]) - 1 /\ i + 1 \in 1 .. Len(sock["sec"]) - 1
            BY <1>0, <3>2
          <5> QED BY <3>2, <3>4, <5>1
        <4> QED BY <4>1
      <3> QED BY <2>2, <3>3, <3>4 DEF DummyInv
    <2> QED BY <2>3, <2>4 DEF Sides
  <1> QED BY <1>1, <1>2, <1>3, <1>4, <1>5, <1>6, <1>7, <1>8, <1>9, <1>10, <1>11
          DEF RedNext, Driver

-------------------------------------------------------------------------------
(* A line that does not change *)

\* What each NIC gets, for every cable that may be cut.
LEMMA ExpectedIs ==
  /\ cut = {} => /\ Expected("prim") = <<Dummy(<<>>)>>
                 /\ Expected("sec") = <<Command(Run(1, N))>>
  /\ \A k \in 0 .. N : cut = {k} =>
       /\ k = 0 => Expected("prim") = <<>>
       /\ k > 0 => Expected("prim") = <<Command(Run(1, k))>>
       /\ k = N => Expected("sec") = <<>>
       /\ k < N => Expected("sec") = <<Dummy(Run(k + 1, N))>>
  <1>1. CASE cut = {}
    <2>1. \A k : cut # {k}
      BY <1>1
    <2> QED BY <1>1, <2>1 DEF Expected
  <1>2. ASSUME NEW k \in 0 .. N, cut = {k}
        PROVE  /\ k = 0 => Expected("prim") = <<>>
               /\ k > 0 => Expected("prim") = <<Command(Run(1, k))>>
               /\ k = N => Expected("sec") = <<>>
               /\ k < N => Expected("sec") = <<Dummy(Run(k + 1, N))>>
    <2>1. cut \in SUBSET Nat /\ cut \in SUBSET Cables /\ cut # {}
      BY <1>2 DEF Cables
    <2>2. Min(cut) = k /\ Max(cut) = k
      <3>1. Min(cut) \in cut
        BY <2>1, MinIs
      <3>2. Max(cut) \in cut
        BY <2>1, MaxIs
      <3> QED BY <1>2, <3>1, <3>2
    <2>3. CASE k = 0
      BY <1>2, <2>1, <2>2, <2>3 DEF Expected
    <2>4. CASE k > 0 /\ k < N
      <3>1. 0 \notin cut /\ N \notin cut
        BY <1>2, <2>4
      <3>2. Expected("prim") = <<Command(Run(1, k))>>
        BY <2>1, <2>2, <3>1, Zenon DEF Expected
      <3>3. Expected("sec") = <<Dummy(Run(k + 1, N))>>
        BY <2>1, <2>2, <3>1, Zenon DEF Expected
      <3> QED BY <2>4, <3>2, <3>3
    <2>5. CASE k = N
      <3>1. 0 \notin cut /\ N \in cut /\ k > 0 /\ ~(k < N)
        BY <1>2, <2>5
      <3>2. Expected("prim") = <<Command(Run(1, k))>>
        BY <2>1, <2>2, <3>1, Zenon DEF Expected
      <3>3. Expected("sec") = <<>>
        BY <2>1, <3>1, Zenon DEF Expected
      <3> QED BY <3>1, <3>2, <3>3
    <2> QED BY <2>3, <2>4, <2>5
  <1> QED BY <1>1, <1>2

\* All frames of an undisturbed attempt are in.
LEMMA CameExpected ==
  ASSUME TypeInv, QuietInv, changes = 0, ~missed, redpc = "wait",
         \A s \in Sides : sock[s] = <<>>
  PROVE  \/ /\ cut = {} /\ Came("prim") = "sec" /\ Came("sec") = "prim"
            /\ rx["sec"] = Command(Run(1, N)) /\ wkc["sec"] = N
         \/ \E k \in 0 .. N - 1 :
              /\ cut = {k} /\ Came("sec") = "sec"
              /\ \/ k = 0 /\ Came("prim") = "none"
                 \/ k > 0 /\ Came("prim") = "prim" /\ rx["prim"] = Command(Run(1, k))
         \/ /\ cut = {N} /\ Came("sec") = "none" /\ Came("prim") = "prim"
            /\ rx["prim"] = Command(Run(1, N)) /\ wkc["prim"] = N
  <1>0. "prim" \in Sides /\ "sec" \in Sides
    BY DEF Sides
  <1>1. ASSUME NEW s \in Sides, Expected(s) = <<>>
        PROVE  Came(s) = "none"
    <2>1. wkc[s] = EC_NOFRAME
      <3>1. ~(Expected(s) = <<rx[s]>>)
        BY <1>1
      <3> QED BY <3>1 DEF QuietInv
    <2> QED BY <2>1 DEF Came
  <1>2. ASSUME NEW s \in Sides, NEW f \in RedFrames, Expected(s) = <<f>>
        PROVE  Came(s) = f.mac /\ rx[s] = f /\ wkc[s] = Len(f.by)
    <2>1. sock[s] # Expected(s)
      BY <1>2
    <2>2. Expected(s) = <<rx[s]>> /\ wkc[s] = Len(rx[s].by)
      BY <2>1 DEF QuietInv
    <2>3. rx[s] = f
      BY <1>2, <2>2
    <2>4. wkc[s] = Len(f.by) /\ Len(f.by) \in Nat
      BY <2>2, <2>3, FrameLen
    <2> QED BY <2>3, <2>4 DEF Came
  <1>3. CASE cut = {}
    <2>1. Dummy(<<>>) \in RedFrames /\ Dummy(<<>>).mac = "sec"
      <3>1. <<>> \in Seq(1 .. N)
        OBVIOUS
      <3> QED BY <3>1, DummyIs
    <2>2. /\ Command(Run(1, N)) \in RedFrames /\ Command(Run(1, N)).mac = "prim"
          /\ Len(Command(Run(1, N)).by) = N
      BY RunTo, CommandIs
    <2> QED BY <1>0, <1>2, <1>3, <2>1, <2>2, ExpectedIs
  <1>4. ASSUME NEW k \in 1 .. N, cut = {k}
        PROVE  Came("prim") = "prim" /\ rx["prim"] = Command(Run(1, k)) /\ wkc["prim"] = k
    <2>1. /\ Command(Run(1, k)) \in RedFrames /\ Command(Run(1, k)).mac = "prim"
          /\ Len(Command(Run(1, k)).by) = k
      BY RunTo, CommandIs
    <2>2. Expected("prim") = <<Command(Run(1, k))>>
      BY <1>4, ExpectedIs
    <2> QED BY <1>0, <1>2, <2>1, <2>2
  <1>5. ASSUME NEW k \in 0 .. N - 1, cut = {k}
        PROVE  Came("sec") = "sec"
    <2>1. Dummy(Run(k + 1, N)) \in RedFrames /\ Dummy(Run(k + 1, N)).mac = "sec"
      <3>1. k \in 0 .. N
        OBVIOUS
      <3> QED BY <3>1, RunFrom, DummyIs
    <2>2. Expected("sec") = <<Dummy(Run(k + 1, N))>>
      BY <1>5, ExpectedIs
    <2> QED BY <1>0, <1>2, <2>1, <2>2
  <1>6. CASE cut = {N}
    <2>1. Expected("sec") = <<>>
      BY <1>6, ExpectedIs
    <2> QED BY <1>0, <1>1, <1>4, <1>6, <2>1
  <1>7. CASE \E k \in 0 .. N - 1 : cut = {k}
    <2>1. PICK k \in 0 .. N - 1 : cut = {k}
      BY <1>7
    <2>2. CASE k = 0
      <3>1. Expected("prim") = <<>>
        BY <2>1, <2>2, ExpectedIs
      <3>2. Came("prim") = "none" /\ Came("sec") = "sec"
        BY <1>0, <1>1, <1>5, <2>1, <3>1
      <3> QED BY <2>1, <2>2, <3>2
    <2>3. CASE k > 0
      <3>1. k \in 1 .. N
        BY <2>3
      <3>2. /\ Came("prim") = "prim" /\ rx["prim"] = Command(Run(1, k)) /\ Came("sec") = "sec"
        BY <1>4, <1>5, <2>1, <3>1
      <3> QED BY <2>1, <2>3, <3>2
    <2> QED BY <2>2, <2>3
  <1>8. cut = {} \/ cut = {N} \/ \E k \in 0 .. N - 1 : cut = {k}
    <2>1. cut = {} \/ \E k \in 0 .. N : cut = {k}
      BY DEF QuietInv, Cables
    <2>2. \A k \in 0 .. N : k = N \/ k \in 0 .. N - 1
      OBVIOUS
    <2> QED BY <2>1, <2>2
  <1> QED BY <1>3, <1>4, <1>6, <1>7, <1>8

\* An attempt on a line that does not change, with no frame lost or late, gets
\* the command through all slaves, at once or over the secondary NIC.
LEMMA QuietStep ==
  ASSUME TypeInv, BackInv, QuietInv, [RedNext]_redvars
  PROVE  QuietInv'
  <1>0. /\ "prim" \in Sides /\ "sec" \in Sides /\ "prim" # "sec" /\ cut \in SUBSET Cables
        /\ sock \in [Sides -> Seq(RedFrames)] /\ changes \in Nat
        /\ wkc \in [Sides -> {EC_NOFRAME} \cup Nat] /\ rx \in [Sides -> RedFrames \cup {NoFrame}]
        /\ \A s \in Sides : s = "prim" \/ s = "sec"
    BY DEF Sides, TypeInv, RedTypeOK
  <1> SUFFICES ASSUME changes' = 0, ~missed'
               PROVE  QuietInv'
    BY DEF QuietInv
  <1>1. ~(CutCable \/ MendCable) /\ ~LoseOnLine
    BY <1>0 DEF CutCable, MendCable, LoseOnLine
  <1>2. changes = 0 /\ ~missed /\ cut' = cut
    <2>1. changes' = changes /\ cut' = cut
      BY <1>1 DEF RedNext, Driver, OutPrimary, OutSecondary, WaitBoth, Normal, Resend, NoRepair,
         Rewait, RewaitOver, RetryConfirm, Done, line, redvars
    <2>2. missed' = missed \/ NoteMissed
      BY <1>1 DEF RedNext, Driver, OutPrimary, OutSecondary, WaitBoth, Normal, Resend, NoRepair,
         Rewait, RewaitOver, RetryConfirm, Done, history, redvars
    <2>3. ~missed
      BY <2>2, Zenon DEF NoteMissed
    <2> QED BY <2>1, <2>3
  <1>3. cut = {} \/ \E k \in 0 .. N : cut = {k}
    BY <1>2 DEF QuietInv, Cables
  <1>4. cut' = {} \/ \E k \in Cables : cut' = {k}
    BY <1>2, <1>3 DEF Cables
  <1>5. Expected("prim")' = Expected("prim") /\ Expected("sec")' = Expected("sec")
    BY <1>2 DEF Expected
  <1>6. CASE OutPrimary
    <2>1. /\ Travel("prim", Command(<<>>)) /\ redpc' = "outsec" /\ redpc = "outprim"
      BY <1>6 DEF OutPrimary, Command, BackInv
    <2>2. sock["prim"] = <<>> /\ sock["sec"] = <<>>
      BY <1>0, <1>2, <2>1 DEF QuietInv
    <2>3. /\ sock'["prim"] = IF cut' = {} THEN <<>> ELSE Expected("prim")
          /\ sock'["sec"] = IF cut' = {} THEN Expected("sec") ELSE <<>>
      <3>1. CASE cut = {} /\ Put("sec", Command(Run(1, N)))
        <4>1. Expected("sec") = <<Command(Run(1, N))>>
          BY <3>1, ExpectedIs
        <4> QED BY <1>0, <1>2, <2>2, <3>1, <4>1 DEF Put
      <3>2. CASE 0 \in cut /\ sock' = sock
        <4>1. cut = {0} /\ cut # {} /\ 0 \in 0 .. N
          BY <1>3, <3>2
        <4>2. Expected("prim") = <<>>
          BY <4>1, ExpectedIs
        <4> QED BY <1>2, <2>2, <3>2, <4>1, <4>2
      <3>3. ASSUME NEW k \in 1 .. N, k \in cut, Put("prim", Command(Run(1, k)))
            PROVE  /\ sock'["prim"] = IF cut' = {} THEN <<>> ELSE Expected("prim")
                   /\ sock'["sec"] = IF cut' = {} THEN Expected("sec") ELSE <<>>
        <4>1. cut = {k} /\ cut # {} /\ k \in 0 .. N /\ k > 0
          BY <1>3, <3>3
        <4>2. Expected("prim") = <<Command(Run(1, k))>>
          BY <4>1, ExpectedIs
        <4> QED BY <1>0, <1>2, <2>2, <3>3, <4>1, <4>2 DEF Put
      <3> QED BY <1>0, <2>1, <3>1, <3>2, <3>3, PrimTravels
    <2> QED BY <1>0, <1>4, <1>5, <2>1, <2>3 DEF QuietInv
  <1>7. CASE OutSecondary
    <2>1. /\ Travel("sec", Dummy(<<>>)) /\ redpc' = "wait" /\ redpc = "outsec" /\ wkc' = wkc
      BY <1>7 DEF OutSecondary, Dummy
    <2>2. \A s \in Sides : wkc'[s] = EC_NOFRAME
      BY <2>1 DEF TypeInv
    <2>3. /\ sock["prim"] = IF cut = {} THEN <<>> ELSE Expected("prim")
          /\ sock["sec"] = IF cut = {} THEN Expected("sec") ELSE <<>>
      BY <1>0, <1>2, <2>1 DEF QuietInv
    <2>4. sock'["prim"] = Expected("prim") /\ sock'["sec"] = Expected("sec")
      <3>1. CASE cut = {} /\ Put("prim", Dummy(<<>>))
        <4>1. Expected("prim") = <<Dummy(<<>>)>>
          BY <3>1, ExpectedIs
        <4> QED BY <1>0, <2>3, <3>1, <4>1 DEF Put
      <3>2. CASE N \in cut /\ sock' = sock
        <4>1. cut = {N} /\ cut # {} /\ N \in 0 .. N
          BY <1>3, <3>2
        <4>2. Expected("sec") = <<>>
          BY <4>1, ExpectedIs
        <4> QED BY <2>3, <3>2, <4>1, <4>2
      <3>3. ASSUME NEW m \in 0 .. N - 1, m \in cut,
                   Put("sec", [Dummy(<<>>) EXCEPT !.by = @ \o Run(m + 1, N)])
            PROVE  sock'["prim"] = Expected("prim") /\ sock'["sec"] = Expected("sec")
        <4>1. cut = {m} /\ cut # {} /\ m \in 0 .. N /\ m < N
          BY <1>3, <3>3
        <4>2. Expected("sec") = <<Dummy(Run(m + 1, N))>>
          BY <4>1, ExpectedIs
        <4>3. Put("sec", Dummy(Run(m + 1, N)))
          BY <3>3, DummyBack
        <4> QED BY <1>0, <2>3, <4>1, <4>2, <4>3 DEF Put
      <3> QED BY <1>0, <2>1, <3>1, <3>2, <3>3, SecTravels
    <2>5. \A s \in Sides : sock'[s] = Expected(s)'
      BY <1>0, <1>5, <2>4
    <2> QED BY <1>4, <2>1, <2>2, <2>5 DEF QuietInv
  <1>8. CASE WaitBoth
    <2>1. PICK side \in Sides : RedInframe(side)
      BY <1>8 DEF WaitBoth
    <2>2. redpc = "wait" /\ redpc' = "wait"
      BY <1>8 DEF WaitBoth
    <2>3. /\ wkc[side] = EC_NOFRAME
          /\ rx' = [rx EXCEPT ![side] = sock[side][1]]
          /\ wkc' = [wkc EXCEPT ![side] = Len(sock[side][1].by)]
          /\ sock' = [sock EXCEPT ![side] = Tail(@)]
          /\ sock[side] # <<>> /\ sock[side] \in Seq(RedFrames)
      BY <2>1, Inframed
    <2>4. sock[side] = Expected(side)
      BY <1>2, <2>2, <2>3 DEF QuietInv
    <2>5. \A s \in Sides : Expected(s) = <<>> \/ \E f : Expected(s) = <<f>>
      <3>1. CASE cut = {}
        BY <1>0, <3>1, ExpectedIs
      <3>2. ASSUME NEW k \in 0 .. N, cut = {k}
            PROVE  \A s \in Sides : Expected(s) = <<>> \/ \E f : Expected(s) = <<f>>
        <4>1. /\ Expected("prim") = <<>> \/ Expected("prim") = <<Command(Run(1, k))>>
              /\ Expected("sec") = <<>> \/ Expected("sec") = <<Dummy(Run(k + 1, N))>>
          <5>1. (k = 0 \/ k > 0) /\ (k = N \/ k < N)
            OBVIOUS
          <5> QED BY <3>2, <5>1, ExpectedIs
        <4> QED BY <1>0, <4>1
      <3> QED BY <1>3, <3>1, <3>2
    <2>6. PICK f : Expected(side) = <<f>>
      BY <2>3, <2>4, <2>5
    <2>7. sock'[side] = <<>> /\ rx'[side] = f /\ wkc'[side] = Len(f.by)
      BY <1>0, <2>3, <2>4, <2>6
    <2>8. \A s \in Sides : s # side =>
            sock'[s] = sock[s] /\ rx'[s] = rx[s] /\ wkc'[s] = wkc[s]
      BY <1>0, <2>3
    <2>9. \A s \in Sides :
             \/ sock'[s] = Expected(s) /\ wkc'[s] = EC_NOFRAME
             \/ sock'[s] = <<>> /\ Expected(s) = <<rx'[s]>> /\ wkc'[s] = Len(rx'[s].by)
      <3>1. \A s \in Sides : s # side =>
              \/ sock'[s] = Expected(s) /\ wkc'[s] = EC_NOFRAME
              \/ sock'[s] = <<>> /\ Expected(s) = <<rx'[s]>> /\ wkc'[s] = Len(rx'[s].by)
        BY <1>2, <2>2, <2>8 DEF QuietInv
      <3> QED BY <2>6, <2>7, <3>1
    <2>10. \A s \in Sides :
             \/ sock'[s] = Expected(s)' /\ wkc'[s] = EC_NOFRAME
             \/ sock'[s] = <<>> /\ Expected(s)' = <<rx'[s]>> /\ wkc'[s] = Len(rx'[s].by)
      BY <1>0, <1>5, <2>9
    <2> QED BY <1>4, <2>2, <2>10 DEF QuietInv
  <1>9. CASE Normal
    <2>1. /\ Came("prim") = "sec" /\ Came("sec") = "prim" /\ redpc' = "return" /\ redpc = "wait"
          /\ rx' = [rx EXCEPT !["prim"] = rx["sec"]] /\ wkc' = [wkc EXCEPT !["prim"] = wkc["sec"]]
          /\ \A s \in Sides : sock[s] = <<>>
      BY <1>9 DEF Normal, WaitOver, NoteMissed
    <2>2. rx["sec"] = Command(Run(1, N)) /\ wkc["sec"] = N
      BY <1>2, <2>1, CameExpected
    <2>3. rx'["prim"] = Command(Run(1, N)) /\ wkc'["prim"] = N
      BY <1>0, <2>1, <2>2
    <2> QED BY <1>4, <2>1, <2>3 DEF QuietInv
  <1>10. CASE Resend
    <2>1. /\ txby' = (IF Came("prim") = "prim" THEN rx["prim"].by ELSE txby)
          /\ Travel("sec", Command(txby')) /\ Came("sec") = "sec"
          /\ redpc' = "rewait" /\ redpc = "wait" /\ txby = <<>>
          /\ \A s \in Sides : sock[s] = <<>>
      BY <1>10 DEF Resend, WaitOver, Command, NoteMissed, BackInv
    <2>2. PICK k \in 0 .. N - 1 :
             /\ cut = {k}
             /\ \/ k = 0 /\ Came("prim") = "none"
                \/ k > 0 /\ Came("prim") = "prim" /\ rx["prim"] = Command(Run(1, k))
      BY <1>2, <2>1, CameExpected
    <2>0. k \in 0 .. N /\ cut # {} /\ N \notin cut
      BY <2>2
    <2>3. txby' = Run(1, k)
      <3>1. CASE k = 0
        BY <2>1, <2>2, <3>1 DEF Run
      <3>2. CASE k > 0
        <4>1. Command(Run(1, k)).by = Run(1, k)
          BY DEF Command, Frame
        <4> QED BY <2>1, <2>2, <3>2, <4>1
      <3> QED BY <2>0, <3>1, <3>2
    <2>4. txby' \in Seq(1 .. N)
      BY <2>0, <2>3, RunTo
    <2>5. ASSUME NEW m \in 0 .. N - 1, m \in cut,
                 Put("sec", [Command(txby') EXCEPT !.by = @ \o Run(m + 1, N)])
          PROVE  sock'["sec"] = <<Command(Run(1, N))>>
      <3>1. m = k
        BY <2>2, <2>5
      <3>2. Put("sec", Command(txby' \o Run(m + 1, N)))
        BY <2>4, <2>5, ResentBack
      <3>3. Run(1, k) \o Run(k + 1, N) = Run(1, N)
        <4>1. k <= k
          BY <2>0
        <4> QED BY <2>0, <4>1, JoinIs
      <3>4. Put("sec", Command(Run(1, N)))
        BY <2>3, <3>1, <3>2, <3>3
      <3>5. sock["sec"] = <<>> /\ sock'["sec"] = Append(sock["sec"], Command(Run(1, N)))
        BY <1>0, <2>1, <3>4 DEF Put
      <3> HIDE DEF Command
      <3> QED BY <3>5
    <2>6. sock'["sec"] = <<Command(Run(1, N))>>
      BY <1>0, <2>0, <2>1, <2>5, SecTravels
    <2>7. Command(Run(1, N))' = Command(Run(1, N))
      BY DEF Command, Run, Frame
    <2> QED BY <1>4, <2>1, <2>6, <2>7 DEF QuietInv
  <1>11. CASE NoRepair
    <2>1. /\ redpc' = "return" /\ redpc = "wait" /\ rx' = rx /\ wkc' = wkc
          /\ \A s \in Sides : sock[s] = <<>>
          /\ ~ (Came("prim") = "sec" /\ Came("sec") = "prim")
          /\ ~ (Came("prim") \in {"none", "prim"} /\ Came("sec") = "sec")
      BY <1>11 DEF NoRepair, WaitOver, NoteMissed
    <2>2. rx["prim"] = Command(Run(1, N)) /\ wkc["prim"] = N
      BY <1>2, <2>1, CameExpected
    <2> QED BY <1>4, <2>1, <2>2 DEF QuietInv
  <1>12. CASE Rewait
    <2>1. /\ redpc = "rewait" /\ redpc' = "return"
          /\ rx' = [s \in Sides |-> Head(sock["sec"])]
          /\ wkc' = [s \in Sides |-> Len(Head(sock["sec"]).by)]
      BY <1>12 DEF Rewait, Wkc
    <2>2. Head(sock["sec"]) = Command(Run(1, N))
      BY <1>2, <2>1 DEF QuietInv
    <2>3. Len(Command(Run(1, N)).by) = N
      BY RunTo, CommandIs
    <2>4. rx'["prim"] = Command(Run(1, N)) /\ wkc'["prim"] = N
      BY <1>0, <2>1, <2>2, <2>3
    <2> QED BY <1>4, <2>1, <2>4 DEF QuietInv
  <1>13. ~RewaitOver
    <2>1. ASSUME RewaitOver
          PROVE  FALSE
      <3>1. sock["sec"] = <<>> /\ redpc = "rewait"
        BY <1>0, <2>1 DEF RewaitOver, NoteMissed
      <3> QED BY <1>2, <3>1 DEF QuietInv
    <2> QED BY <2>1
  <1>14. ~RetryConfirm
    <2>1. ASSUME RetryConfirm
          PROVE  FALSE
      <3>1. redpc = "return" /\ wkc["prim"] <= EC_NOFRAME
        BY <2>1 DEF RetryConfirm
      <3> QED BY <1>2, <3>1 DEF QuietInv
    <2> QED BY <2>1
  <1>15. CASE Done
    <2>1. redpc = "return" /\ redpc' = "done" /\ rx' = rx /\ wkc' = wkc
      BY <1>15 DEF Done
    <2>2. rx["prim"] = Command(Run(1, N)) /\ wkc["prim"] = N
      BY <1>2, <2>1 DEF QuietInv
    <2> QED BY <1>4, <2>1, <2>2 DEF QuietInv
  <1>16. CASE UNCHANGED redvars
    <2>1. UNCHANGED <<sock, redpc, wkc, rx>> /\ \A s \in Sides : Expected(s)' = Expected(s)
      BY <1>0, <1>5, <1>16 DEF redvars
    <2> QED BY <1>0, <1>2, <1>4, <1>5, <2>1 DEF QuietInv
  <1> QED BY <1>1, <1>6, <1>7, <1>8, <1>9, <1>10, <1>11, <1>12, <1>13, <1>14, <1>15, <1>16
          DEF RedNext, Driver

-------------------------------------------------------------------------------
(* The theorems *)

RedundancyInv == TypeInv /\ BackInv /\ OrderInv /\ DummyInv /\ QuietInv

LEMMA RedInitInv ==
  ASSUME RedInit
  PROVE  RedundancyInv
  <1>0. /\ sock = [s \in Sides |-> <<>>] /\ wkc = [s \in Sides |-> EC_NOFRAME]
        /\ rx = [s \in Sides |-> NoFrame] /\ redpc = "outprim" /\ txby = <<>>
        /\ leftover = FALSE /\ missed = FALSE /\ changes = 0 /\ try = 1
        /\ cut = {} \/ \E k \in Cables : cut = {k}
        /\ "prim" \in Sides /\ "sec" \in Sides
    BY DEF RedInit, Sides
  <1>1. sock \in [Sides -> Seq(RedFrames)] /\ sock \in [Sides -> Seq(Ordered)]
    BY <1>0
  <1>2. TypeInv
    <2>1. /\ cut \subseteq Cables /\ changes \in 0 .. MaxChange /\ try \in 1 .. MaxTry
          /\ txby \in Seq(1 .. N) /\ leftover \in BOOLEAN /\ missed \in BOOLEAN
      <3>1. 0 \in 0 .. MaxChange /\ 1 \in 1 .. MaxTry /\ <<>> \in Seq(1 .. N)
        OBVIOUS
      <3>2. cut \subseteq Cables
        BY <1>0
      <3> QED BY <1>0, <3>1, <3>2, Zenon
    <2>2. \A s \in Sides : wkc[s] = EC_NOFRAME /\ rx[s] = NoFrame /\ NoFrame.mac = "none"
      BY <1>0 DEF NoFrame, Frame
    <2>3. \A s \in Sides : ~(wkc[s] > EC_NOFRAME)
      BY <2>2
    <2>4. RedTypeOK
      BY <1>0, <2>1, <2>2, <2>3 DEF RedTypeOK
    <2> QED BY <1>0, <1>1, <2>3, <2>4 DEF TypeInv
  <1>3. BackInv
    BY <1>0 DEF BackInv
  <1>4. OrderInv
    BY <1>0, <1>1 DEF OrderInv
  <1>5. DummyInv
    BY <1>0 DEF DummyInv
  <1>6. QuietInv
    BY <1>0 DEF QuietInv
  <1> QED BY <1>2, <1>3, <1>4, <1>5, <1>6 DEF RedundancyInv

LEMMA InvStep ==
  ASSUME RedundancyInv, [RedNext]_redvars
  PROVE  RedundancyInv'
  <1>1. TypeInv'
    BY RedTypeStep DEF RedundancyInv
  <1>2. BackInv'
    BY BackStep DEF RedundancyInv
  <1>3. OrderInv'
    BY OrderStep DEF RedundancyInv
  <1>4. DummyInv'
    BY DummyStep DEF RedundancyInv
  <1>5. QuietInv'
    BY QuietStep DEF RedundancyInv
  <1> QED BY <1>1, <1>2, <1>3, <1>4, <1>5 DEF RedundancyInv

LEMMA RedundancyIsInv == RedSpec => []RedundancyInv
  <1>1. RedInit => RedundancyInv
    BY RedInitInv
  <1>2. RedundancyInv /\ [RedNext]_redvars => RedundancyInv'
    BY InvStep
  <1> QED BY <1>1, <1>2, PTL DEF RedSpec

\* What ecx_srconfirm hands to its caller is the command and not the dummy, with
\* the work counter of the very buffer it returns, and no slave executed it
\* twice, whatever cables break and mend, frames get lost and attempts it takes.
THEOREM AnswersAreSound == RedSpec => []AnswerSound
  <1>1. RedundancyInv => AnswerSound
    <2> SUFFICES ASSUME RedundancyInv
                 PROVE  AnswerSound
      OBVIOUS
    <2>0. /\ "prim" \in Sides /\ wkc \in [Sides -> {EC_NOFRAME} \cup Nat]
          /\ wkc["prim"] > EC_NOFRAME => wkc["prim"] = Len(rx["prim"].by) /\ rx["prim"] \in RedFrames
      BY DEF RedundancyInv, TypeInv, Sides
    <2>1. RedTypeOK
      BY DEF RedundancyInv, TypeInv
    <2>2. WkcMatchesBuffer
      BY <2>0 DEF WkcMatchesBuffer, Answer
    <2>3. AnswerIsCommand
      BY DEF RedundancyInv, DummyInv, AnswerIsCommand, Answered, Answer
    <2>4. NoSlaveTwice
      <3>1. ASSUME Answered, changes < 2
            PROVE  Increasing(rx["prim"].by)
        <4>1. rx["prim"] \in RedFrames /\ rx["prim"] \in Ordered \cup {NoFrame}
          BY <2>0, <3>1 DEF Answered, RedundancyInv, OrderInv
        <4>2. rx["prim"] # NoFrame
          BY <4>1, FrameLen
        <4> QED BY <4>1, <4>2 DEF Ordered
      <3> QED BY <3>1 DEF NoSlaveTwice, Answer, Increasing
    <2> QED BY <2>1, <2>2, <2>3, <2>4 DEF AnswerSound
  <1> QED BY <1>1, RedundancyIsInv, PTL

\* A line with at most one cable cut is serviced by the one ecx_srconfirm as if
\* it were whole: the answer is the command, through all slaves, in their order.
THEOREM LineIsServiced == RedSpec => []AllServiced
  <1>1. RedundancyInv => AllServiced
    <2> SUFFICES ASSUME RedundancyInv, redpc = "done", changes = 0, ~missed
                 PROVE  Answered /\ Answer.kind = "command" /\ Answer.by = Run(1, N)
      BY DEF AllServiced
    <2>1. rx["prim"] = Command(Run(1, N)) /\ wkc["prim"] = N
      BY DEF RedundancyInv, QuietInv
    <2>2. wkc["prim"] > 0
      BY <2>1
    <2> QED BY <2>1, <2>2 DEF Answered, Answer, Command, Frame
  <1> QED BY <1>1, RedundancyIsInv, PTL

-------------------------------------------------------------------------------
(* Frame buffers *)
USE MaxBufAssumption, BoundAssumption, SendAssumption, NoneAssumption

\* getindex_mutex is held by exactly the thread inside ecx_getindex.
MutexInv ==
    \A t \in Threads : pc[t] \in {"scan", "alloc"} <=> getindex_mutex = t

\* A thread that may transmit has built its frame, one that stores a frame for
\* another thread has it, and one that is in a call has counted it.
LocalInv ==
    \A t \in Threads :
       /\ pc[t] = "store" => held[t] # None
       /\ pc[t] # "idle" => nreq[t] >= 1
       /\ pc[t] = "idle" => cnt[t] = 0
       /\ pc[t] \in Owning \ {"setup"} => txbuf[idx[t]] # None

\* No slot has been taken from its owner.
Undisturbed == mishap \cap {"steal", "sendfail"} = {}

\* An owned slot is not EMPTY, so a scan passes it by; and the slot a scan has
\* settled on is nobody's.
OwnedInv ==
    Undisturbed =>
       \A t \in Threads :
          /\ pc[t] \in Owning => rxbufstat[idx[t]] # "EMPTY"
          /\ pc[t] = "alloc" =>
                \A u \in Threads : pc[u] \in Owning => idx[u] # idx[t]

\* The slots a scan has still to look at.
Ahead(t) ==
    {i \in Idx : (IF i >= idx[t] THEN i - idx[t] ELSE i + MaxBuf - idx[t])
                    < MaxBuf - cnt[t]}

Intact == mishap \cap {"leak", "sendfail"} = {}

\* With no more threads than slots, a scan always has a free slot ahead of it.
ScanInv ==
    Cardinality(Threads) <= MaxBuf /\ Intact =>
       /\ "steal" \notin mishap
       /\ \A t \in Threads : pc[t] = "scan" =>
             \E i \in Ahead(t) : rxbufstat[i] = "EMPTY"

\* Everything that carries the index of thread t in the port belongs to the
\* request t is making: its frame, the frames that are under way, and what is
\* stored in its slot or copied out of it.
SlotIsMine(t) ==
    /\ pc[t] # "setup" => txbuf[idx[t]] = Req(t)
    /\ \A f \in net : f.idx = idx[t] => f.req = Req(t)
    /\ \A u \in Threads :
          held[u] # None /\ held[u].idx = idx[t] => held[u].req = Req(t)
    /\ rxbufstat[idx[t]] \in {"RCVD", "COMPLETE"} => rxbuf[idx[t]] = Req(t)
    /\ pc[t] \in {"take", "use"} => rxbuf[idx[t]] = Req(t)
    /\ got[t] # None => got[t] = Req(t)

\* That holds from the moment an index with no frames outstanding is handed
\* out until it is released.
AnswerInv ==
    /\ \A t \in Threads : pc[t] \notin Owning => got[t] = None
    /\ Undisturbed =>
          \A t \in Threads : pc[t] \in Owning /\ ~overdue[t] => SlotIsMine(t)

LEMMA NextIdxType == \A i \in Idx : NextIdx(i) \in Idx
  BY DEF NextIdx, Idx

LEMMA InitInv == Init => TypeOK /\ MutexInv /\ LocalInv /\ OwnedInv /\ IndexExclusive /\ NoLeak
  <1> SUFFICES ASSUME Init
               PROVE  TypeOK /\ MutexInv /\ LocalInv /\ OwnedInv
                        /\ IndexExclusive /\ NoLeak
    OBVIOUS
  <1>1. 0 \in Idx /\ 0 \in 0 .. MaxBuf /\ 0 \in 0 .. MaxReq /\ 0 \in 0 .. MaxSend
    BY DEF Idx
  <1>2. TypeOK
    BY <1>1 DEF Init, TypeOK, Status, Mishaps
  <1>3. MutexInv /\ LocalInv /\ OwnedInv /\ IndexExclusive
    BY DEF Init, MutexInv, LocalInv, OwnedInv, IndexExclusive, Owning
  <1>4. NoLeak
    BY DEF Init, NoLeak
  <1> QED BY <1>2, <1>3, <1>4

\* Every step keeps the types.
LEMMA TypeStep ==
  ASSUME TypeOK, LocalInv, [Next]_vars
  PROVE  TypeOK'
  <1>1. ASSUME NEW t \in Threads, GetIndexLock(t) PROVE TypeOK'
    <2>1. NextIdx(lastidx) \in Idx
      BY NextIdxType DEF TypeOK
    <2>2. nreq[t] + 1 \in 0 .. MaxReq
      BY <1>1 DEF GetIndexLock, TypeOK
    <2> QED BY <1>1, <2>1, <2>2 DEF GetIndexLock, Goto, TypeOK
  <1>2. ASSUME NEW t \in Threads, ScanNext(t) PROVE TypeOK'
    <2>1. NextIdx(idx[t]) \in Idx
      BY NextIdxType DEF TypeOK
    <2>2. cnt[t] + 1 \in 0 .. MaxBuf
      BY <1>2 DEF ScanNext, TypeOK
    <2> QED BY <1>2, <2>1, <2>2 DEF ScanNext, portVars, TypeOK
  <1>3. ASSUME NEW t \in Threads, ScanDone(t) PROVE TypeOK'
    BY <1>3 DEF ScanDone, Goto, portVars, threadVars, TypeOK, Idx, Status,
       Owning, Mishaps, Requests, Frames, Req, LocalInv
  <1>4. ASSUME NEW t \in Threads, Alloc(t) PROVE TypeOK'
    <2>1. Outstanding(idx[t]) \in BOOLEAN
      BY DEF Outstanding
    <2>2. idx[t] \in Idx
      BY DEF TypeOK
    <2> QED BY <1>4, <2>1, <2>2 DEF Alloc, Goto, TypeOK, Status, Owning
  <1>5. ASSUME NEW t \in Threads, SetupDatagram(t) PROVE TypeOK'
    <2>1. Req(t) \in Requests
      BY <1>5 DEF SetupDatagram, Req, Requests, LocalInv, TypeOK
    <2> QED BY <1>5, <2>1 DEF SetupDatagram, Goto, TypeOK, Owning
  <1>6. ASSUME NEW t \in Threads, OutframeMark(t) PROVE TypeOK'
    BY <1>6 DEF OutframeMark, Goto, portVars, threadVars, TypeOK, Idx,
       Status, Owning, Mishaps, Requests, Frames, Req, LocalInv
  <1>7. ASSUME NEW t \in Threads, Send(t) PROVE TypeOK'
    <2>1. nsend[t] + 1 \in 0 .. MaxSend /\ nsend[t] + 1 \in 1 .. MaxSend
      BY <1>7 DEF Send, TypeOK
    <2>2. txbuf[idx[t]] \in Requests /\ idx[t] \in Idx
      BY <1>7 DEF Send, TypeOK, LocalInv, Owning
    <2>3. [idx |-> idx[t], req |-> txbuf[idx[t]],
         n |-> nsend[t] + 1] \in Frames
      BY <2>1, <2>2 DEF Frames
    <2> QED BY <1>7, <2>1, <2>3 DEF Send, Goto, portVars, TypeOK, Owning
  <1>8. ASSUME NEW t \in Threads, SendFailed(t) PROVE TypeOK'
    <2>1. nsend[t] + 1 \in 0 .. MaxSend
      BY <1>8 DEF SendFailed, TypeOK
    <2> QED BY <1>8, <2>1 DEF SendFailed, Goto, TypeOK, Status, Owning,
         Mishaps
  <1>9. ASSUME NEW t \in Threads, InframeStored(t) PROVE TypeOK'
    BY <1>9 DEF InframeStored, Goto, portVars, threadVars, TypeOK, Idx,
       Status, Owning, Mishaps, Requests, Frames, Req, LocalInv
  <1>10. ASSUME NEW t \in Threads, InframeTake(t) PROVE TypeOK'
    BY <1>10 DEF InframeTake, Goto, portVars, threadVars, TypeOK, Idx,
       Status, Owning, Mishaps, Requests, Frames, Req, LocalInv
  <1>11. ASSUME NEW t \in Threads, InframeNotStored(t) PROVE TypeOK'
    BY <1>11 DEF InframeNotStored, Goto, portVars, threadVars, TypeOK, Idx,
       Status, Owning, Mishaps, Requests, Frames, Req, LocalInv
  <1>12. ASSUME NEW t \in Threads, InframeLock(t) PROVE TypeOK'
    BY <1>12 DEF InframeLock, Goto, portVars, threadVars, TypeOK, Idx,
       Status, Owning, Mishaps, Requests, Frames, Req, LocalInv
  <1>13. ASSUME NEW t \in Threads, RecvNothing(t) PROVE TypeOK'
    BY <1>13 DEF RecvNothing, Goto, portVars, threadVars, TypeOK, Idx,
       Status, Owning, Mishaps, Requests, Frames, Req, LocalInv
  <1>14. ASSUME NEW t \in Threads, RecvOwn(t) PROVE TypeOK'
    BY <1>14 DEF RecvOwn, Goto, portVars, threadVars, TypeOK, Idx, Status,
       Owning, Mishaps, Requests, Frames, Req, LocalInv
  <1>15. ASSUME NEW t \in Threads, RecvOther(t) PROVE TypeOK'
    <2>1. \E f \in net :
             /\ net' \subseteq net
             /\ held' \in {held, [held EXCEPT ![t] = f]}
             /\ rx_mutex' \in {rx_mutex, None}
             /\ \/ pc' = [pc EXCEPT ![t] = "store"]
                \/ pc' = [pc EXCEPT ![t] = "timer"]
      BY <1>15 DEF RecvOther, Goto
    <2>2. UNCHANGED <<rxbufstat, rxbuf, txbuf, lastidx, getindex_mutex, idx,
         cnt,
                      nreq, nsend, got, overdue, mishap>>
      BY <1>15 DEF RecvOther
    <2> QED BY <2>1, <2>2 DEF TypeOK, Owning
  <1>16. ASSUME NEW t \in Threads, StoreOther(t) PROVE TypeOK'
    BY <1>16 DEF StoreOther, Goto, portVars, threadVars, TypeOK, Idx, Status,
       Owning, Mishaps, Requests, Frames, Req, LocalInv
  <1>17. ASSUME NEW t \in Threads, PollAgain(t) PROVE TypeOK'
    BY <1>17 DEF PollAgain, Goto, portVars, threadVars, TypeOK, Idx, Status,
       Owning, Mishaps, Requests, Frames, Req, LocalInv
  <1>18. ASSUME NEW t \in Threads, Retry(t) PROVE TypeOK'
    BY <1>18 DEF Retry, Goto, portVars, threadVars, TypeOK, Idx, Status,
       Owning, Mishaps, Requests, Frames, Req, LocalInv
  <1>19. ASSUME NEW t \in Threads, GiveUp(t) PROVE TypeOK'
    BY <1>19 DEF GiveUp, Goto, portVars, threadVars, TypeOK, Idx, Status,
       Owning, Mishaps, Requests, Frames, Req, LocalInv
  <1>20. ASSUME NEW t \in Threads, UseAnswer(t) PROVE TypeOK'
    BY <1>20 DEF UseAnswer, Goto, portVars, threadVars, TypeOK, Idx, Status,
       Owning, Mishaps, Requests, Frames, Req, LocalInv
  <1>21. ASSUME NEW t \in Threads, Release(t) PROVE TypeOK'
    <2>1. 0 \in Idx /\ 0 \in 0 .. MaxBuf /\ 0 \in 0 .. MaxSend
      BY DEF Idx
    <2> QED BY <1>21, <2>1 DEF Release, EndCall, Goto, TypeOK, Status, Owning
  <1>22. CASE LoseFrame
    BY <1>22 DEF LoseFrame, portVars, threadVars, TypeOK, Idx, Status,
       Owning, Mishaps, Requests, Frames, Req, LocalInv
  <1>23. CASE UNCHANGED vars
    BY <1>23 DEF vars, portVars, threadVars, TypeOK, Idx, Status, Owning,
       Mishaps, Requests, Frames, Req, LocalInv
  <1> QED BY <1>1, <1>2, <1>3, <1>4, <1>5, <1>6, <1>7, <1>8, <1>9, <1>10, 
             <1>11, <1>12, <1>13, <1>14, <1>15, <1>16, <1>17, <1>18, <1>19, 
             <1>20, <1>21, <1>22, <1>23
         DEF Next, ThreadStep, Inframe

\* Every step keeps getindex_mutex with the thread inside ecx_getindex.
LEMMA MutexStep ==
  ASSUME TypeOK, MutexInv, [Next]_vars
  PROVE  MutexInv'
  <1>1. ASSUME NEW t \in Threads, GetIndexLock(t) PROVE MutexInv'
    BY <1>1 DEF GetIndexLock, Goto, portVars, threadVars, TypeOK, MutexInv,
       Owning
  <1>2. ASSUME NEW t \in Threads, ScanNext(t) PROVE MutexInv'
    BY <1>2 DEF ScanNext, Goto, portVars, threadVars, TypeOK, MutexInv, Owning
  <1>3. ASSUME NEW t \in Threads, ScanDone(t) PROVE MutexInv'
    BY <1>3 DEF ScanDone, Goto, portVars, threadVars, TypeOK, MutexInv, Owning
  <1>4. ASSUME NEW t \in Threads, Alloc(t) PROVE MutexInv'
    BY <1>4 DEF Alloc, Goto, portVars, threadVars, TypeOK, MutexInv, Owning
  <1>5. ASSUME NEW t \in Threads, SetupDatagram(t) PROVE MutexInv'
    BY <1>5 DEF SetupDatagram, Goto, portVars, threadVars, TypeOK, MutexInv,
       Owning
  <1>6. ASSUME NEW t \in Threads, OutframeMark(t) PROVE MutexInv'
    BY <1>6 DEF OutframeMark, Goto, portVars, threadVars, TypeOK, MutexInv,
       Owning
  <1>7. ASSUME NEW t \in Threads, Send(t) PROVE MutexInv'
    BY <1>7 DEF Send, Goto, portVars, threadVars, TypeOK, MutexInv, Owning
  <1>8. ASSUME NEW t \in Threads, SendFailed(t) PROVE MutexInv'
    BY <1>8 DEF SendFailed, Goto, portVars, threadVars, TypeOK, MutexInv,
       Owning
  <1>9. ASSUME NEW t \in Threads, InframeStored(t) PROVE MutexInv'
    BY <1>9 DEF InframeStored, Goto, portVars, threadVars, TypeOK, MutexInv,
       Owning
  <1>10. ASSUME NEW t \in Threads, InframeTake(t) PROVE MutexInv'
    BY <1>10 DEF InframeTake, Goto, portVars, threadVars, TypeOK, MutexInv,
       Owning
  <1>11. ASSUME NEW t \in Threads, InframeNotStored(t) PROVE MutexInv'
    BY <1>11 DEF InframeNotStored, Goto, portVars, threadVars, TypeOK,
       MutexInv, Owning
  <1>12. ASSUME NEW t \in Threads, InframeLock(t) PROVE MutexInv'
    BY <1>12 DEF InframeLock, Goto, portVars, threadVars, TypeOK, MutexInv,
       Owning
  <1>13. ASSUME NEW t \in Threads, RecvNothing(t) PROVE MutexInv'
    BY <1>13 DEF RecvNothing, Goto, portVars, threadVars, TypeOK, MutexInv,
       Owning
  <1>14. ASSUME NEW t \in Threads, RecvOwn(t) PROVE MutexInv'
    BY <1>14 DEF RecvOwn, Goto, portVars, threadVars, TypeOK, MutexInv, Owning
  <1>15. ASSUME NEW t \in Threads, RecvOther(t) PROVE MutexInv'
    BY <1>15 DEF RecvOther, Goto, portVars, threadVars, TypeOK, MutexInv,
       Owning
  <1>16. ASSUME NEW t \in Threads, StoreOther(t) PROVE MutexInv'
    BY <1>16 DEF StoreOther, Goto, portVars, threadVars, TypeOK, MutexInv,
       Owning
  <1>17. ASSUME NEW t \in Threads, PollAgain(t) PROVE MutexInv'
    BY <1>17 DEF PollAgain, Goto, portVars, threadVars, TypeOK, MutexInv,
       Owning
  <1>18. ASSUME NEW t \in Threads, Retry(t) PROVE MutexInv'
    BY <1>18 DEF Retry, Goto, portVars, threadVars, TypeOK, MutexInv, Owning
  <1>19. ASSUME NEW t \in Threads, GiveUp(t) PROVE MutexInv'
    BY <1>19 DEF GiveUp, Goto, portVars, threadVars, TypeOK, MutexInv, Owning
  <1>20. ASSUME NEW t \in Threads, UseAnswer(t) PROVE MutexInv'
    BY <1>20 DEF UseAnswer, Goto, portVars, threadVars, TypeOK, MutexInv,
       Owning
  <1>21. ASSUME NEW t \in Threads, Release(t) PROVE MutexInv'
    BY <1>21 DEF Release, Goto, portVars, threadVars, TypeOK, MutexInv,
       Owning, EndCall
  <1>22. CASE LoseFrame
    BY <1>22 DEF LoseFrame, portVars, threadVars, TypeOK, MutexInv, Owning
  <1>23. CASE UNCHANGED vars
    BY <1>23 DEF vars, portVars, threadVars, TypeOK, MutexInv, Owning
  <1> QED BY <1>1, <1>2, <1>3, <1>4, <1>5, <1>6, <1>7, <1>8, <1>9, <1>10, 
             <1>11, <1>12, <1>13, <1>14, <1>15, <1>16, <1>17, <1>18, <1>19, 
             <1>20, <1>21, <1>22, <1>23
         DEF Next, ThreadStep, Inframe

\* Every step keeps what the later ones rely on.
LEMMA LocalStep ==
  ASSUME TypeOK, LocalInv, [Next]_vars
  PROVE  LocalInv'
  <1>1. ASSUME NEW t \in Threads, GetIndexLock(t) PROVE LocalInv'
    BY <1>1 DEF GetIndexLock, Goto, portVars, threadVars, TypeOK, LocalInv,
       Owning, Req
  <1>2. ASSUME NEW t \in Threads, ScanNext(t) PROVE LocalInv'
    BY <1>2 DEF ScanNext, Goto, portVars, threadVars, TypeOK, LocalInv,
       Owning, Req
  <1>3. ASSUME NEW t \in Threads, ScanDone(t) PROVE LocalInv'
    BY <1>3 DEF ScanDone, Goto, portVars, threadVars, TypeOK, LocalInv,
       Owning, Req
  <1>4. ASSUME NEW t \in Threads, Alloc(t) PROVE LocalInv'
    BY <1>4 DEF Alloc, Goto, portVars, threadVars, TypeOK, LocalInv, Owning,
       Req
  <1>5. ASSUME NEW t \in Threads, SetupDatagram(t) PROVE LocalInv'
    <2>1. Req(t) # None
      BY <1>5 DEF SetupDatagram, Req, Requests, LocalInv, TypeOK
    <2> QED BY <1>5, <2>1 DEF SetupDatagram, Goto, TypeOK, LocalInv, Owning
  <1>6. ASSUME NEW t \in Threads, OutframeMark(t) PROVE LocalInv'
    BY <1>6 DEF OutframeMark, Goto, portVars, threadVars, TypeOK, LocalInv,
       Owning, Req
  <1>7. ASSUME NEW t \in Threads, Send(t) PROVE LocalInv'
    BY <1>7 DEF Send, Goto, portVars, threadVars, TypeOK, LocalInv, Owning,
       Req
  <1>8. ASSUME NEW t \in Threads, SendFailed(t) PROVE LocalInv'
    BY <1>8 DEF SendFailed, Goto, portVars, threadVars, TypeOK, LocalInv,
       Owning, Req
  <1>9. ASSUME NEW t \in Threads, InframeStored(t) PROVE LocalInv'
    BY <1>9 DEF InframeStored, Goto, portVars, threadVars, TypeOK, LocalInv,
       Owning, Req
  <1>10. ASSUME NEW t \in Threads, InframeTake(t) PROVE LocalInv'
    BY <1>10 DEF InframeTake, Goto, portVars, threadVars, TypeOK, LocalInv,
       Owning, Req
  <1>11. ASSUME NEW t \in Threads, InframeNotStored(t) PROVE LocalInv'
    BY <1>11 DEF InframeNotStored, Goto, portVars, threadVars, TypeOK,
       LocalInv, Owning, Req
  <1>12. ASSUME NEW t \in Threads, InframeLock(t) PROVE LocalInv'
    BY <1>12 DEF InframeLock, Goto, portVars, threadVars, TypeOK, LocalInv,
       Owning, Req
  <1>13. ASSUME NEW t \in Threads, RecvNothing(t) PROVE LocalInv'
    BY <1>13 DEF RecvNothing, Goto, portVars, threadVars, TypeOK, LocalInv,
       Owning, Req
  <1>14. ASSUME NEW t \in Threads, RecvOwn(t) PROVE LocalInv'
    BY <1>14 DEF RecvOwn, Goto, portVars, threadVars, TypeOK, LocalInv,
       Owning, Req
  <1>15. ASSUME NEW t \in Threads, RecvOther(t) PROVE LocalInv'
    <2>1. \A f \in net : f # None
      BY DEF TypeOK
    <2>2. UNCHANGED <<txbuf, idx, cnt, nreq>>
      BY <1>15 DEF RecvOther
    <2>3. /\ pc' \in [Threads -> Owning \cup {"idle", "scan", "alloc"}]
          /\ pc[t] = "recv" /\ pc'[t] \in {"store", "timer"}
          /\ \A u \in Threads \ {t} : pc'[u] = pc[u] /\ held'[u] = held[u]
          /\ pc'[t] = "store" => held'[t] # None
      BY <1>15, <2>1 DEF RecvOther, Goto, TypeOK, Owning
    <2> QED BY <2>2, <2>3 DEF TypeOK, LocalInv, Owning
  <1>16. ASSUME NEW t \in Threads, StoreOther(t) PROVE LocalInv'
    BY <1>16 DEF StoreOther, Goto, portVars, threadVars, TypeOK, LocalInv,
       Owning, Req
  <1>17. ASSUME NEW t \in Threads, PollAgain(t) PROVE LocalInv'
    BY <1>17 DEF PollAgain, Goto, portVars, threadVars, TypeOK, LocalInv,
       Owning, Req
  <1>18. ASSUME NEW t \in Threads, Retry(t) PROVE LocalInv'
    BY <1>18 DEF Retry, Goto, portVars, threadVars, TypeOK, LocalInv, Owning,
       Req
  <1>19. ASSUME NEW t \in Threads, GiveUp(t) PROVE LocalInv'
    BY <1>19 DEF GiveUp, Goto, portVars, threadVars, TypeOK, LocalInv,
       Owning, Req
  <1>20. ASSUME NEW t \in Threads, UseAnswer(t) PROVE LocalInv'
    BY <1>20 DEF UseAnswer, Goto, portVars, threadVars, TypeOK, LocalInv,
       Owning, Req
  <1>21. ASSUME NEW t \in Threads, Release(t) PROVE LocalInv'
    BY <1>21 DEF Release, Goto, portVars, threadVars, TypeOK, LocalInv,
       Owning, Req, EndCall
  <1>22. CASE LoseFrame
    BY <1>22 DEF LoseFrame, portVars, threadVars, TypeOK, LocalInv, Owning,
       Req
  <1>23. CASE UNCHANGED vars
    BY <1>23 DEF vars, portVars, threadVars, TypeOK, LocalInv, Owning, Req
  <1> QED BY <1>1, <1>2, <1>3, <1>4, <1>5, <1>6, <1>7, <1>8, <1>9, <1>10, 
             <1>11, <1>12, <1>13, <1>14, <1>15, <1>16, <1>17, <1>18, <1>19, 
             <1>20, <1>21, <1>22, <1>23
         DEF Next, ThreadStep, Inframe

\* Owned slots stay marked, and a scan settles on a free slot.
LEMMA OwnedStep ==
  ASSUME TypeOK, MutexInv, LocalInv, OwnedInv, IndexExclusive, [Next]_vars
  PROVE  OwnedInv'
  <1>1. ASSUME NEW t \in Threads, GetIndexLock(t) PROVE OwnedInv'
    BY <1>1 DEF GetIndexLock, Goto, portVars, threadVars, TypeOK, MutexInv,
       LocalInv, OwnedInv, IndexExclusive, Undisturbed, Owning
  <1>2. ASSUME NEW t \in Threads, ScanNext(t) PROVE OwnedInv'
    BY <1>2 DEF ScanNext, Goto, portVars, threadVars, TypeOK, MutexInv,
       LocalInv, OwnedInv, IndexExclusive, Undisturbed, Owning
  <1>3. ASSUME NEW t \in Threads, ScanDone(t) PROVE OwnedInv'
    BY <1>3 DEF ScanDone, Goto, portVars, threadVars, TypeOK, MutexInv,
       LocalInv, OwnedInv, IndexExclusive, Undisturbed, Owning
  <1>4. ASSUME NEW t \in Threads, Alloc(t) PROVE OwnedInv'
    BY <1>4 DEF Alloc, Goto, portVars, threadVars, TypeOK, MutexInv,
       LocalInv, OwnedInv, IndexExclusive, Undisturbed, Owning
  <1>5. ASSUME NEW t \in Threads, SetupDatagram(t) PROVE OwnedInv'
    BY <1>5 DEF SetupDatagram, Goto, portVars, threadVars, TypeOK, MutexInv,
       LocalInv, OwnedInv, IndexExclusive, Undisturbed, Owning
  <1>6. ASSUME NEW t \in Threads, OutframeMark(t) PROVE OwnedInv'
    BY <1>6 DEF OutframeMark, Goto, portVars, threadVars, TypeOK, MutexInv,
       LocalInv, OwnedInv, IndexExclusive, Undisturbed, Owning
  <1>7. ASSUME NEW t \in Threads, Send(t) PROVE OwnedInv'
    BY <1>7 DEF Send, Goto, portVars, threadVars, TypeOK, MutexInv, LocalInv,
       OwnedInv, IndexExclusive, Undisturbed, Owning
  <1>8. ASSUME NEW t \in Threads, SendFailed(t) PROVE OwnedInv'
    BY <1>8 DEF SendFailed, Goto, portVars, threadVars, TypeOK, MutexInv,
       LocalInv, OwnedInv, IndexExclusive, Undisturbed, Owning
  <1>9. ASSUME NEW t \in Threads, InframeStored(t) PROVE OwnedInv'
    BY <1>9 DEF InframeStored, Goto, portVars, threadVars, TypeOK, MutexInv,
       LocalInv, OwnedInv, IndexExclusive, Undisturbed, Owning
  <1>10. ASSUME NEW t \in Threads, InframeTake(t) PROVE OwnedInv'
    BY <1>10 DEF InframeTake, Goto, portVars, threadVars, TypeOK, MutexInv,
       LocalInv, OwnedInv, IndexExclusive, Undisturbed, Owning
  <1>11. ASSUME NEW t \in Threads, InframeNotStored(t) PROVE OwnedInv'
    BY <1>11 DEF InframeNotStored, Goto, portVars, threadVars, TypeOK,
       MutexInv, LocalInv, OwnedInv, IndexExclusive, Undisturbed, Owning
  <1>12. ASSUME NEW t \in Threads, InframeLock(t) PROVE OwnedInv'
    BY <1>12 DEF InframeLock, Goto, portVars, threadVars, TypeOK, MutexInv,
       LocalInv, OwnedInv, IndexExclusive, Undisturbed, Owning
  <1>13. ASSUME NEW t \in Threads, RecvNothing(t) PROVE OwnedInv'
    BY <1>13 DEF RecvNothing, Goto, portVars, threadVars, TypeOK, MutexInv,
       LocalInv, OwnedInv, IndexExclusive, Undisturbed, Owning
  <1>14. ASSUME NEW t \in Threads, RecvOwn(t) PROVE OwnedInv'
    BY <1>14 DEF RecvOwn, Goto, portVars, threadVars, TypeOK, MutexInv,
       LocalInv, OwnedInv, IndexExclusive, Undisturbed, Owning
  <1>15. ASSUME NEW t \in Threads, RecvOther(t) PROVE OwnedInv'
    BY <1>15 DEF RecvOther, Goto, portVars, threadVars, TypeOK, MutexInv,
       LocalInv, OwnedInv, IndexExclusive, Undisturbed, Owning
  <1>16. ASSUME NEW t \in Threads, StoreOther(t) PROVE OwnedInv'
    BY <1>16 DEF StoreOther, Goto, portVars, threadVars, TypeOK, MutexInv,
       LocalInv, OwnedInv, IndexExclusive, Undisturbed, Owning
  <1>17. ASSUME NEW t \in Threads, PollAgain(t) PROVE OwnedInv'
    BY <1>17 DEF PollAgain, Goto, portVars, threadVars, TypeOK, MutexInv,
       LocalInv, OwnedInv, IndexExclusive, Undisturbed, Owning
  <1>18. ASSUME NEW t \in Threads, Retry(t) PROVE OwnedInv'
    BY <1>18 DEF Retry, Goto, portVars, threadVars, TypeOK, MutexInv,
       LocalInv, OwnedInv, IndexExclusive, Undisturbed, Owning
  <1>19. ASSUME NEW t \in Threads, GiveUp(t) PROVE OwnedInv'
    BY <1>19 DEF GiveUp, Goto, portVars, threadVars, TypeOK, MutexInv,
       LocalInv, OwnedInv, IndexExclusive, Undisturbed, Owning
  <1>20. ASSUME NEW t \in Threads, UseAnswer(t) PROVE OwnedInv'
    BY <1>20 DEF UseAnswer, Goto, portVars, threadVars, TypeOK, MutexInv,
       LocalInv, OwnedInv, IndexExclusive, Undisturbed, Owning
  <1>21. ASSUME NEW t \in Threads, Release(t) PROVE OwnedInv'
    BY <1>21 DEF Release, Goto, portVars, threadVars, TypeOK, MutexInv,
       LocalInv, OwnedInv, IndexExclusive, Undisturbed, Owning, EndCall
  <1>22. CASE LoseFrame
    BY <1>22 DEF LoseFrame, portVars, threadVars, TypeOK, MutexInv, LocalInv,
       OwnedInv, IndexExclusive, Undisturbed, Owning
  <1>23. CASE UNCHANGED vars
    BY <1>23 DEF vars, portVars, threadVars, TypeOK, MutexInv, LocalInv,
       OwnedInv, IndexExclusive, Undisturbed, Owning
  <1> QED BY <1>1, <1>2, <1>3, <1>4, <1>5, <1>6, <1>7, <1>8, <1>9, <1>10, 
             <1>11, <1>12, <1>13, <1>14, <1>15, <1>16, <1>17, <1>18, <1>19, 
             <1>20, <1>21, <1>22, <1>23
         DEF Next, ThreadStep, Inframe

\* Two owners never meet in one slot.
LEMMA ExclusiveStep ==
  ASSUME TypeOK, MutexInv, OwnedInv, IndexExclusive, [Next]_vars
  PROVE  IndexExclusive'
  <1>1. ASSUME NEW t \in Threads, GetIndexLock(t) PROVE IndexExclusive'
    BY <1>1 DEF GetIndexLock, Goto, portVars, threadVars, TypeOK, MutexInv,
       OwnedInv, IndexExclusive, Undisturbed, Owning
  <1>2. ASSUME NEW t \in Threads, ScanNext(t) PROVE IndexExclusive'
    BY <1>2 DEF ScanNext, Goto, portVars, threadVars, TypeOK, MutexInv,
       OwnedInv, IndexExclusive, Undisturbed, Owning
  <1>3. ASSUME NEW t \in Threads, ScanDone(t) PROVE IndexExclusive'
    BY <1>3 DEF ScanDone, Goto, portVars, threadVars, TypeOK, MutexInv,
       OwnedInv, IndexExclusive, Undisturbed, Owning
  <1>4. ASSUME NEW t \in Threads, Alloc(t) PROVE IndexExclusive'
    BY <1>4 DEF Alloc, Goto, portVars, threadVars, TypeOK, MutexInv,
       OwnedInv, IndexExclusive, Undisturbed, Owning
  <1>5. ASSUME NEW t \in Threads, SetupDatagram(t) PROVE IndexExclusive'
    BY <1>5 DEF SetupDatagram, Goto, portVars, threadVars, TypeOK, MutexInv,
       OwnedInv, IndexExclusive, Undisturbed, Owning
  <1>6. ASSUME NEW t \in Threads, OutframeMark(t) PROVE IndexExclusive'
    BY <1>6 DEF OutframeMark, Goto, portVars, threadVars, TypeOK, MutexInv,
       OwnedInv, IndexExclusive, Undisturbed, Owning
  <1>7. ASSUME NEW t \in Threads, Send(t) PROVE IndexExclusive'
    BY <1>7 DEF Send, Goto, portVars, threadVars, TypeOK, MutexInv, OwnedInv,
       IndexExclusive, Undisturbed, Owning
  <1>8. ASSUME NEW t \in Threads, SendFailed(t) PROVE IndexExclusive'
    BY <1>8 DEF SendFailed, Goto, portVars, threadVars, TypeOK, MutexInv,
       OwnedInv, IndexExclusive, Undisturbed, Owning
  <1>9. ASSUME NEW t \in Threads, InframeStored(t) PROVE IndexExclusive'
    BY <1>9 DEF InframeStored, Goto, portVars, threadVars, TypeOK, MutexInv,
       OwnedInv, IndexExclusive, Undisturbed, Owning
  <1>10. ASSUME NEW t \in Threads, InframeTake(t) PROVE IndexExclusive'
    BY <1>10 DEF InframeTake, Goto, portVars, threadVars, TypeOK, MutexInv,
       OwnedInv, IndexExclusive, Undisturbed, Owning
  <1>11. ASSUME NEW t \in Threads, InframeNotStored(t) PROVE IndexExclusive'
    BY <1>11 DEF InframeNotStored, Goto, portVars, threadVars, TypeOK,
       MutexInv, OwnedInv, IndexExclusive, Undisturbed, Owning
  <1>12. ASSUME NEW t \in Threads, InframeLock(t) PROVE IndexExclusive'
    BY <1>12 DEF InframeLock, Goto, portVars, threadVars, TypeOK, MutexInv,
       OwnedInv, IndexExclusive, Undisturbed, Owning
  <1>13. ASSUME NEW t \in Threads, RecvNothing(t) PROVE IndexExclusive'
    BY <1>13 DEF RecvNothing, Goto, portVars, threadVars, TypeOK, MutexInv,
       OwnedInv, IndexExclusive, Undisturbed, Owning
  <1>14. ASSUME NEW t \in Threads, RecvOwn(t) PROVE IndexExclusive'
    BY <1>14 DEF RecvOwn, Goto, portVars, threadVars, TypeOK, MutexInv,
       OwnedInv, IndexExclusive, Undisturbed, Owning
  <1>15. ASSUME NEW t \in Threads, RecvOther(t) PROVE IndexExclusive'
    BY <1>15 DEF RecvOther, Goto, portVars, threadVars, TypeOK, MutexInv,
       OwnedInv, IndexExclusive, Undisturbed, Owning
  <1>16. ASSUME NEW t \in Threads, StoreOther(t) PROVE IndexExclusive'
    BY <1>16 DEF StoreOther, Goto, portVars, threadVars, TypeOK, MutexInv,
       OwnedInv, IndexExclusive, Undisturbed, Owning
  <1>17. ASSUME NEW t \in Threads, PollAgain(t) PROVE IndexExclusive'
    BY <1>17 DEF PollAgain, Goto, portVars, threadVars, TypeOK, MutexInv,
       OwnedInv, IndexExclusive, Undisturbed, Owning
  <1>18. ASSUME NEW t \in Threads, Retry(t) PROVE IndexExclusive'
    BY <1>18 DEF Retry, Goto, portVars, threadVars, TypeOK, MutexInv,
       OwnedInv, IndexExclusive, Undisturbed, Owning
  <1>19. ASSUME NEW t \in Threads, GiveUp(t) PROVE IndexExclusive'
    BY <1>19 DEF GiveUp, Goto, portVars, threadVars, TypeOK, MutexInv,
       OwnedInv, IndexExclusive, Undisturbed, Owning
  <1>20. ASSUME NEW t \in Threads, UseAnswer(t) PROVE IndexExclusive'
    BY <1>20 DEF UseAnswer, Goto, portVars, threadVars, TypeOK, MutexInv,
       OwnedInv, IndexExclusive, Undisturbed, Owning
  <1>21. ASSUME NEW t \in Threads, Release(t) PROVE IndexExclusive'
    BY <1>21 DEF Release, Goto, portVars, threadVars, TypeOK, MutexInv,
       OwnedInv, IndexExclusive, Undisturbed, Owning, EndCall
  <1>22. CASE LoseFrame
    BY <1>22 DEF LoseFrame, portVars, threadVars, TypeOK, MutexInv, OwnedInv,
       IndexExclusive, Undisturbed, Owning
  <1>23. CASE UNCHANGED vars
    BY <1>23 DEF vars, portVars, threadVars, TypeOK, MutexInv, OwnedInv,
       IndexExclusive, Undisturbed, Owning
  <1> QED BY <1>1, <1>2, <1>3, <1>4, <1>5, <1>6, <1>7, <1>8, <1>9, <1>10, 
             <1>11, <1>12, <1>13, <1>14, <1>15, <1>16, <1>17, <1>18, <1>19, 
             <1>20, <1>21, <1>22, <1>23
         DEF Next, ThreadStep, Inframe

\* No step, of this thread or of another, puts a foreign request into a slot that
\* came with no frames outstanding.
LEMMA AnswerStep ==
  ASSUME TypeOK, OwnedInv, IndexExclusive, LocalInv, AnswerInv, [Next]_vars
  PROVE  AnswerInv'
  <1>1. ASSUME NEW t \in Threads, GetIndexLock(t) PROVE AnswerInv'
    BY <1>1 DEF GetIndexLock, Goto, portVars, threadVars, TypeOK, LocalInv,
       OwnedInv, IndexExclusive, Undisturbed, Owning, AnswerInv, SlotIsMine,
       Req
  <1>2. ASSUME NEW t \in Threads, ScanNext(t) PROVE AnswerInv'
    BY <1>2 DEF ScanNext, Goto, portVars, threadVars, TypeOK, LocalInv,
       OwnedInv, IndexExclusive, Undisturbed, Owning, AnswerInv, SlotIsMine,
       Req
  <1>3. ASSUME NEW t \in Threads, ScanDone(t) PROVE AnswerInv'
    BY <1>3 DEF ScanDone, Goto, portVars, threadVars, TypeOK, LocalInv,
       OwnedInv, IndexExclusive, Undisturbed, Owning, AnswerInv, SlotIsMine,
       Req
  <1>4. ASSUME NEW t \in Threads, Alloc(t) PROVE AnswerInv'
    BY <1>4 DEF Alloc, Goto, portVars, threadVars, TypeOK, LocalInv, OwnedInv,
       IndexExclusive, Undisturbed, Owning, AnswerInv, SlotIsMine, Req,
       Outstanding
  <1>5. ASSUME NEW t \in Threads, SetupDatagram(t) PROVE AnswerInv'
    BY <1>5 DEF SetupDatagram, Goto, portVars, threadVars, TypeOK, LocalInv,
       OwnedInv, IndexExclusive, Undisturbed, Owning, AnswerInv, SlotIsMine,
       Req
  <1>6. ASSUME NEW t \in Threads, OutframeMark(t) PROVE AnswerInv'
    BY <1>6 DEF OutframeMark, Goto, portVars, threadVars, TypeOK, LocalInv,
       OwnedInv, IndexExclusive, Undisturbed, Owning, AnswerInv, SlotIsMine,
       Req
  <1>7. ASSUME NEW t \in Threads, Send(t) PROVE AnswerInv'
    BY <1>7 DEF Send, Goto, portVars, threadVars, TypeOK, LocalInv, OwnedInv,
       IndexExclusive, Undisturbed, Owning, AnswerInv, SlotIsMine, Req
  <1>8. ASSUME NEW t \in Threads, SendFailed(t) PROVE AnswerInv'
    BY <1>8 DEF SendFailed, Goto, portVars, threadVars, TypeOK, LocalInv,
       OwnedInv, IndexExclusive, Undisturbed, Owning, AnswerInv, SlotIsMine,
       Req
  <1>9. ASSUME NEW t \in Threads, InframeStored(t) PROVE AnswerInv'
    BY <1>9 DEF InframeStored, Goto, portVars, threadVars, TypeOK, LocalInv,
       OwnedInv, IndexExclusive, Undisturbed, Owning, AnswerInv, SlotIsMine,
       Req
  <1>10. ASSUME NEW t \in Threads, InframeTake(t) PROVE AnswerInv'
    BY <1>10 DEF InframeTake, Goto, portVars, threadVars, TypeOK, LocalInv,
       OwnedInv, IndexExclusive, Undisturbed, Owning, AnswerInv, SlotIsMine,
       Req
  <1>11. ASSUME NEW t \in Threads, InframeNotStored(t) PROVE AnswerInv'
    BY <1>11 DEF InframeNotStored, Goto, portVars, threadVars, TypeOK,
       LocalInv, OwnedInv, IndexExclusive, Undisturbed, Owning, AnswerInv,
       SlotIsMine, Req
  <1>12. ASSUME NEW t \in Threads, InframeLock(t) PROVE AnswerInv'
    BY <1>12 DEF InframeLock, Goto, portVars, threadVars, TypeOK, LocalInv,
       OwnedInv, IndexExclusive, Undisturbed, Owning, AnswerInv, SlotIsMine,
       Req
  <1>13. ASSUME NEW t \in Threads, RecvNothing(t) PROVE AnswerInv'
    BY <1>13 DEF RecvNothing, Goto, portVars, threadVars, TypeOK, LocalInv,
       OwnedInv, IndexExclusive, Undisturbed, Owning, AnswerInv, SlotIsMine,
       Req
  <1>14. ASSUME NEW t \in Threads, RecvOwn(t) PROVE AnswerInv'
    BY <1>14 DEF RecvOwn, Goto, portVars, threadVars, TypeOK, LocalInv,
       OwnedInv, IndexExclusive, Undisturbed, Owning, AnswerInv, SlotIsMine,
       Req
  <1>15. ASSUME NEW t \in Threads, RecvOther(t) PROVE AnswerInv'
    <2>1. PICK f \in net :
             /\ net' = net \ {f}
             /\ \/ /\ held' = [held EXCEPT ![t] = f]
                   /\ Goto(t, "store")
                \/ /\ Goto(t, "timer")
                   /\ UNCHANGED held
      BY <1>15 DEF RecvOther
    <2>2. /\ UNCHANGED <<rxbufstat, rxbuf, txbuf, idx, nreq, got, overdue,
                         mishap>>
          /\ pc[t] = "recv"
      BY <1>15 DEF RecvOther
    <2>3. \A u \in Threads :
             /\ pc'[u] \in Owning <=> pc[u] \in Owning
             /\ pc'[u] = "setup" <=> pc[u] = "setup"
             /\ pc'[u] \in {"take", "use"} <=> pc[u] \in {"take", "use"}
      BY <2>1, <2>2 DEF Goto, TypeOK, Owning
    \* A frame that a thread now holds was in the net before.
    <2>4. \A u \in Threads : held'[u] # held[u] => held'[u] \in net
      BY <2>1 DEF TypeOK
    <2>5. ASSUME NEW u \in Threads, SlotIsMine(u) PROVE SlotIsMine(u)'
      BY <2>1, <2>2, <2>3, <2>4, <2>5 DEF SlotIsMine, Req
    <2> QED BY <2>2, <2>3, <2>5 DEF AnswerInv, Undisturbed
  <1>16. ASSUME NEW t \in Threads, StoreOther(t) PROVE AnswerInv'
    BY <1>16 DEF StoreOther, Goto, portVars, threadVars, TypeOK, LocalInv,
       OwnedInv, IndexExclusive, Undisturbed, Owning, AnswerInv, SlotIsMine,
       Req
  <1>17. ASSUME NEW t \in Threads, PollAgain(t) PROVE AnswerInv'
    BY <1>17 DEF PollAgain, Goto, portVars, threadVars, TypeOK, LocalInv,
       OwnedInv, IndexExclusive, Undisturbed, Owning, AnswerInv, SlotIsMine,
       Req
  <1>18. ASSUME NEW t \in Threads, Retry(t) PROVE AnswerInv'
    BY <1>18 DEF Retry, Goto, portVars, threadVars, TypeOK, LocalInv, OwnedInv,
       IndexExclusive, Undisturbed, Owning, AnswerInv, SlotIsMine, Req
  <1>19. ASSUME NEW t \in Threads, GiveUp(t) PROVE AnswerInv'
    BY <1>19 DEF GiveUp, Goto, portVars, threadVars, TypeOK, LocalInv,
       OwnedInv, IndexExclusive, Undisturbed, Owning, AnswerInv, SlotIsMine,
       Req
  <1>20. ASSUME NEW t \in Threads, UseAnswer(t) PROVE AnswerInv'
    BY <1>20 DEF UseAnswer, Goto, portVars, threadVars, TypeOK, LocalInv,
       OwnedInv, IndexExclusive, Undisturbed, Owning, AnswerInv, SlotIsMine,
       Req
  <1>21. ASSUME NEW t \in Threads, Release(t) PROVE AnswerInv'
    BY <1>21 DEF Release, Goto, portVars, threadVars, TypeOK, LocalInv,
       OwnedInv, IndexExclusive, Undisturbed, Owning, AnswerInv, SlotIsMine,
       Req, EndCall
  <1>22. CASE LoseFrame
    BY <1>22 DEF LoseFrame, portVars, threadVars, TypeOK, LocalInv, OwnedInv,
       IndexExclusive, Undisturbed, Owning, AnswerInv, SlotIsMine, Req
  <1>23. CASE UNCHANGED vars
    BY <1>23 DEF vars, portVars, threadVars, TypeOK, LocalInv, OwnedInv,
       IndexExclusive, Undisturbed, Owning, AnswerInv, SlotIsMine, Req
  <1> QED BY <1>1, <1>2, <1>3, <1>4, <1>5, <1>6, <1>7, <1>8, <1>9, <1>10,
             <1>11, <1>12, <1>13, <1>14, <1>15, <1>16, <1>17, <1>18, <1>19,
             <1>20, <1>21, <1>22, <1>23
         DEF Next, ThreadStep, Inframe

\* A marked slot keeps an owner.
LEMMA LeakStep ==
  ASSUME TypeOK, LocalInv, NoLeak, [Next]_vars
  PROVE  NoLeak'
  <1>1. ASSUME NEW t \in Threads, GetIndexLock(t) PROVE NoLeak'
    BY <1>1 DEF GetIndexLock, Goto, portVars, threadVars, TypeOK, LocalInv,
       NoLeak, Owns, Owning
  <1>2. ASSUME NEW t \in Threads, ScanNext(t) PROVE NoLeak'
    BY <1>2 DEF ScanNext, Goto, portVars, threadVars, TypeOK, LocalInv,
       NoLeak, Owns, Owning
  <1>3. ASSUME NEW t \in Threads, ScanDone(t) PROVE NoLeak'
    BY <1>3 DEF ScanDone, Goto, portVars, threadVars, TypeOK, LocalInv,
       NoLeak, Owns, Owning
  <1>4. ASSUME NEW t \in Threads, Alloc(t) PROVE NoLeak'
    BY <1>4 DEF Alloc, Goto, portVars, threadVars, TypeOK, LocalInv, NoLeak,
       Owns, Owning
  <1>5. ASSUME NEW t \in Threads, SetupDatagram(t) PROVE NoLeak'
    BY <1>5 DEF SetupDatagram, Goto, portVars, threadVars, TypeOK, LocalInv,
       NoLeak, Owns, Owning
  <1>6. ASSUME NEW t \in Threads, OutframeMark(t) PROVE NoLeak'
    BY <1>6 DEF OutframeMark, Goto, portVars, threadVars, TypeOK, LocalInv,
       NoLeak, Owns, Owning
  <1>7. ASSUME NEW t \in Threads, Send(t) PROVE NoLeak'
    BY <1>7 DEF Send, Goto, portVars, threadVars, TypeOK, LocalInv, NoLeak,
       Owns, Owning
  <1>8. ASSUME NEW t \in Threads, SendFailed(t) PROVE NoLeak'
    BY <1>8 DEF SendFailed, Goto, portVars, threadVars, TypeOK, LocalInv,
       NoLeak, Owns, Owning
  <1>9. ASSUME NEW t \in Threads, InframeStored(t) PROVE NoLeak'
    BY <1>9 DEF InframeStored, Goto, portVars, threadVars, TypeOK, LocalInv,
       NoLeak, Owns, Owning
  <1>10. ASSUME NEW t \in Threads, InframeTake(t) PROVE NoLeak'
    BY <1>10 DEF InframeTake, Goto, portVars, threadVars, TypeOK, LocalInv,
       NoLeak, Owns, Owning
  <1>11. ASSUME NEW t \in Threads, InframeNotStored(t) PROVE NoLeak'
    BY <1>11 DEF InframeNotStored, Goto, portVars, threadVars, TypeOK,
       LocalInv, NoLeak, Owns, Owning
  <1>12. ASSUME NEW t \in Threads, InframeLock(t) PROVE NoLeak'
    BY <1>12 DEF InframeLock, Goto, portVars, threadVars, TypeOK, LocalInv,
       NoLeak, Owns, Owning
  <1>13. ASSUME NEW t \in Threads, RecvNothing(t) PROVE NoLeak'
    BY <1>13 DEF RecvNothing, Goto, portVars, threadVars, TypeOK, LocalInv,
       NoLeak, Owns, Owning
  <1>14. ASSUME NEW t \in Threads, RecvOwn(t) PROVE NoLeak'
    BY <1>14 DEF RecvOwn, Goto, portVars, threadVars, TypeOK, LocalInv,
       NoLeak, Owns, Owning
  <1>15. ASSUME NEW t \in Threads, RecvOther(t) PROVE NoLeak'
    BY <1>15 DEF RecvOther, Goto, portVars, threadVars, TypeOK, LocalInv,
       NoLeak, Owns, Owning
  <1>16. ASSUME NEW t \in Threads, StoreOther(t) PROVE NoLeak'
    BY <1>16 DEF StoreOther, Goto, portVars, threadVars, TypeOK, LocalInv,
       NoLeak, Owns, Owning
  <1>17. ASSUME NEW t \in Threads, PollAgain(t) PROVE NoLeak'
    BY <1>17 DEF PollAgain, Goto, portVars, threadVars, TypeOK, LocalInv,
       NoLeak, Owns, Owning
  <1>18. ASSUME NEW t \in Threads, Retry(t) PROVE NoLeak'
    BY <1>18 DEF Retry, Goto, portVars, threadVars, TypeOK, LocalInv, NoLeak,
       Owns, Owning
  <1>19. ASSUME NEW t \in Threads, GiveUp(t) PROVE NoLeak'
    BY <1>19 DEF GiveUp, Goto, portVars, threadVars, TypeOK, LocalInv,
       NoLeak, Owns, Owning
  <1>20. ASSUME NEW t \in Threads, UseAnswer(t) PROVE NoLeak'
    BY <1>20 DEF UseAnswer, Goto, portVars, threadVars, TypeOK, LocalInv,
       NoLeak, Owns, Owning
  <1>21. ASSUME NEW t \in Threads, Release(t) PROVE NoLeak'
    BY <1>21 DEF Release, Goto, portVars, threadVars, TypeOK, LocalInv,
       NoLeak, Owns, Owning, EndCall
  <1>22. CASE LoseFrame
    BY <1>22 DEF LoseFrame, portVars, threadVars, TypeOK, LocalInv, NoLeak,
       Owns, Owning
  <1>23. CASE UNCHANGED vars
    BY <1>23 DEF vars, portVars, threadVars, TypeOK, LocalInv, NoLeak, Owns,
       Owning
  <1> QED BY <1>1, <1>2, <1>3, <1>4, <1>5, <1>6, <1>7, <1>8, <1>9, <1>10, 
             <1>11, <1>12, <1>13, <1>14, <1>15, <1>16, <1>17, <1>18, <1>19, 
             <1>20, <1>21, <1>22, <1>23
         DEF Next, ThreadStep, Inframe

\* A step that starts no scan, moves none and fills no free slot.
LEMMA ScanKept ==
  ASSUME ScanInv,
         \A u \in Threads : pc'[u] = "scan" =>
            pc[u] = "scan" /\ idx'[u] = idx[u] /\ cnt'[u] = cnt[u],
         Intact' => Intact /\ ("steal" \in mishap' => "steal" \in mishap),
         Intact' /\ "steal" \notin mishap =>
            \A i \in Idx : rxbufstat[i] = "EMPTY" => rxbufstat'[i] = "EMPTY"
  PROVE  ScanInv'
  <1> SUFFICES ASSUME Cardinality(Threads) <= MaxBuf, Intact'
               PROVE  /\ "steal" \notin mishap'
                      /\ \A u \in Threads : pc'[u] = "scan" =>
                            \E i \in Ahead(u)' : rxbufstat'[i] = "EMPTY"
    BY DEF ScanInv
  <1>1. "steal" \notin mishap /\ "steal" \notin mishap'
    BY DEF ScanInv
  <1>2. ASSUME NEW u \in Threads, pc'[u] = "scan"
        PROVE  \E i \in Ahead(u)' : rxbufstat'[i] = "EMPTY"
    <2>1. PICK i \in Ahead(u) : rxbufstat[i] = "EMPTY"
      BY <1>2 DEF ScanInv
    <2>2. i \in Ahead(u)' /\ i \in Idx
      BY <1>2, <2>1 DEF Ahead
    <2> QED BY <1>1, <2>1, <2>2
  <1> QED BY <1>1, <1>2

\* A caller of ecx_getindex that owns no slot finds a free one, if there are as
\* many slots as threads: each marked slot has an owner, and no owner has two.
LEMMA FreeSlotExists ==
  ASSUME TypeOK, NoLeak, "leak" \notin mishap, Cardinality(Threads) <= MaxBuf,
         NEW t \in Threads, pc[t] \notin Owning
  PROVE  \E i \in Idx : rxbufstat[i] = "EMPTY"
  <1> DEFINE O == {u \in Threads : pc[u] \in Owning}
             f == [u \in O |-> idx[u]]
  <1> SUFFICES ASSUME \A i \in Idx : rxbufstat[i] # "EMPTY"
               PROVE  FALSE
    OBVIOUS
  <1>1. f \in Surjection(O, Idx)
    <2>1. f \in [O -> Idx]
      BY DEF TypeOK
    <2>2. \A i \in Idx : \E u \in O : f[u] = i
      BY DEF NoLeak, Owns
    <2> QED BY <2>1, <2>2, Fun_IsSurj
  <1>2. IsFiniteSet(O) /\ Cardinality(O) < Cardinality(Threads)
    <2>1. O \subseteq Threads \ {t}
      OBVIOUS
    <2>2. /\ IsFiniteSet(Threads \ {t})
          /\ Cardinality(Threads \ {t}) = Cardinality(Threads) - 1
      BY ThreadsAssumption, FS_RemoveElement
    <2>3. IsFiniteSet(O) /\ Cardinality(O) <= Cardinality(Threads \ {t})
      BY <2>1, <2>2, FS_Subset
    <2> QED BY <2>2, <2>3, ThreadsAssumption, FS_CardinalityType
  <1>3. Cardinality(Idx) = MaxBuf
    BY FS_Interval DEF Idx
  <1>4. Cardinality(Idx) <= Cardinality(O)
    BY <1>1, <1>2, FS_Surjection
  <1>5. Cardinality(O) \in Nat /\ Cardinality(Threads) \in Nat
    BY <1>2, ThreadsAssumption, FS_CardinalityType
  <1> QED BY <1>2, <1>3, <1>4, <1>5

\* A scan keeps a free slot ahead of it until it takes one.
LEMMA ScanStep ==
  ASSUME TypeOK, MutexInv, LocalInv, OwnedInv, NoLeak, ScanInv, [Next]_vars
  PROVE  ScanInv'
  <1>1. ASSUME NEW t \in Threads, GetIndexLock(t) PROVE ScanInv'
    <2> SUFFICES ASSUME Cardinality(Threads) <= MaxBuf, Intact'
                 PROVE  /\ "steal" \notin mishap'
                        /\ \A u \in Threads : pc'[u] = "scan" =>
                              \E i \in Ahead(u)' : rxbufstat'[i] = "EMPTY"
      BY DEF ScanInv
    <2>1. Intact /\ mishap' = mishap /\ rxbufstat' = rxbufstat
      BY <1>1 DEF GetIndexLock, Intact
    <2>2. \A u \in Threads : pc'[u] = "scan" => u = t
      BY <1>1 DEF GetIndexLock, Goto, TypeOK, MutexInv
    <2>3. Ahead(t)' = Idx
      <3>1. idx'[t] \in Idx /\ cnt'[t] = 0
        BY <1>1, NextIdxType DEF GetIndexLock, TypeOK, LocalInv
      <3>2. ASSUME NEW j \in Idx, NEW i \in Idx
            PROVE  (IF i >= j THEN i - j ELSE i + MaxBuf - j) < MaxBuf - 0
        BY DEF Idx
      <3> QED BY <3>1, <3>2 DEF Ahead
    <2>4. \E i \in Idx : rxbufstat[i] = "EMPTY"
      BY <1>1, <2>1, FreeSlotExists DEF GetIndexLock, Intact, Owning
    <2> QED BY <2>1, <2>2, <2>3, <2>4 DEF ScanInv
  <1>2. ASSUME NEW t \in Threads, ScanNext(t) PROVE ScanInv'
    <2> SUFFICES ASSUME Cardinality(Threads) <= MaxBuf, Intact'
                 PROVE  /\ "steal" \notin mishap'
                        /\ \A u \in Threads : pc'[u] = "scan" =>
                              \E i \in Ahead(u)' : rxbufstat'[i] = "EMPTY"
      BY DEF ScanInv
    <2>1. Intact /\ UNCHANGED <<mishap, rxbufstat, pc>>
      BY <1>2 DEF ScanNext, Intact, portVars
    <2>2. \A u \in Threads : pc[u] = "scan" => u = t
      BY <1>2 DEF ScanNext, TypeOK, MutexInv
    <2>3. PICK i \in Ahead(t) : rxbufstat[i] = "EMPTY"
      BY <1>2, <2>1 DEF ScanInv, ScanNext
    <2>4. /\ i \in Idx /\ idx[t] \in Idx /\ i # idx[t] /\ cnt[t] \in 0 .. MaxBuf
          /\ (IF i >= idx[t] THEN i - idx[t] ELSE i + MaxBuf - idx[t])
                < MaxBuf - cnt[t]
      BY <1>2, <2>3 DEF Ahead, TypeOK, ScanNext
    <2>5. idx'[t] = NextIdx(idx[t]) /\ cnt'[t] = cnt[t] + 1
      BY <1>2 DEF ScanNext, TypeOK
    <2>6. (IF i >= NextIdx(idx[t]) THEN i - NextIdx(idx[t])
                                   ELSE i + MaxBuf - NextIdx(idx[t]))
             < MaxBuf - (cnt[t] + 1)
      BY <2>4 DEF NextIdx, Idx
    <2>7. i \in Ahead(t)'
      BY <2>4, <2>5, <2>6 DEF Ahead
    <2> QED BY <1>2, <2>1, <2>2, <2>3, <2>7 DEF ScanInv
  <1>3. ASSUME NEW t \in Threads, ScanDone(t) PROVE ScanInv'
    <2> SUFFICES ASSUME Cardinality(Threads) <= MaxBuf, Intact'
                 PROVE  /\ "steal" \notin mishap'
                        /\ \A u \in Threads : pc'[u] = "scan" =>
                              \E i \in Ahead(u)' : rxbufstat'[i] = "EMPTY"
      BY DEF ScanInv
    <2>1. Intact
      BY <1>3 DEF ScanDone, Intact
    <2>2. PICK i \in Ahead(t) : rxbufstat[i] = "EMPTY"
      BY <1>3, <2>1 DEF ScanInv, ScanDone
    <2>3. ~(cnt[t] >= MaxBuf)
      BY <2>2 DEF Ahead, TypeOK, Idx
    <2>4. mishap' = mishap /\ "steal" \notin mishap
      BY <1>3, <2>1, <2>3 DEF ScanDone, ScanInv
    <2>5. \A u \in Threads : pc'[u] # "scan"
      BY <1>3 DEF ScanDone, Goto, TypeOK, MutexInv
    <2> QED BY <2>4, <2>5
  <1>4. ASSUME NEW t \in Threads, Alloc(t) PROVE ScanInv'
    <2>1. \A u \in Threads : pc'[u] # "scan"
      BY <1>4 DEF Alloc, Goto, TypeOK, MutexInv
    <2> QED BY <1>4, <2>1 DEF Alloc, ScanInv, Intact
  <1>5. ASSUME NEW t \in Threads, SetupDatagram(t) PROVE ScanInv'
    <2>1. \A u \in Threads : pc'[u] = "scan" =>
             pc[u] = "scan" /\ idx'[u] = idx[u] /\ cnt'[u] = cnt[u]
      BY <1>5 DEF SetupDatagram, Goto, portVars, threadVars, TypeOK
    <2>2. Intact' => Intact /\ ("steal" \in mishap' => "steal" \in mishap)
      BY <1>5 DEF SetupDatagram, Intact, portVars, threadVars
    <2>3. Intact' /\ "steal" \notin mishap =>
             \A i \in Idx : rxbufstat[i] = "EMPTY" => rxbufstat'[i] = "EMPTY"
      BY <1>5 DEF SetupDatagram, Intact, portVars, threadVars, TypeOK,
         OwnedInv, Undisturbed, Owning
    <2> QED BY <2>1, <2>2, <2>3, ScanKept
  <1>6. ASSUME NEW t \in Threads, OutframeMark(t) PROVE ScanInv'
    <2>1. \A u \in Threads : pc'[u] = "scan" =>
             pc[u] = "scan" /\ idx'[u] = idx[u] /\ cnt'[u] = cnt[u]
      BY <1>6 DEF OutframeMark, Goto, portVars, threadVars, TypeOK
    <2>2. Intact' => Intact /\ ("steal" \in mishap' => "steal" \in mishap)
      BY <1>6 DEF OutframeMark, Intact, portVars, threadVars
    <2>3. Intact' /\ "steal" \notin mishap =>
             \A i \in Idx : rxbufstat[i] = "EMPTY" => rxbufstat'[i] = "EMPTY"
      BY <1>6 DEF OutframeMark, Intact, portVars, threadVars, TypeOK,
         OwnedInv, Undisturbed, Owning
    <2> QED BY <2>1, <2>2, <2>3, ScanKept
  <1>7. ASSUME NEW t \in Threads, Send(t) PROVE ScanInv'
    <2>1. \A u \in Threads : pc'[u] = "scan" =>
             pc[u] = "scan" /\ idx'[u] = idx[u] /\ cnt'[u] = cnt[u]
      BY <1>7 DEF Send, Goto, portVars, threadVars, TypeOK
    <2>2. Intact' => Intact /\ ("steal" \in mishap' => "steal" \in mishap)
      BY <1>7 DEF Send, Intact, portVars, threadVars
    <2>3. Intact' /\ "steal" \notin mishap =>
             \A i \in Idx : rxbufstat[i] = "EMPTY" => rxbufstat'[i] = "EMPTY"
      BY <1>7 DEF Send, Intact, portVars, threadVars, TypeOK, OwnedInv,
         Undisturbed, Owning
    <2> QED BY <2>1, <2>2, <2>3, ScanKept
  <1>8. ASSUME NEW t \in Threads, SendFailed(t) PROVE ScanInv'
    <2>1. \A u \in Threads : pc'[u] = "scan" =>
             pc[u] = "scan" /\ idx'[u] = idx[u] /\ cnt'[u] = cnt[u]
      BY <1>8 DEF SendFailed, Goto, portVars, threadVars, TypeOK
    <2>2. Intact' => Intact /\ ("steal" \in mishap' => "steal" \in mishap)
      BY <1>8 DEF SendFailed, Intact, portVars, threadVars
    <2>3. Intact' /\ "steal" \notin mishap =>
             \A i \in Idx : rxbufstat[i] = "EMPTY" => rxbufstat'[i] = "EMPTY"
      BY <1>8 DEF SendFailed, Intact, portVars, threadVars, TypeOK, OwnedInv,
         Undisturbed, Owning
    <2> QED BY <2>1, <2>2, <2>3, ScanKept
  <1>9. ASSUME NEW t \in Threads, InframeStored(t) PROVE ScanInv'
    <2>1. \A u \in Threads : pc'[u] = "scan" =>
             pc[u] = "scan" /\ idx'[u] = idx[u] /\ cnt'[u] = cnt[u]
      BY <1>9 DEF InframeStored, Goto, portVars, threadVars, TypeOK
    <2>2. Intact' => Intact /\ ("steal" \in mishap' => "steal" \in mishap)
      BY <1>9 DEF InframeStored, Intact, portVars, threadVars
    <2>3. Intact' /\ "steal" \notin mishap =>
             \A i \in Idx : rxbufstat[i] = "EMPTY" => rxbufstat'[i] = "EMPTY"
      BY <1>9 DEF InframeStored, Intact, portVars, threadVars, TypeOK,
         OwnedInv, Undisturbed, Owning
    <2> QED BY <2>1, <2>2, <2>3, ScanKept
  <1>10. ASSUME NEW t \in Threads, InframeTake(t) PROVE ScanInv'
    <2>1. \A u \in Threads : pc'[u] = "scan" =>
             pc[u] = "scan" /\ idx'[u] = idx[u] /\ cnt'[u] = cnt[u]
      BY <1>10 DEF InframeTake, Goto, portVars, threadVars, TypeOK
    <2>2. Intact' => Intact /\ ("steal" \in mishap' => "steal" \in mishap)
      BY <1>10 DEF InframeTake, Intact, portVars, threadVars
    <2>3. Intact' /\ "steal" \notin mishap =>
             \A i \in Idx : rxbufstat[i] = "EMPTY" => rxbufstat'[i] = "EMPTY"
      BY <1>10 DEF InframeTake, Intact, portVars, threadVars, TypeOK,
         OwnedInv, Undisturbed, Owning
    <2> QED BY <2>1, <2>2, <2>3, ScanKept
  <1>11. ASSUME NEW t \in Threads, InframeNotStored(t) PROVE ScanInv'
    <2>1. \A u \in Threads : pc'[u] = "scan" =>
             pc[u] = "scan" /\ idx'[u] = idx[u] /\ cnt'[u] = cnt[u]
      BY <1>11 DEF InframeNotStored, Goto, portVars, threadVars, TypeOK
    <2>2. Intact' => Intact /\ ("steal" \in mishap' => "steal" \in mishap)
      BY <1>11 DEF InframeNotStored, Intact, portVars, threadVars
    <2>3. Intact' /\ "steal" \notin mishap =>
             \A i \in Idx : rxbufstat[i] = "EMPTY" => rxbufstat'[i] = "EMPTY"
      BY <1>11 DEF InframeNotStored, Intact, portVars, threadVars, TypeOK,
         OwnedInv, Undisturbed, Owning
    <2> QED BY <2>1, <2>2, <2>3, ScanKept
  <1>12. ASSUME NEW t \in Threads, InframeLock(t) PROVE ScanInv'
    <2>1. \A u \in Threads : pc'[u] = "scan" =>
             pc[u] = "scan" /\ idx'[u] = idx[u] /\ cnt'[u] = cnt[u]
      BY <1>12 DEF InframeLock, Goto, portVars, threadVars, TypeOK
    <2>2. Intact' => Intact /\ ("steal" \in mishap' => "steal" \in mishap)
      BY <1>12 DEF InframeLock, Intact, portVars, threadVars
    <2>3. Intact' /\ "steal" \notin mishap =>
             \A i \in Idx : rxbufstat[i] = "EMPTY" => rxbufstat'[i] = "EMPTY"
      BY <1>12 DEF InframeLock, Intact, portVars, threadVars, TypeOK,
         OwnedInv, Undisturbed, Owning
    <2> QED BY <2>1, <2>2, <2>3, ScanKept
  <1>13. ASSUME NEW t \in Threads, RecvNothing(t) PROVE ScanInv'
    <2>1. \A u \in Threads : pc'[u] = "scan" =>
             pc[u] = "scan" /\ idx'[u] = idx[u] /\ cnt'[u] = cnt[u]
      BY <1>13 DEF RecvNothing, Goto, portVars, threadVars, TypeOK
    <2>2. Intact' => Intact /\ ("steal" \in mishap' => "steal" \in mishap)
      BY <1>13 DEF RecvNothing, Intact, portVars, threadVars
    <2>3. Intact' /\ "steal" \notin mishap =>
             \A i \in Idx : rxbufstat[i] = "EMPTY" => rxbufstat'[i] = "EMPTY"
      BY <1>13 DEF RecvNothing, Intact, portVars, threadVars, TypeOK,
         OwnedInv, Undisturbed, Owning
    <2> QED BY <2>1, <2>2, <2>3, ScanKept
  <1>14. ASSUME NEW t \in Threads, RecvOwn(t) PROVE ScanInv'
    <2>1. \A u \in Threads : pc'[u] = "scan" =>
             pc[u] = "scan" /\ idx'[u] = idx[u] /\ cnt'[u] = cnt[u]
      BY <1>14 DEF RecvOwn, Goto, portVars, threadVars, TypeOK
    <2>2. Intact' => Intact /\ ("steal" \in mishap' => "steal" \in mishap)
      BY <1>14 DEF RecvOwn, Intact, portVars, threadVars
    <2>3. Intact' /\ "steal" \notin mishap =>
             \A i \in Idx : rxbufstat[i] = "EMPTY" => rxbufstat'[i] = "EMPTY"
      BY <1>14 DEF RecvOwn, Intact, portVars, threadVars, TypeOK, OwnedInv,
         Undisturbed, Owning
    <2> QED BY <2>1, <2>2, <2>3, ScanKept
  <1>15. ASSUME NEW t \in Threads, RecvOther(t) PROVE ScanInv'
    <2>1. \A u \in Threads : pc'[u] = "scan" =>
             pc[u] = "scan" /\ idx'[u] = idx[u] /\ cnt'[u] = cnt[u]
      BY <1>15 DEF RecvOther, Goto, portVars, threadVars, TypeOK
    <2>2. Intact' => Intact /\ ("steal" \in mishap' => "steal" \in mishap)
      BY <1>15 DEF RecvOther, Intact, portVars, threadVars
    <2>3. Intact' /\ "steal" \notin mishap =>
             \A i \in Idx : rxbufstat[i] = "EMPTY" => rxbufstat'[i] = "EMPTY"
      BY <1>15 DEF RecvOther, Intact, portVars, threadVars, TypeOK, OwnedInv,
         Undisturbed, Owning
    <2> QED BY <2>1, <2>2, <2>3, ScanKept
  <1>16. ASSUME NEW t \in Threads, StoreOther(t) PROVE ScanInv'
    <2>1. \A u \in Threads : pc'[u] = "scan" =>
             pc[u] = "scan" /\ idx'[u] = idx[u] /\ cnt'[u] = cnt[u]
      BY <1>16 DEF StoreOther, Goto, portVars, threadVars, TypeOK
    <2>2. Intact' => Intact /\ ("steal" \in mishap' => "steal" \in mishap)
      BY <1>16 DEF StoreOther, Intact, portVars, threadVars
    <2>3. Intact' /\ "steal" \notin mishap =>
             \A i \in Idx : rxbufstat[i] = "EMPTY" => rxbufstat'[i] = "EMPTY"
      BY <1>16 DEF StoreOther, Intact, portVars, threadVars, TypeOK,
         OwnedInv, Undisturbed, Owning
    <2> QED BY <2>1, <2>2, <2>3, ScanKept
  <1>17. ASSUME NEW t \in Threads, PollAgain(t) PROVE ScanInv'
    <2>1. \A u \in Threads : pc'[u] = "scan" =>
             pc[u] = "scan" /\ idx'[u] = idx[u] /\ cnt'[u] = cnt[u]
      BY <1>17 DEF PollAgain, Goto, portVars, threadVars, TypeOK
    <2>2. Intact' => Intact /\ ("steal" \in mishap' => "steal" \in mishap)
      BY <1>17 DEF PollAgain, Intact, portVars, threadVars
    <2>3. Intact' /\ "steal" \notin mishap =>
             \A i \in Idx : rxbufstat[i] = "EMPTY" => rxbufstat'[i] = "EMPTY"
      BY <1>17 DEF PollAgain, Intact, portVars, threadVars, TypeOK, OwnedInv,
         Undisturbed, Owning
    <2> QED BY <2>1, <2>2, <2>3, ScanKept
  <1>18. ASSUME NEW t \in Threads, Retry(t) PROVE ScanInv'
    <2>1. \A u \in Threads : pc'[u] = "scan" =>
             pc[u] = "scan" /\ idx'[u] = idx[u] /\ cnt'[u] = cnt[u]
      BY <1>18 DEF Retry, Goto, portVars, threadVars, TypeOK
    <2>2. Intact' => Intact /\ ("steal" \in mishap' => "steal" \in mishap)
      BY <1>18 DEF Retry, Intact, portVars, threadVars
    <2>3. Intact' /\ "steal" \notin mishap =>
             \A i \in Idx : rxbufstat[i] = "EMPTY" => rxbufstat'[i] = "EMPTY"
      BY <1>18 DEF Retry, Intact, portVars, threadVars, TypeOK, OwnedInv,
         Undisturbed, Owning
    <2> QED BY <2>1, <2>2, <2>3, ScanKept
  <1>19. ASSUME NEW t \in Threads, GiveUp(t) PROVE ScanInv'
    <2>1. \A u \in Threads : pc'[u] = "scan" =>
             pc[u] = "scan" /\ idx'[u] = idx[u] /\ cnt'[u] = cnt[u]
      BY <1>19 DEF GiveUp, Goto, portVars, threadVars, TypeOK
    <2>2. Intact' => Intact /\ ("steal" \in mishap' => "steal" \in mishap)
      BY <1>19 DEF GiveUp, Intact, portVars, threadVars
    <2>3. Intact' /\ "steal" \notin mishap =>
             \A i \in Idx : rxbufstat[i] = "EMPTY" => rxbufstat'[i] = "EMPTY"
      BY <1>19 DEF GiveUp, Intact, portVars, threadVars, TypeOK, OwnedInv,
         Undisturbed, Owning
    <2> QED BY <2>1, <2>2, <2>3, ScanKept
  <1>20. ASSUME NEW t \in Threads, UseAnswer(t) PROVE ScanInv'
    <2>1. \A u \in Threads : pc'[u] = "scan" =>
             pc[u] = "scan" /\ idx'[u] = idx[u] /\ cnt'[u] = cnt[u]
      BY <1>20 DEF UseAnswer, Goto, portVars, threadVars, TypeOK
    <2>2. Intact' => Intact /\ ("steal" \in mishap' => "steal" \in mishap)
      BY <1>20 DEF UseAnswer, Intact, portVars, threadVars
    <2>3. Intact' /\ "steal" \notin mishap =>
             \A i \in Idx : rxbufstat[i] = "EMPTY" => rxbufstat'[i] = "EMPTY"
      BY <1>20 DEF UseAnswer, Intact, portVars, threadVars, TypeOK, OwnedInv,
         Undisturbed, Owning
    <2> QED BY <2>1, <2>2, <2>3, ScanKept
  <1>21. ASSUME NEW t \in Threads, Release(t) PROVE ScanInv'
    <2>1. \A u \in Threads : pc'[u] = "scan" =>
             pc[u] = "scan" /\ idx'[u] = idx[u] /\ cnt'[u] = cnt[u]
      BY <1>21 DEF Release, Goto, portVars, threadVars, TypeOK, EndCall
    <2>2. Intact' => Intact /\ ("steal" \in mishap' => "steal" \in mishap)
      BY <1>21 DEF Release, Intact, portVars, threadVars
    <2>3. Intact' /\ "steal" \notin mishap =>
             \A i \in Idx : rxbufstat[i] = "EMPTY" => rxbufstat'[i] = "EMPTY"
      BY <1>21 DEF Release, Intact, portVars, threadVars, TypeOK, OwnedInv,
         Undisturbed, Owning
    <2> QED BY <2>1, <2>2, <2>3, ScanKept
  <1>22. CASE LoseFrame
    <2>1. \A u \in Threads : pc'[u] = "scan" =>
             pc[u] = "scan" /\ idx'[u] = idx[u] /\ cnt'[u] = cnt[u]
      BY <1>22 DEF LoseFrame, Goto, portVars, threadVars, TypeOK
    <2>2. Intact' => Intact /\ ("steal" \in mishap' => "steal" \in mishap)
      BY <1>22 DEF LoseFrame, Intact, portVars, threadVars
    <2>3. Intact' /\ "steal" \notin mishap =>
             \A i \in Idx : rxbufstat[i] = "EMPTY" => rxbufstat'[i] = "EMPTY"
      BY <1>22 DEF LoseFrame, Intact, portVars, threadVars, TypeOK, OwnedInv,
         Undisturbed, Owning
    <2> QED BY <2>1, <2>2, <2>3, ScanKept
  <1>23. CASE UNCHANGED vars
    BY <1>23 DEF vars, portVars, threadVars, ScanInv, Ahead, Intact
  <1> QED BY <1>1, <1>2, <1>3, <1>4, <1>5, <1>6, <1>7, <1>8, <1>9, <1>10, 
             <1>11, <1>12, <1>13, <1>14, <1>15, <1>16, <1>17, <1>18, <1>19, 
             <1>20, <1>21, <1>22, <1>23
         DEF Next, ThreadStep, Inframe

-------------------------------------------------------------------------------
\* The inductive invariant.
IInv == /\ TypeOK /\ MutexInv /\ LocalInv /\ OwnedInv
        /\ IndexExclusive /\ NoLeak /\ ScanInv /\ AnswerInv

LEMMA InitIInv == Init => IInv
  <1>1. Init => ScanInv
    BY DEF Init, ScanInv
  <1>2. Init => AnswerInv
    BY DEF Init, AnswerInv, Owning
  <1> QED BY <1>1, <1>2, InitInv DEF IInv

LEMMA NextIInv == IInv /\ [Next]_vars => IInv'
  BY TypeStep, MutexStep, LocalStep, OwnedStep, ExclusiveStep, LeakStep,
     ScanStep, AnswerStep
     DEF IInv

LEMMA Invariant == Spec => []IInv
  BY InitIInv, NextIInv, PTL DEF Spec

\* Every index stays inside the buffer arrays, every frame on the wire was built
\* by ecx_setupdatagram before it was sent.
THEOREM TypeCorrect == Spec => []TypeOK
  <1>1. IInv => TypeOK
    BY DEF IInv
  <1> QED BY Invariant, <1>1, PTL

\* ecx_getindex gives each caller a buffer of its own until it releases it,
\* unless it ran out of free slots or a failed send freed a slot in use.
THEOREM BuffersExclusive == Spec => []IndexExclusive
  <1>1. IInv => IndexExclusive
    BY DEF IInv
  <1> QED BY Invariant, <1>1, PTL

\* The race between ecx_setbufstat and the RCVD mark in ecx_inframe is the only
\* way to lose a slot.
THEOREM LeakOnlyByRace == Spec => []NoLeak
  <1>1. IInv => NoLeak
    BY DEF IInv
  <1> QED BY Invariant, <1>1, PTL

\* As long as no slot was lost, the fall-through of ecx_getindex's search is
\* unreachable for up to EC_MAXBUF threads, however their calls interleave.
THEOREM NoStealWithoutLoss == Spec => []StealOnlyAfterLoss
  <1>1. IInv => StealOnlyAfterLoss
    BY DEF IInv, ScanInv, Intact, StealOnlyAfterLoss
  <1> QED BY Invariant, <1>1, PTL

\* What a primitive copies out of its buffer is the answer to its own request:
\* the index alone tells frames apart, and that is enough as long as no frame of
\* an earlier request is under way when the index is handed out.
THEOREM AnswersAreOwn == Spec => []AnswerIsMine
  <1>1. IInv => AnswerIsMine
    <2> SUFFICES ASSUME AnswerInv, Undisturbed,
                        NEW t \in Threads, got[t] # None, ~overdue[t]
                 PROVE  got[t] = Req(t)
      BY DEF IInv, AnswerIsMine, Undisturbed
    <2>1. pc[t] \in Owning
      BY DEF AnswerInv
    <2> QED BY <2>1 DEF AnswerInv, SlotIsMine
  <1> QED BY Invariant, <1>1, PTL
===============================================================================
