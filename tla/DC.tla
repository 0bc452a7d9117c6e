----------------------------------- MODULE DC ----------------------------------
(* ecx_configdc measures the cables: every slave latches the time at which one  *)
(* frame passes each of its ports, and from these times come the offset and the *)
(* propagation delay of its clock.  ecx_dcsync0 and ecx_dcsync01 then start its  *)
(* sync pulses at a whole multiple of the cycle.  None of them looks at whether *)
(* a datagram was lost.                                                         *)
EXTENDS Calls

CONSTANTS Lines,        \* the slaves that are there, as discovery found them
          Cycles, Shifts,
          SyncDelay,
          Int32,        \* local times of ports are -Int32 .. Int32 - 1
          MaxTime,      \* bound: the time when pulses are started
          MaxSyncs,     \* bound: calls that start pulses
          MaxSynced,    \* bound: slaves there are then
          MaxMissing    \* bound: datagrams lost

\* A slave has ports, those with a cable, its topology is their number; entry is
\* the one the frame comes in by, parent the slave before it, delay that of the
\* cable between them, and base what its clock shows when the frame is sent.
At(label) == In("dc", label)
Count == Len(bus.line)
NoTimes == [p \in 0 .. 3 |-> 0]

StartDC ==
    scenario = "none" /\ \E line \in Lines :
      Start("dc",
            [hasdc |-> 0, dcnext |-> 0,
             slave |-> [i \in DOMAIN line |->
               [parent |-> line[i].parent, active |-> line[i].ports, consumed |-> {},
                entry |-> 0, parentport |-> 0, rt |-> NoTimes, pdelay |-> 0,
                DCnext |-> 0, DCprevious |-> 0, DCactive |-> FALSE, DCcycle |-> 0]]],
            [line |-> line, now |-> 0, lost |-> {}, syncs |-> 0,
             clock |-> [i \in DOMAIN line |-> [offset |-> 0, delay |-> 0]],
             sync |-> [i \in DOMAIN line |->
                      [on |-> FALSE, start |-> [at |-> 0, cycle |-> 0, shift |-> 0]]]])

-------------------------------------------------------------------------------
(* The frame that latches the times: the slaves are numbered in its order.      *)

Below(line, i, j) == i < j /\ \A k \in i + 1 .. j : line[k].parent >= i
SumOf(f(_), set) == FoldSet(LAMBDA x, sum : sum + f(x), 0, set)

\* From slave to slave it runs the cables above once and those of finished
\* branches twice.
Arrival(line, i) ==
    SumOf(LAMBDA j : IF j = i \/ Below(line, j, i) THEN line[j].delay ELSE 2 * line[j].delay,
          1 .. i)
Back(line, c) == Arrival(line, c) + line[c].delay
    + SumOf(LAMBDA j : IF Below(line, c, j) THEN 2 * line[j].delay ELSE 0, DOMAIN line)

\* Out of the ports in the order 0 - 3 - 1 - 2, behind the one it came in by.
Order == <<0, 3, 1, 2>>
Outs(slave) == SelectSeq(Order, LAMBDA p : p \in slave.ports \ {slave.entry})
Child(line, i, p) ==
    LET children == SetToSortSeq({j \in DOMAIN line : line[j].parent = i}, <)
    IN  children[CHOOSE k \in DOMAIN children : Outs(line[i])[k] = p]

Wrap(t) == ((t + Int32) % (2 * Int32)) - Int32
PortTime(line, i, p) ==
    Wrap(line[i].base + (IF p = line[i].entry THEN Arrival(line, i)
                         ELSE Back(line, Child(line, i, p))))

-------------------------------------------------------------------------------
(* ecx_configdc *)

LostOf(datagrams) ==
    {{}} \cup (IF Cardinality(bus.lost) < MaxMissing THEN {{d} : d \in datagrams} ELSE {})
Note(lost) == bus.lost \cup {<<me.slave, d>> : d \in lost}

configdc ==
    /\ At("idle") /\ me = NoCall
    /\ me' = [service |-> "config", slave |-> 1, parenthold |-> 0, prevDCslave |-> 0,
              ht |-> 0, hrt |-> 0]
    /\ Goto("measure") /\ UNCHANGED <<context, bus>>

\* ecx_prevport: the active port before one.
Before == [p \in 0 .. 3 |-> CASE p = 0 -> <<2, 1, 3>> [] p = 1 -> <<3, 0, 2>>
                              [] p = 2 -> <<1, 3, 0>> [] OTHER -> <<0, 2, 1>>]
prevport(slave, p) ==
    LET found == SelectSeq(Before[p], LAMBDA q : q \in slave.active)
    IN  IF found = <<>> THEN p ELSE found[1]

\* Variant: the ports by number.
parentport_Numbered(slave) == IF slave.consumed = {} THEN 0 ELSE Min(slave.consumed)
\* The port that is consumed next.
parentport(slave) ==
    LET found == SelectSeq(<<3, 1, 2, 0>>, LAMBDA p : p \in slave.consumed)
    IN  IF found = <<>> THEN 0 ELSE found[1]

Consume(slave, p) == [slave EXCEPT !.consumed = @ \ {p}]

\* The first in the order of ports with the lowest time.
Entry(slave) ==
    LET ports == SelectSeq(Order, LAMBDA p : p \in slave.active)
        lowest == {k \in DOMAIN ports :
                     \A j \in DOMAIN ports : slave.rt[ports[k]] <= slave.rt[ports[j]]}
    IN  IF ports = <<>> THEN 0 ELSE ports[Min(lowest)]

\* The first slave above with a clock, and the one below it on the way.
Above(i) ==
    LET line == bus.line
        way == {0} \cup {j \in 1 .. i - 1 : Below(line, j, i)}
        parent == Max({j \in way : j = 0 \/ line[j].dc})
    IN  [parent |-> parent, child |-> Min({j \in way \cup {i} : j > parent})]

Abs(x) == IF x < 0 THEN -x ELSE x
\* C divides towards zero.
Half(x) == IF x < 0 THEN -((-x) \div 2) ELSE x \div 2

\* What its children took is subtracted, what earlier branches took is added.
Delay(slaves, i, parent, child) ==
    LET p == slaves[parent]
        s == slaves[i]
        before == p.rt[prevport(p, s.parentport)]
        dt3 == p.rt[s.parentport] - before
        dt1 == IF Cardinality(s.active) > 1 THEN s.rt[prevport(s, s.entry)] - s.rt[s.entry] ELSE 0
        dt2 == IF child - parent > 1 THEN Abs(before - p.rt[p.entry]) ELSE 0
    IN  Half(dt3 - (IF dt1 > dt3 THEN -dt1 ELSE dt1)) + dt2 + p.pdelay

\* The chain of slaves with clocks.
Chained(c, i) ==
    IF c.hasdc = 0 THEN [c EXCEPT !.hasdc = i, !.dcnext = i]
    ELSE [c EXCEPT !.slave[me.prevDCslave].DCnext = i, !.slave[i].DCprevious = me.prevDCslave]

\* What is read is what was read before when the datagram is lost.
Read(i, lost) ==
    LET real == [p \in 0 .. 3 |-> IF p \in bus.line[i].ports THEN PortTime(bus.line, i, p) ELSE 0]
        a == IF "0" \in lost THEN me.ht ELSE real[0]
        b == IF "1" \in lost THEN a ELSE real[1]
        c == IF "2" \in lost THEN b ELSE real[2]
    IN  [p \in 0 .. 3 |-> CASE p = 0 -> a [] p = 1 -> b [] p = 2 -> c
                            [] OTHER -> IF "3" \in lost THEN c ELSE real[3]]

\* A slave with a clock.
Measure ==
    /\ At("measure") /\ me.slave <= Count /\ bus.line[me.slave].dc
    /\ \E lost \in LostOf({"0", "1", "2", "3", "sof", "offset", "delay"}) :
         LET i == me.slave
             sof == bus.line[i].base + Arrival(bus.line, i)
             hrt == -(IF "sof" \in lost THEN me.hrt ELSE sof)
             rt == Read(i, lost)
             c == Chained(context, i)
             timed == [c.slave[i] EXCEPT !.rt = rt, !.consumed = c.slave[i].active]
             entered == [Consume(timed, Entry(timed)) EXCEPT !.entry = Entry(timed)]
             up == Above(i)
             parent == c.slave[up.parent]
             port == IF Cardinality(parent.active) = 1 THEN parent.entry ELSE parentport(parent)
             under == [c.slave EXCEPT ![i] = [entered EXCEPT !.parentport = port],
                                      ![up.parent] = Consume(@, parentport(@))]
             pdelay == Delay(under, i, up.parent, up.child)
             first == up.parent = 0
         IN  /\ context' = IF first THEN [c EXCEPT !.slave[i] = entered]
                           ELSE [c EXCEPT !.slave = [under EXCEPT ![i].pdelay = pdelay]]
             /\ bus' = [bus EXCEPT !.lost = Note(lost),
                          !.clock[i].offset = IF "offset" \in lost THEN @ ELSE hrt,
                          !.clock[i].delay = IF first \/ "delay" \in lost THEN @ ELSE pdelay]
             /\ me' = [me EXCEPT !.slave = @ + 1, !.parenthold = 0, !.prevDCslave = i,
                                 !.ht = IF first THEN rt[3] ELSE pdelay, !.hrt = hrt]
    /\ UNCHANGED <<scenario, pc>>

\* A slave without one: a branch without clocks takes a port of its root.
Pass ==
    /\ At("measure") /\ me.slave <= Count /\ ~bus.line[me.slave].dc
    /\ LET i == me.slave
           slave == context.slave[i]
           parent == slave.parent
           held == IF parent > 0 /\ Cardinality(context.slave[parent].active) > 2
                   THEN parent ELSE me.parenthold
           ends == held > 0 /\ Cardinality(slave.active) = 1
           c == [context EXCEPT !.slave[i].consumed = slave.active]
       IN  /\ context' = IF ends THEN [c EXCEPT !.slave[held] = Consume(@, parentport(@))] ELSE c
           /\ me' = [me EXCEPT !.slave = @ + 1, !.parenthold = IF ends THEN 0 ELSE held]
    /\ UNCHANGED <<scenario, pc, bus>>

Measured ==
    /\ At("measure") /\ me.slave > Count
    /\ me' = NoCall /\ Goto("measured") /\ UNCHANGED <<context, bus>>

-------------------------------------------------------------------------------
(* ecx_dcsync0 and ecx_dcsync01; cycle1 is 0 for the first.                     *)

dcsync ==
    /\ At("measured") /\ bus.syncs < MaxSyncs /\ Count <= MaxSynced
    /\ \E i \in 1 .. Count, cycle \in Cycles, cycle1 \in Cycles, shift \in Shifts, act \in BOOLEAN :
         /\ cycle = 0 => cycle1 = 0
         /\ me' = [service |-> "sync", slave |-> i, act |-> act, DCcycle |-> cycle,
                   cycle |-> IF cycle1 = 0 THEN cycle ELSE ((cycle1 \div cycle) + 1) * cycle,
                   shift |-> shift, t |-> 0]
    /\ bus' = [bus EXCEPT !.syncs = @ + 1]
    /\ Goto("stop") /\ UNCHANGED context

\* A write, whose loss is not noticed.
Put(register, value, label) ==
    /\ \E lost \in LostOf({register}) :
         bus' = [bus EXCEPT !.lost = Note(lost),
                   !.sync[me.slave][register] = IF lost = {} THEN value ELSE @]
    /\ Goto(label)

Stop == At("stop") /\ Put("on", FALSE, "time") /\ UNCHANGED <<me, context>>

\* The first pulse after the delay, at a whole multiple of the cycle.
Start0(t1) ==
    IF me.DCcycle > 0
    THEN ((t1 + SyncDelay) \div me.cycle) * me.cycle + me.cycle + me.shift
    ELSE t1 + SyncDelay + me.shift

\* The local time is 0 when it could not be read.
ReadTime ==
    /\ At("time")
    /\ \E now \in bus.now .. MaxTime, lost \in LostOf({"time"}) :
         /\ me' = [me EXCEPT !.t = Start0(IF lost = {} THEN now ELSE 0)]
         /\ bus' = [bus EXCEPT !.now = now, !.lost = Note(lost)]
    /\ Goto("start") /\ UNCHANGED context

\* What the pulse is for is noted with its time.
PutStart ==
    /\ At("start")
    /\ Put("start", [at |-> me.t, cycle |-> me.cycle, shift |-> me.shift], "activate")
    /\ UNCHANGED <<me, context>>

\* The slave list has the pulse active whatever became of it.
Activate ==
    /\ At("activate") /\ Put("on", me.act, "active") /\ UNCHANGED me
    /\ context' = [context EXCEPT !.slave[me.slave].DCactive = me.act,
                                  !.slave[me.slave].DCcycle = me.DCcycle]

Return == /\ At("active") /\ me' = NoCall /\ Goto("measured") /\ UNCHANGED <<context, bus>>

Master == \/ Measure \/ Pass \/ Measured
          \/ Stop \/ ReadTime \/ PutStart \/ Activate \/ Return
Next == StartDC \/ configdc \/ dcsync \/ Master

-------------------------------------------------------------------------------
Missing(datagrams) == \E l \in bus.lost : l[2] \in datagrams

\* The clock of no slave wraps while the frame is on its way.
NoWrap == \A i \in 1 .. Count : \A p \in bus.line[i].ports :
             LET t == PortTime(bus.line, i, p) - Wrap(bus.line[i].base) IN t >= 0

\* The first clock is above all others, and a slave without one is no junction.
Measurable ==
    LET clocks == {i \in 1 .. Count : bus.line[i].dc}
    IN  \A i \in 1 .. Count :
          IF i \in clocks THEN i = Min(clocks) \/ Below(bus.line, Min(clocks), i)
          ELSE Cardinality(bus.line[i].ports) <= 2

\* Once measured, the clocks of all slaves show the same time, whatever the tree
\* and the ports of the cables: the frame was sent when clock, offset and delay
\* of each say that it was.
ClocksAgree == scenario = "dc" /\ pc = "measured" /\ Measurable /\ NoWrap
                 /\ ~Missing({"0", "1", "2", "3", "sof", "offset", "delay"}) =>
    \A i, j \in {k \in 1 .. Count : bus.line[k].dc} :
      LET zero(k) == bus.line[k].base + bus.clock[k].offset + bus.clock[k].delay
      IN  zero(i) = zero(j)

\* The pulses of slaves with one cycle and shift fall together, however often and
\* when they were started and whatever was lost; and the first is still to come
\* when it is activated.
PulsesOnGrid == scenario = "dc" =>
    /\ \A i \in 1 .. Count :
         LET start == bus.sync[i].start
         IN  start.cycle > 0 => (start.at - start.shift) % start.cycle = 0
    /\ pc = "active" /\ ~Missing({"time", "start"}) /\ me.shift > -SyncDelay =>
         bus.sync[me.slave].start.at > bus.now
===============================================================================
