------------------------------ MODULE ProcessData ------------------------------
(* The cyclic exchange of process data of the groups that ConfigMap laid out:  *)
(* ecx_send_processdata_group (or its overlap form) transmits one datagram per *)
(* segment and pushes its index; ecx_receive_processdata_group pulls the       *)
(* indices of all groups, waits for each frame and copies the inputs.          *)
(*                                                                             *)
(* Indices are what module Nicdrv promises while fewer than EC_MAXBUF are in   *)
(* use: a free one, and with it the own answer or no frame.  A slave is known  *)
(* by its position in its group.                                               *)
EXTENDS ConfigMap, FiniteSets, TLC

CONSTANTS Groups, N,     \* slaves in a group
          Sizes,         \* their bits in one direction
          EC_MAXBUF,     \* indices, and entries of idxstack
          MaxCycles,     \* bound: sends
          MaxDrops       \* bound: slaves that drop out

ASSUME ProcessAssumption == /\ N \in Nat /\ Sizes \subseteq Nat
                            /\ EC_MAXBUF \in Nat \ {0}
                            /\ MaxCycles \in Nat /\ MaxDrops \in Nat

VARIABLES
  slaves,    \* the slaves of each group
  group,     \* the record of each group: what the mapping computed
  hasdc,     \* the group has distributed clocks
  present,   \* the slaves of each group that answer
  pc,        \* "idle", "send" or "receive"
  g,         \* the group of the running call
  loop,      \* the send's local variables
  stack,     \* idxstack: what was pushed
  pulled,    \* idxstack: how much was pulled
  held,      \* indices in use
  wkc, valid_wkc, \* locals of the receive; wkc is its result when it is idle
  \* history
  iomap,     \* what the last receive copied: place in the IOmap -> input byte
  taken,     \* output bytes that reached each slave since the last send
  written,   \* places the application has written since the send
  clobbered, \* the receive wrote over one of them
  missed,    \* a frame of this cycle was lost, or passed without a slave
  received,  \* groups of the frames of the last receive
  sends      \* sends so far

layout == <<slaves, group, hasdc>>
idxstack == <<stack, pulled>>
history == <<iomap, taken, written, clobbered, missed, received, sends>>
vars == <<layout, present, pc, g, loop, idxstack, held, wkc, valid_wkc, history>>

EC_NOFRAME == -1
SlaveIds == 1 .. N
SlaveType == [Obits : Sizes, Ibits : Sizes, blockLRW : BOOLEAN]
NoLoop == [cmd |-> "none", seg |-> 0, length |-> 0, LogAdr |-> 0, data |-> 0,
           first |-> FALSE]

\* The bound on the layouts: the frames of all groups fit in idxstack.
FewFrames(grp) ==
    FoldSet(LAMBDA h, n : n + 2 * Len(grp[h].IOsegment), 0, Groups) <= EC_MAXBUF

Init ==
    /\ slaves \in [Groups -> [SlaveIds -> SlaveType]]
    /\ \/ group = [h \in Groups |-> config_map_group(slaves[h])]
       \/ group = [h \in Groups |-> config_overlap_map_group(slaves[h])]
    /\ FewFrames(group)
    /\ hasdc \in [Groups -> BOOLEAN]
    /\ present = [h \in Groups |-> SlaveIds]
    /\ pc = "idle" /\ g \in Groups /\ loop = NoLoop
    /\ stack = <<>> /\ pulled = 0 /\ held = {}
    /\ wkc = 0 /\ valid_wkc = FALSE
    /\ iomap = <<>> /\ taken = [h \in Groups |-> [s \in SlaveIds |-> {}]]
    /\ written = {} /\ clobbered = FALSE /\ missed = FALSE
    /\ received = {} /\ sends = 0

-------------------------------------------------------------------------------
(* ecx_main_send_processdata *)

Total(grp) == IF ~grp.overlap THEN grp.Obytes + grp.Ibytes
              ELSE IF grp.Obytes > grp.Ibytes THEN grp.Obytes ELSE grp.Ibytes

LRD(grp, first) == [cmd |-> "LRD", seg |-> grp.Isegment, length |-> grp.Ibytes,
                    LogAdr |-> grp.Obytes, data |-> grp.Obytes, first |-> first]
LWR(grp, first) == [cmd |-> "LWR", seg |-> 1, length |-> grp.Obytes,
                    LogAdr |-> 0, data |-> 0, first |-> first]
LRW(grp, first) == [cmd |-> "LRW", seg |-> 1, length |-> Total(grp),
                    LogAdr |-> 0, data |-> 0, first |-> first]

Loop(grp, first) == CASE ~grp.blockLRW  -> LRW(grp, first)
                      [] grp.blockLRW /\ grp.Ibytes > 0 -> LRD(grp, first)
                      [] grp.blockLRW /\ grp.Ibytes = 0 -> LWR(grp, first)

\* The application sends a group once before it receives.
Sent == {stack[i].group : i \in 1 .. Len(stack)}

\* With no process data nothing is sent, and the call returns.
Send(h) ==
    /\ pc = "idle" /\ h \notin Sent /\ sends < MaxCycles
    /\ Total(group[h]) > 0
    /\ g' = h /\ pc' = "send"
    /\ loop' = Loop(group[h], hasdc[h])
    /\ written' = {} /\ clobbered' = FALSE /\ sends' = sends + 1
    /\ missed' = IF stack = <<>> THEN FALSE ELSE missed
    /\ taken' = [taken EXCEPT ![h] = [s \in SlaveIds |-> {}]]
    /\ UNCHANGED <<layout, present, idxstack, held, wkc, valid_wkc, iomap, received>>

\* The bytes of the datagram: a segment, the first of the inputs without the
\* outputs in it, the last of the outputs without the inputs in it.
sublength ==
    LET segment == group[g].IOsegment[loop.seg]
    IN  CASE loop.cmd = "LRD" ->
               segment - (IF loop.seg = group[g].Isegment THEN group[g].Ioffset ELSE 0)
          [] loop.cmd = "LWR" -> IF loop.length < segment THEN loop.length ELSE segment
          [] loop.cmd = "LRW" -> segment

\* Variant: the overlapping inputs are stored where the outputs are.
destination_Plain == loop.data

\* Where its inputs are stored.
destination ==
    loop.data + (IF loop.cmd = "LRW" /\ group[g].overlap /\ group[g].Obytes > 0
                 THEN group[g].Obytes ELSE 0)

\* External: a slave takes part in a datagram that touches its FMMU.
Touches(r, first, len) ==
    Used(r) /\ \E b \in Octets(r) : first <= b /\ b < first + len
Counts(s, cmd, first, len) ==
      (IF cmd # "LWR" /\ Touches(group[g].in[s], first, len) THEN 1 ELSE 0)
    + (IF cmd # "LRD" /\ Touches(group[g].out[s], first, len)
       THEN (IF cmd = "LRW" THEN 2 ELSE 1) ELSE 0)
WorkCounter(cmd, first, len) ==
    FoldSet(LAMBDA s, n : n + Counts(s, cmd, first, len), 0, present[g])

Frame(idx) == [idx |-> idx, group |-> g, cmd |-> loop.cmd, LogAdr |-> loop.LogAdr,
               length |-> sublength, data |-> destination, dc |-> loop.first,
               wkc |-> WorkCounter(loop.cmd, loop.LogAdr, sublength),
               by |-> present[g]]

getindex == CHOOSE i \in 0 .. EC_MAXBUF - 1 :
                i \notin held /\ 0 .. i - 1 \subseteq held
Passed == loop.LogAdr .. loop.LogAdr + sublength - 1

pushindex(f) == stack' = IF Len(stack) < EC_MAXBUF THEN Append(stack, f) ELSE stack

\* One round of a loop: index, frame, push; after the last the loop over the
\* outputs follows that over the inputs, or the call returns.
SendFrame ==
    /\ pc = "send"
    /\ LET idx == getindex
       IN  held' = held \cup {idx} /\ pushindex(Frame(idx))
    /\ missed' = (missed \/ present[g] # SlaveIds)
    /\ taken' = IF loop.cmd = "LRD" THEN taken
                ELSE [taken EXCEPT ![g] = [s \in SlaveIds |->
                        IF s \in present[g] THEN @[s] \cup Passed ELSE @[s]]]
    /\ LET left == loop.length - sublength
       IN  CASE left # 0 /\ loop.seg < Len(group[g].IOsegment) ->
                  /\ loop' = [loop EXCEPT !.seg = @ + 1, !.length = left, !.first = FALSE,
                                          !.LogAdr = @ + sublength, !.data = @ + sublength]
                  /\ UNCHANGED pc
             [] ~(left # 0 /\ loop.seg < Len(group[g].IOsegment)) ->
                  IF loop.cmd = "LRD" /\ group[g].Obytes > 0
                  THEN loop' = LWR(group[g], FALSE) /\ UNCHANGED pc
                  ELSE loop' = NoLoop /\ pc' = "idle"
    /\ UNCHANGED <<layout, present, g, pulled, wkc, valid_wkc, iomap, written,
                   clobbered, received, sends>>

-------------------------------------------------------------------------------
(* ecx_receive_processdata_group *)

Receive(h) ==
    /\ pc = "idle" /\ stack # <<>>
    /\ g' = h /\ pc' = "receive"
    /\ wkc' = 0 /\ valid_wkc' = FALSE /\ iomap' = <<>>
    /\ received' = Sent
    /\ UNCHANGED <<layout, present, loop, idxstack, held, taken, written, clobbered,
                   missed, sends>>

Top == stack[pulled + 1]
Pull == pc = "receive" /\ pulled < Len(stack) /\ pulled' = pulled + 1

\* Variant: the buffer of a frame that did not come is kept.
Release_Answered(f, came) == held' = IF came THEN held \ {f.idx} ELSE held

Release(f, came) == held' = held \ {f.idx}

\* Copied over the IOmap: the input bytes of the frame, and where a slave has
\* none, what was sent.
Copied(f) == [o \in {f.group} \X (f.data .. f.data + f.length - 1) |->
                [addr |-> f.LogAdr + o[2] - f.data, by |-> f.by]]

\* Variant: the work counter of the outputs is counted as it is.
Add_Once(f) == wkc' = IF f.dc THEN f.wkc ELSE wkc + f.wkc

\* The work counter of a frame that carries the clock is assigned.
Add(f) == LET n == IF f.cmd = "LWR" THEN 2 * f.wkc ELSE f.wkc
          IN  wkc' = IF f.dc THEN n ELSE wkc + n

FrameCame ==
    /\ Pull
    /\ Add(Top) /\ valid_wkc' = TRUE
    /\ IF Top.cmd = "LWR" THEN UNCHANGED <<iomap, clobbered>>
       ELSE /\ iomap' = Copied(Top) @@ iomap
            /\ clobbered' = (clobbered \/ DOMAIN Copied(Top) \cap written # {})
    /\ Release(Top, TRUE)
    /\ UNCHANGED <<layout, present, pc, g, loop, stack, taken, written, missed,
                   received, sends>>

FrameLost ==
    /\ Pull
    /\ missed' = TRUE
    /\ Release(Top, FALSE)
    /\ UNCHANGED <<layout, present, pc, g, loop, stack, wkc, valid_wkc, iomap,
                   taken, written, clobbered, received, sends>>

clearindex == stack' = <<>> /\ pulled' = 0

Received ==
    /\ pc = "receive" /\ pulled = Len(stack)
    /\ clearindex
    /\ wkc' = IF valid_wkc THEN wkc ELSE EC_NOFRAME
    /\ pc' = "idle"
    /\ UNCHANGED <<layout, present, g, loop, held, valid_wkc, history>>

-------------------------------------------------------------------------------
\* The application, between a send and the receive, writes its next outputs.
WriteOutputs ==
    /\ pc = "idle" /\ stack # <<>> /\ written = {}
    /\ written' = {g} \X (0 .. group[g].Obytes - 1)
    /\ UNCHANGED <<layout, present, pc, g, loop, idxstack, held, wkc, valid_wkc, iomap,
                   taken, clobbered, missed, received, sends>>

\* External: a slave stops to answer.
Drop ==
    /\ \E h \in Groups : \E s \in present[h] :
          present' = [present EXCEPT ![h] = @ \ {s}]
    /\ FoldSet(LAMBDA h, n : n + N - Cardinality(present[h]), 0, Groups) < MaxDrops
    /\ UNCHANGED <<layout, pc, g, loop, idxstack, held, wkc, valid_wkc, history>>

Next == \/ \E h \in Groups : Send(h) \/ Receive(h)
        \/ SendFrame \/ FrameCame \/ FrameLost \/ Received \/ WriteOutputs \/ Drop

Spec == Init /\ [][Next]_vars

-------------------------------------------------------------------------------
TypeOK ==
    /\ \A h \in Groups : present[h] \subseteq SlaveIds
    /\ pc \in {"idle", "send", "receive"} /\ g \in Groups
    /\ loop.cmd \in {"none", "LRW", "LRD", "LWR"} /\ loop.length \in Nat
    /\ Len(stack) <= EC_MAXBUF /\ pulled \in 0 .. Len(stack)
    /\ held \subseteq 0 .. EC_MAXBUF - 1
    /\ wkc \in Nat \cup {EC_NOFRAME} /\ valid_wkc \in BOOLEAN
    /\ clobbered \in BOOLEAN /\ missed \in BOOLEAN
    /\ received \subseteq Groups /\ sends \in 0 .. MaxCycles

Disjoint(a, b) == Used(a) /\ Used(b) => a.next <= b.first \/ b.next <= a.first

\* The mapping: no two slaves have a bit of the process data in common, and the
\* segments are the whole of it, each short enough for a datagram.
LayoutSound ==
    \A h \in Groups :
       LET grp == group[h]
           Sum == FoldLeft(LAMBDA n, b : n + b, 0, grp.IOsegment)
       IN  /\ \A s, t \in SlaveIds :
                 /\ s # t => /\ Disjoint(grp.out[s], grp.out[t])
                             /\ Disjoint(grp.in[s], grp.in[t])
                 /\ ~grp.overlap => Disjoint(grp.out[s], grp.in[t])
           /\ \A i \in 1 .. Len(grp.IOsegment) : grp.IOsegment[i] <= MaxData
           /\ Len(grp.IOsegment) < EC_MAXIOSEGMENTS => Sum = Total(grp)

\* The receive of the frames of one group is over.
Over == pc = "idle" /\ stack = <<>> /\ received = {g}
Expected == 2 * outputsWKC(slaves[g]) + inputsWKC(slaves[g])
LRWIfOverlap == group[g].overlap => ~group[g].blockLRW

OutputsTaken(s) == Used(group[g].out[s]) => Octets(group[g].out[s]) \subseteq taken[g][s]
InputsInPlace(s) ==
    Used(group[g].in[s]) =>
       \A b \in Octets(group[g].in[s]) :
          LET o == <<g, b + group[g].inputs>>
          IN  o \in DOMAIN iomap /\ iomap[o].addr = b /\ s \in iomap[o].by

\* The work counter the application compares with the expected one tells: when
\* they are equal every slave has taken its outputs and every slave's inputs are
\* where the application reads them, whatever frames were lost and whichever
\* slaves dropped out between them.
WkcMeansExchanged ==
    Over /\ LRWIfOverlap /\ wkc = Expected =>
       \A s \in SlaveIds : OutputsTaken(s) /\ InputsInPlace(s)

\* And it is the expected one when nothing went wrong, over all segments, with
\* LRD and LWR as with LRW, with the clock in the first frame or without it.
AllAnswered == Over /\ LRWIfOverlap /\ ~missed => wkc = Expected

\* A receive returns every index that the sends took, lost frames or not.
IndicesReturned == pc = "idle" /\ stack = <<>> => held = {}

\* Outputs that the application writes between a send and the receive are still
\* there after it, for all layouts and segments, except that an LRW over outputs
\* and inputs copies its outputs back as they were sent.
OutputsKept == group[g].overlap \/ group[g].blockLRW => ~clobbered

\* The receive writes inside of the IOmap size that the mapping returned, with an
\* overlapping layout as long as there are no more outputs than inputs: its
\* datagrams have the length of the larger of the two, and go behind the outputs.
InsideIOmap ==
    \A o \in DOMAIN iomap :
       LET grp == group[o[1]]
       IN  o[2] < grp.size \/ (grp.overlap /\ grp.Obytes > grp.Ibytes)

\* Cycle after cycle the indices come back, and a receive writes what it should
\* write and nothing else.
IOmapSound == TypeOK /\ IndicesReturned /\ OutputsKept /\ InsideIOmap
===============================================================================
