--------------------------------- MODULE Frame ---------------------------------
(* The datagram primitives of ethercatbase.c: how a frame of one or more        *)
(* datagrams is built in a txbuf[] that holds the remains of the last one, what  *)
(* the slaves make of it as it passes them, and what the caller gets.  Slaves    *)
(* are numbered as the frame passes them; slave i has the configured address i,  *)
(* a register, and a logical memory of its own.  A value is a set of bits, so    *)
(* that a broadcast read is a union.                                             *)
EXTENDS Calls

CONSTANTS Line,      \* the slaves, 1 .. n
          Bits,      \* the bits of a value
          Sizes,     \* lengths of the data
          Pointers,  \* sizeof(int64 *), of the builds looked at
          MaxSend    \* bound: transmissions per call

Values == SUBSET Bits
ETH_HEADERSIZE == 14
EC_HEADERSIZE  == 12
EC_ELENGTHSIZE == 2
EC_WKCSIZE     == 2

-------------------------------------------------------------------------------
(* Building.  A header is kept at the offset of its command byte.               *)

\* ecx_writedatagramdata: a datagram that only reads starts with zeros.
writedatagramdata(com, data) ==
    IF com \in {"APRD", "FPRD", "BRD", "LRD"} THEN {} ELSE data

\* What the buffer holds once a datagram was written at offset at, with the size
\* of the frame after it.
Written(buf, at, com, adr, length, more, data) ==
    [buf EXCEPT
       !.header = (at :> [com |-> com, adr |-> adr, length |-> length, more |-> more]) @@ @,
       !.data = (at + EC_HEADERSIZE - EC_ELENGTHSIZE :> writedatagramdata(com, data)) @@ @,
       !.wkc = (at + EC_HEADERSIZE - EC_ELENGTHSIZE + length :> 0) @@ @,
       !.txbuflength = at + EC_HEADERSIZE - EC_ELENGTHSIZE + EC_WKCSIZE + length]

setupdatagram(buf, com, adr, length, data) ==
    [Written(buf, ETH_HEADERSIZE + EC_ELENGTHSIZE, com, adr, length, FALSE, data)
       EXCEPT !.elength = EC_HEADERSIZE + length]

\* Variant: the first datagram is not told that another one follows.
adddatagram_Last(buf, com, more, adr, length, data) ==
    [Written(buf, buf.txbuflength, com, adr, length, more, data)
       EXCEPT !.elength = buf.elength + EC_HEADERSIZE + length]

\* The first datagram is told that another one follows, whichever is added.
adddatagram(buf, com, more, adr, length, data) ==
    [Written([buf EXCEPT !.header[ETH_HEADERSIZE + EC_ELENGTHSIZE].more = TRUE],
             buf.txbuflength, com, adr, length, more, data)
       EXCEPT !.elength = buf.elength + EC_HEADERSIZE + length]

\* The offset that ecx_adddatagram returns: its data in the received frame, which
\* has no Ethernet header.
OffsetAdded(buf) == buf.txbuflength + EC_HEADERSIZE - EC_ELENGTHSIZE - ETH_HEADERSIZE

\* What rxbuf[] holds at an offset.
AtRx(part, offset) == part[offset + ETH_HEADERSIZE]

-------------------------------------------------------------------------------
(* The slaves, external: they walk along the datagrams while more follow.       *)

DataAt(at) == at + EC_HEADERSIZE - EC_ELENGTHSIZE
WkcAt(buf, at) == DataAt(at) + buf.header[at].length
NextAt(buf, at) == WkcAt(buf, at) + EC_WKCSIZE

Datagrams ==
    LET chain[at \in Nat] ==
          <<at>> \o IF context.header[at].more /\ NextAt(context, at) \in DOMAIN context.header
                    THEN chain[NextAt(context, at)] ELSE <<>>
    IN chain[ETH_HEADERSIZE + EC_ELENGTHSIZE]

\* What slave i does with a datagram: what it reads and writes, and what it adds
\* to the work counter.
Addressed(i, h) ==
    CASE h.com \in {"BRD", "BWR"} -> TRUE
      [] h.com \in {"APRD", "APWR", "ARMW"} -> i = h.adr
      [] h.com \in {"FPRD", "FPWR", "FRMW"} -> i = h.adr
      [] OTHER -> h.adr = "logical"
Pass(b, i, h, data, wkc) ==
    LET own == b.reg[i]
        yes == Addressed(i, h) /\ i \notin b.off
        set(value) == [b EXCEPT !.reg[i] = value]
    IN CASE i \in b.off -> [b |-> b, data |-> data, wkc |-> wkc]
         [] h.com \in {"ARMW", "FRMW"} ->
              IF yes THEN [b |-> b, data |-> own, wkc |-> wkc + 1]
                     ELSE [b |-> set(data), data |-> data, wkc |-> wkc + 1]
         [] ~yes -> [b |-> b, data |-> data, wkc |-> wkc]
         [] h.com = "BRD" -> [b |-> b, data |-> data \cup own, wkc |-> wkc + 1]
         [] h.com \in {"APRD", "FPRD"} -> [b |-> b, data |-> own, wkc |-> wkc + 1]
         [] h.com \in {"BWR", "APWR", "FPWR"} ->
              [b |-> set(data), data |-> data, wkc |-> wkc + 1]
         [] i = 1 -> \* of logical memory, slave 1 takes outputs
              IF h.com = "LRD" THEN [b |-> b, data |-> data, wkc |-> wkc]
              ELSE [b |-> [b EXCEPT !.out = data], data |-> data,
                    wkc |-> wkc + IF h.com = "LRW" THEN 2 ELSE 1]
         [] i = 2 -> \* and slave 2 gives inputs
              IF h.com = "LWR" THEN [b |-> b, data |-> data, wkc |-> wkc]
              ELSE [b |-> b, data |-> b.inp, wkc |-> wkc + 1]
         [] OTHER -> [b |-> b, data |-> data, wkc |-> wkc]
\* One datagram passes all slaves.
Execute(h, b, data) ==
    FoldLeft(LAMBDA r, i : Pass(r.b, i, h, r.data, r.wkc),
             [b |-> b, data |-> data, wkc |-> 0], [i \in Line |-> i])
\* The frame passes them, datagram by datagram.
Travel(buf, b) ==
    FoldLeft(LAMBDA r, at :
               LET x == Execute(buf.header[at], r.b, r.buf.data[DataAt(at)])
               IN [b |-> x.b,
                   buf |-> [r.buf EXCEPT !.data[DataAt(at)] = x.data,
                                         !.wkc[WkcAt(buf, at)] = x.wkc]],
             [b |-> b, buf |-> buf], Datagrams)

-------------------------------------------------------------------------------
(* The calls *)

NoDatagram == [x \in {} |-> 0]
Empty == [header |-> NoDatagram, data |-> NoDatagram, wkc |-> NoDatagram,
          elength |-> 0, txbuflength |-> 0]
TwoDatagrams(buf, v, a, n, p, time) ==
    adddatagram(setupdatagram(buf, "LRW", "logical", n, v), "FRMW", FALSE, a, p, time)
\* The buffer is new, or was last used by an ecx_LRWDC.
Begin ==
    /\ scenario = "none"
    /\ \E reg \in [Line -> Values], inp \in Values,
          off \in {x \in SUBSET Line : Cardinality(x) <= 1},
          buf \in {Empty} \cup {TwoDatagrams(Empty, {}, 1, n, 8, {}) : n \in Sizes} :
          Start("frame", buf, [reg |-> reg, inp |-> inp, out |-> {}, off |-> off])

Call(primitive, buf, value, length, more) ==
    /\ In("frame", "idle")
    /\ context' = buf
    /\ me' = more @@ [service |-> primitive, value |-> value, data |-> value,
                      length |-> length, wkc |-> -1, sends |-> 0, rxbuf |-> buf]
    /\ Goto("srconfirm") /\ UNCHANGED bus

\* One datagram that addresses slaves by their place or address.  Writes send the
\* caller's data, reads have somewhere to put theirs.
One(com, adr, value, length) ==
    Call(com, setupdatagram(context, com, adr, length, value), value, length,
         [adr |-> adr])
CallBroadcast == \E com \in {"BRD", "BWR"}, v \in Values, n \in Sizes : One(com, 0, v, n)
CallAddressed == \E com \in {"APRD", "APWR", "ARMW", "FPRD", "FPWR", "FRMW"}, a \in Line,
                    v \in Values, n \in Sizes : One(com, a, v, n)
CallLogical   == \E com \in {"LRD", "LWR", "LRW"}, v \in Values, n \in Sizes :
                    One(com, "logical", v, n)
\* A word that is 0 unless it is read.
CallWord == \E com \in {"APRD", "FPRD"}, a \in Line :
               Call("word", setupdatagram(context, com, a, 2, {}), {}, 2,
                    [adr |-> a])
\* LRW and FRMW in one frame; the second datagram has the size of a pointer.
CallLRWDC ==
    \E v, time \in Values, a \in Line, n \in Sizes, p \in Pointers :
       Call("LRWDC", TwoDatagrams(context, v, a, n, p, time), v, n,
            [adr |-> a, DCtime |-> time, sizeof |-> p,
             DCtO |-> OffsetAdded(setupdatagram(context, "LRW", "logical", n, v))])

\* ecx_srconfirm sends until a frame comes back: it returns the work counter of
\* the last datagram, found by the length of the frame.
Lost(b) == /\ In("frame", "srconfirm") /\ me.sends < MaxSend
           /\ me' = [me EXCEPT !.sends = @ + 1]
           /\ bus' = b /\ UNCHANGED <<scenario, pc, context>>
LostOut  == Lost(bus)
LostBack == Lost(Travel(context, bus).b)
Answered ==
    /\ In("frame", "srconfirm") /\ me.sends < MaxSend
    /\ LET t == Travel(context, bus)
       IN /\ bus' = t.b
          /\ me' = [me EXCEPT !.rxbuf = t.buf,
                              !.wkc = AtRx(t.buf.wkc, t.buf.elength)]
    /\ Goto("return") /\ UNCHANGED context
NoFrame == /\ In("frame", "srconfirm") /\ me.sends = MaxSend
           /\ Goto("return") /\ UNCHANGED <<me, context, bus>>

Return(data, wkc) ==
    /\ me' = [me EXCEPT !.data = data, !.wkc = wkc]
    /\ Goto("returned") /\ UNCHANGED <<context, bus>>
FirstData == AtRx(me.rxbuf.data, EC_HEADERSIZE)

\* Reads copy the data of a frame that a slave has counted.
ReturnRead ==
    /\ In("frame", "return") /\ me.service \in {"BRD", "APRD", "ARMW", "FRMW", "FPRD"}
    /\ Return(IF me.wkc > 0 THEN FirstData ELSE me.data, me.wkc)
\* ecx_APRDw and ecx_FPRDw return the word, and nothing else.
ReturnWord ==
    /\ In("frame", "return") /\ me.service = "word"
    /\ Return(IF me.wkc > 0 THEN FirstData ELSE me.data, me.wkc)
ReturnWrite ==
    /\ In("frame", "return") /\ me.service \in {"BWR", "APWR", "FPWR"}
    /\ Return(me.data, me.wkc)
\* Logical reads also look at the command that came back.
ReturnLogical ==
    /\ In("frame", "return") /\ me.service \in {"LRD", "LWR", "LRW"}
    /\ Return(IF me.wkc > 0 /\ me.service # "LWR"
                 /\ me.rxbuf.header[ETH_HEADERSIZE + EC_ELENGTHSIZE].com = me.service
              THEN FirstData ELSE me.data, me.wkc)
\* The work counter of the LRW replaces that of the FRMW; of the time, 8 bytes are
\* copied whatever the size of its datagram ("torn" if that was less).
ReturnLRWDC ==
    /\ In("frame", "return") /\ me.service = "LRWDC"
    /\ IF me.wkc > 0 /\ me.rxbuf.header[ETH_HEADERSIZE + EC_ELENGTHSIZE].com = "LRW"
       THEN me' = [me EXCEPT !.data = FirstData,
                             !.wkc = AtRx(me.rxbuf.wkc, EC_HEADERSIZE + me.length),
                             !.DCtime = IF me.sizeof < 8 THEN "torn"
                                        ELSE AtRx(me.rxbuf.data, me.DCtO)]
       ELSE UNCHANGED me
    /\ Goto("returned") /\ UNCHANGED <<context, bus>>

Calling == /\ In("frame", "idle")
           /\ CallBroadcast \/ CallAddressed \/ CallLogical \/ CallWord \/ CallLRWDC

Next == \/ Begin \/ Calling
        \/ LostOut \/ LostBack \/ Answered \/ NoFrame
        \/ ReturnRead \/ ReturnWord \/ ReturnWrite \/ ReturnLogical \/ ReturnLRWDC

-------------------------------------------------------------------------------
Returned(names) == In("frame", "returned") /\ me.service \in names
Present == {i \in Line : i \notin bus.off}

\* The slaves find the datagrams that were built and no others, and the frame ends
\* where the Ethernet header says.
ChainIsFrame ==
    In("frame", "srconfirm") =>
       LET chain == Datagrams IN
       /\ Len(chain) = IF me.service = "LRWDC" THEN 2 ELSE 1
       /\ NextAt(context, Last(chain)) = context.txbuflength
       /\ context.elength + ETH_HEADERSIZE + EC_ELENGTHSIZE = context.txbuflength

\* A caller has what the slaves addressed by its call hold, or its data untouched
\* and no work counter that says otherwise.
DataIsSlaves ==
    /\ Returned({"BRD", "APRD", "FPRD", "word", "LRD", "ARMW", "FRMW"}) /\ me.wkc <= 0
         => me.data = me.value
    /\ Returned({"BRD"}) /\ me.wkc > 0 => me.data = UNION {bus.reg[i] : i \in Present}
    /\ Returned({"APRD", "FPRD", "word"}) /\ me.wkc > 0
         => me.adr \in Present /\ me.data = bus.reg[me.adr]
    /\ Returned({"APWR", "FPWR"}) /\ me.wkc > 0
         => me.adr \in Present /\ bus.reg[me.adr] = me.value
    /\ Returned({"BWR"}) /\ me.wkc > 0 => \A i \in Present : bus.reg[i] = me.value
    /\ Returned({"LRD", "LRW"}) /\ me.wkc > 0 /\ 2 \in Present => me.data = bus.inp

\* A value that one slave gives to the others reaches all those behind it.
ReferenceReachesAll ==
    Returned({"ARMW", "FRMW", "LRWDC"}) /\ me.wkc > 0 /\ me.adr \in Present
      => \A i \in Present : i > me.adr => bus.reg[i] = bus.reg[me.adr]

\* ecx_LRWDC returns the inputs with the work counter of the process data, and the
\* time of the reference slave, where a pointer has the size of a time.
ProcessDataWithTime ==
    Returned({"LRWDC"}) /\ me.wkc >= 0 /\ me.adr \in Present =>
       /\ me.wkc = (IF 1 \in Present THEN 2 ELSE 0) + (IF 2 \in Present THEN 1 ELSE 0)
       /\ 2 \in Present => me.data = bus.inp
       /\ me.sizeof = 8 => me.DCtime = bus.reg[me.adr]
===============================================================================
