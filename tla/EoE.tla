---------------------------------- MODULE EoE ----------------------------------
(* Ethernet over EtherCAT: ecx_EOEsend cuts a frame into fragments, and        *)
(* ecx_EOErecv, or ecx_EOEreadfragment for mails that a hook gets, puts the    *)
(* slave's fragments together.  A byte is <<number of its frame, position>>.   *)
(* Offsets travel in blocks.  ecx_EOEsetIp and ecx_EOEgetIp are one exchange.  *)
EXTENDS Mail

CONSTANTS Block,      \* bytes of a block: 32
          EoEdata,    \* bytes of a fragment: mbx_l - 10
          Stamp,      \* bytes of a time stamp: 4
          EoELengths, \* sizes of frames
          Buffers,    \* sizes of the caller's buffer
          MaxFrames   \* bound: frames of the slave

Least(a, b) == IF a < b THEN a ELSE b
Bytes(frame, first, n) == [i \in 1 .. n |-> <<frame, first + i>>]
Blocks(n) == (n + Block - 1) \div Block

\* Bytes of the next fragment when `left' are to send.
Cut(left) == IF left > EoEdata THEN (EoEdata \div Block) * Block ELSE left

\* Fragment number no of a frame, from byte off on.  The first one carries the
\* size of the frame in blocks, the others their offset.
FragmentOf(frame, size, off, no, stamp) ==
    LET n == Cut(size - off)
        last == n = size - off
        tail == IF last /\ stamp THEN [i \in 1 .. Stamp |-> <<"time", i>>] ELSE <<>>
    IN  [op |-> "fragment", frame |-> frame, no |-> no, last |-> last,
         offset |-> IF no > 0 THEN off \div Block ELSE Blocks(size),
         stamp |-> stamp, data |-> Bytes(frame, off, n) \o tail]

\* What the receiver of fragments knows: rxfragmentno, rxframesize,
\* rxframeoffset, rxframeno, and the bytes of the buffer.
NoFrame == [no |-> 0, size |-> 0, off |-> 0, frame |-> 0, buffer |-> <<>>]

Session(service) == [service |-> service, size |-> 0, frame |-> 0, off |-> 0,
                     no |-> 0, stamp |-> FALSE, rx |-> NoFrame, sizes |-> <<>>]

\* A fragment of an earlier frame may be waiting.
CallSend ==
    \E size \in EoELengths :
       Begin([service |-> "EOEsend", size |-> size, off |-> 0, no |-> 0],
             Session("EOEsend"), {})

CallRecv ==
    \E bufsize \in Buffers :
       Begin([service |-> "EOErecv", bufsize |-> bufsize, rx |-> NoFrame,
              cut |-> "none"],
             Session("EOErecv"),
             {[op |-> "mail"]} \cup
             {FragmentOf(0, size, Cut(size), 1, FALSE) : size \in EoELengths})

\* The hook keeps its variables from mail to mail; frames are what it delivered.
CallHook ==
    \E bufsize \in Buffers :
       Begin([service |-> "EOEhook", bufsize |-> bufsize, rx |-> NoFrame,
              cut |-> "none", frame |-> <<>>],
             Session("EOEhook"),
             {FragmentOf(0, size, Cut(size), 1, FALSE) : size \in EoELengths})

CallIp == \E s \in {"EOEsetIp", "EOEgetIp"} :
             Begin([service |-> s, fields |-> {}], Session(s), {[op |-> "mail"]})

Call == CallSend \/ CallRecv \/ CallHook \/ CallIp

-------------------------------------------------------------------------------
(* ecx_EOEsend *)

SendFragment ==
    /\ At("EOEsend", "request")
    /\ LET f == FragmentOf(1, me.size, me.off, me.no, FALSE)
           next == [me EXCEPT !.off = @ + Len(f.data), !.no = @ + 1]
       IN  Post(f, IF f.last THEN Return("ok") /\ UNCHANGED me
                             ELSE Stay("request") /\ me' = next,
                Failed /\ UNCHANGED me)
    /\ UNCHANGED <<out, it>>

-------------------------------------------------------------------------------
(* ecx_EOErecv *)

Reply(service, op) == /\ At(service, "receive")
                      /\ \E m \in ToSet(out) : m.op = op /\ Take(m)

AwaitFirst ==
    /\ At("EOErecv", "request")
    /\ Stay("receive")
    /\ UNCHANGED <<me, slave>>

\* The fragment does not go on with the frame that is being received, or a
\* first one announces too much.  (The port is left out.)
Refused(m) ==
    \/ me.rx.no # m.no /\ m.no > 0
    \/ me.rx.no = 0 /\ m.offset * Block > me.bufsize
    \/ me.rx.no > 0 /\ (me.rx.frame # m.frame \/ me.rx.off # m.offset * Block)

\* The variables of the frame when the first fragment has been seen.
Opened(rx, m) ==
    IF rx.no = 0
    THEN [rx EXCEPT !.size = m.offset * Block, !.off = 0, !.frame = m.frame,
                    !.buffer = <<>>]
    ELSE rx

\* A fragment that does not fit is not copied, and not counted.
Taken(rx, m, fits) ==
    IF fits THEN [rx EXCEPT !.buffer = SubSeq(@, 1, rx.off) \o m.data,
                            !.off = @ + Len(m.data), !.no = @ + 1]
            ELSE rx

\* The time stamp behind the frame is taken off.
Stripped(rx, m) == IF m.stamp THEN [rx EXCEPT !.off = @ - Stamp] ELSE rx

\* History: why the last fragment was not copied.
Cutoff(m, fits) == IF fits THEN "none" ELSE IF m.stamp THEN "stamp" ELSE "size"

RecvFragment ==
    /\ Reply("EOErecv", "fragment") /\ ~Refused(Head(out))
    /\ LET m == Head(out)
           rx == Opened(me.rx, m)
           fits == rx.off + Len(m.data) <= me.bufsize
           next == [me EXCEPT !.rx = Taken(rx, m, fits), !.cut = Cutoff(m, fits)]
       IN  IF m.last
           THEN /\ me' = [next EXCEPT !.rx = Stripped(@, m)]
                /\ Return("ok")
           ELSE me' = next /\ Stay("receive")
    /\ UNCHANGED <<in, it>>

RecvRefused ==
    /\ \/ Reply("EOErecv", "fragment") /\ Refused(Head(out))
       \/ Reply("EOErecv", "mail")
    /\ Return("EOE_INVALID_RX_DATA")
    /\ UNCHANGED <<me, in, it>>

RecvTimeout ==
    /\ At("EOErecv", "receive")
    /\ Miss /\ Failed
    /\ UNCHANGED <<me, in, it>>

-------------------------------------------------------------------------------
(* ecx_EOEreadfragment, called by the EoE hook for every fragment *)

\* The variables, reset when the number of the fragment is not the next one.
Restarted(m) == IF me.rx.no # m.no THEN NoFrame ELSE me.rx

\* A fragment that is inside of a frame, but not of this one.
Foreign(rx, m) == rx.no > 0 /\ (rx.frame # m.frame \/ rx.off # m.offset * Block)

HookFragment ==
    /\ At("EOEhook", "request") /\ out # <<>>
    /\ LET m == Head(out)
           r == Restarted(m)
           rx == Opened(r, m)
           fits == rx.off + Len(m.data) <= Least(rx.size, me.bufsize)
           t == Taken(rx, m, fits)
       IN  /\ Take(m)
           /\ me' = IF (r.no # m.no /\ m.no > 0) \/ Foreign(r, m)
                    THEN [me EXCEPT !.rx = NoFrame]
                    ELSE IF m.last
                    THEN [me EXCEPT !.rx = NoFrame, !.cut = Cutoff(m, fits),
                                    !.frame = SubSeq(t.buffer, 1, Stripped(t, m).off)]
                    ELSE [me EXCEPT !.rx = t]
    /\ UNCHANGED <<pc, result, in, it>>

\* A fragment whose read was lost.
HookLoses ==
    /\ At("EOEhook", "request") /\ out # <<>>
    /\ out' = Tail(out)
    /\ UNCHANGED <<master, in, it>>

\* The application stops listening.
HookEnds ==
    /\ At("EOEhook", "request")
    /\ Return("ok")
    /\ UNCHANGED <<me, slave>>

-------------------------------------------------------------------------------
(* ecx_EOEsetIp and ecx_EOEgetIp *)

IpServices == {"EOEsetIp", "EOEgetIp"}

SendIp ==
    /\ \E s \in IpServices : At(s, "request")
    /\ Post([op |-> me.service], Stay("receive"), Failed)
    /\ UNCHANGED <<me, out, it>>

\* An answer of ecx_EOEgetIp that is too short for its fields is an error after
\* they were copied.
RecvIp ==
    /\ \/ \E s \in IpServices :
             \/ /\ Reply(s, "ipres")
                /\ me' = [me EXCEPT !.fields = IF s = "EOEgetIp"
                                               THEN Head(out).fields ELSE @]
                /\ Return(IF Head(out).short THEN "MBX_ERROR" ELSE "ok")
             \/ (Reply(s, "iprefused") \/ Reply(s, "mail"))
                /\ Return("ERROR") /\ UNCHANGED me
       \/ (\E s \in IpServices : At(s, "receive")) /\ Miss /\ Failed /\ UNCHANGED me
    /\ UNCHANGED <<in, it>>

-------------------------------------------------------------------------------
(* The slave, external *)

SlaveIp ==
    /\ it.service \in IpServices /\ in # None
    /\ \/ \E fields \in SUBSET {"mac", "ip"}, short \in BOOLEAN :
             Answer([op |-> "ipres", fields |-> fields,
                     short |-> short /\ in.op = "EOEgetIp"])
       \/ \E o \in {"iprefused", "mail"} : Answer([op |-> o])
    /\ UNCHANGED <<master, it>>

\* It puts the fragments of a frame together as the master does.
SlaveTakes ==
    /\ it.service = "EOEsend" /\ in # None
    /\ LET rx == Opened(it.rx, in)
       IN  it' = [it EXCEPT !.rx =
                    IF in.no = rx.no /\ (in.no > 0 => rx.off = in.offset * Block)
                    THEN Taken(rx, in, TRUE) ELSE rx]
    /\ in' = None
    /\ UNCHANGED <<master, out>>

\* It sends its frames fragment by fragment, and drops the rest of one when it
\* has a newer one.
SlaveSends ==
    /\ it.service \in {"EOErecv", "EOEhook"} /\ Len(out) < MaxOut
    /\ \/ /\ it.frame > 0 /\ it.off < it.size
          /\ LET f == FragmentOf(it.frame, it.size, it.off, it.no, it.stamp)
             IN  /\ out' = Append(out, f)
                 /\ it' = [it EXCEPT !.off = @ + Cut(it.size - it.off),
                                     !.no = @ + 1]
       \/ /\ it.frame < MaxFrames
          /\ \E size \in EoELengths, stamp \in BOOLEAN :
               LET f == FragmentOf(it.frame + 1, size, 0, 0, stamp)
               IN  /\ out' = Append(out, f)
                   /\ it' = [it EXCEPT !.frame = @ + 1, !.size = size, !.no = 1,
                                       !.off = Cut(size), !.stamp = stamp,
                                       !.sizes = Append(@, size)]
    /\ UNCHANGED <<master, in>>

Master == \/ SendFragment \/ AwaitFirst \/ RecvFragment \/ RecvRefused
          \/ RecvTimeout \/ HookFragment \/ HookEnds \/ SendIp \/ RecvIp

Next == Call \/ Master \/ HookLoses \/ SlaveIp \/ SlaveTakes \/ SlaveSends

-------------------------------------------------------------------------------
\* The bytes are those of one frame of the slave, all of them, without a gap.
OneFrame(b) == \E f \in DOMAIN it.sizes : b = Bytes(f, 0, it.sizes[f])

Received == SubSeq(me.rx.buffer, 1, me.rx.off)

\* A frame that is sent arrives whole in the slave, and a frame that is
\* delivered, by ecx_EOErecv or by the hook, is one frame of the slave without a
\* gap and never more than the buffer, although fragments are lost and frames
\* broken off.  A last fragment that does not fit is dropped without an error:
\* in ecx_EOErecv only for its time stamp, in the hook also because the size of
\* the frame is not compared with the buffer.
FrameIsWhole ==
    /\ me.service = "EOEsend" /\ result = "ok" /\ in = None =>
         it.rx.buffer = Bytes(1, 0, me.size)
    /\ me.service = "EOErecv" /\ result = "ok" =>
         /\ Len(me.rx.buffer) <= me.bufsize
         /\ IF me.cut = "none" THEN OneFrame(Received) ELSE me.cut = "stamp"
    /\ me.service = "EOEhook" =>
         me.frame = <<>> \/ me.cut # "none" \/ OneFrame(me.frame)
===============================================================================
