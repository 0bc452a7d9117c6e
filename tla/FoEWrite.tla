------------------------------- MODULE FoEWrite --------------------------------
(* ecx_FOEwrite: the download of one file to one slave over the mailbox.  A    *)
(* byte is its position in the file.                                           *)
EXTENDS Mail

CONSTANTS maxdata,    \* bytes of a full packet: mbx_l - 12
          MaxSize     \* bound: size of the file

\* The mails of the slave.  "mail" is any mail that is not FoE.
Ack(n) == [op |-> "ack", n |-> n]
Busy   == [op |-> "busy", n |-> 0]
Stray  == {[op |-> "mail", n |-> 0], [op |-> "opcode", n |-> 0]}
Error  == {[op |-> e, n |-> 0] : e \in {"notfound", "other"}}

\* size is psize of the call, psize what is still to send, pos the bytes before
\* p, segmentdata the bytes of the last packet and sendpacket its number;
\* busied, history: a BUSY was handled.  The slave waits for packet expect, 0 is
\* the write request.
Call ==
    \E size \in 0 .. MaxSize :
       Begin([service |-> "FOEwrite", size |-> size, psize |-> size, pos |-> 0,
              segmentdata |-> 0, sendpacket |-> 0, dofinalzero |-> FALSE,
              busied |-> FALSE],
             [service |-> "FOEwrite", expect |-> 0, stored |-> <<>>,
              complete |-> FALSE],
             {Busy} \cup Error \cup Stray \cup {Ack(n) : n \in 0 .. MaxSize})

-------------------------------------------------------------------------------
(* The master *)

SendRequest ==
    /\ At("FOEwrite", "request")
    /\ Post([op |-> "write", n |-> 0, data |-> <<>>], Stay("receive"), Failed)
    /\ UNCHANGED <<me, out, it>>

\* The reply that ecx_mbxreceive returns.
Reply(op) == /\ At("FOEwrite", "receive")
             /\ \E m \in ToSet(out) : m.op = op /\ Take(m)

tsize == IF me.psize > maxdata THEN maxdata ELSE me.psize

Segment == [op |-> "data", n |-> me.sendpacket + 1,
            data |-> [i \in 1 .. tsize |-> me.pos + i]]

Acknowledged == Reply("ack") /\ Head(out).n = me.sendpacket

\* The packet is counted before it is sent.
Sent == [me EXCEPT !.psize = @ - tsize, !.pos = @ + tsize,
                   !.segmentdata = tsize, !.sendpacket = @ + 1]

\* Variant: the file ends with its last byte.
RecvAckSend_NoZero ==
    /\ Acknowledged /\ tsize > 0
    /\ me' = [Sent EXCEPT !.dofinalzero = FALSE]
    /\ Post(Segment, Stay("receive"), Failed)
    /\ UNCHANGED it

\* The last packet is acknowledged and there is a next one.  A last packet of
\* full size is followed by an empty one.
RecvAckSend ==
    /\ Acknowledged /\ (tsize > 0 \/ me.dofinalzero)
    /\ me' = [Sent EXCEPT !.dofinalzero = me.psize = tsize /\ tsize = maxdata]
    /\ Post(Segment, Stay("receive"), Failed)
    /\ UNCHANGED it

RecvAckLast ==
    /\ Acknowledged /\ tsize = 0 /\ ~me.dofinalzero
    /\ Return("ok")
    /\ UNCHANGED <<me, in, it>>

RecvAckWrong ==
    /\ Reply("ack") /\ Head(out).n # me.sendpacket
    /\ Return("FOE_PACKETNUMBER")
    /\ UNCHANGED <<me, in, it>>

\* A BUSY takes the last packet back.  worktodo is still FALSE, and the work
\* counter still that of the BUSY mail: the call ends.
RecvBusy ==
    /\ Reply("busy")
    /\ me' = IF me.sendpacket > 0
             THEN [me EXCEPT !.busied = TRUE,
                             !.dofinalzero = @ \/ me.psize = 0,
                             !.psize = @ + me.segmentdata,
                             !.pos = @ - me.segmentdata,
                             !.sendpacket = @ - 1]
             ELSE [me EXCEPT !.busied = TRUE]
    /\ Return("ok")
    /\ UNCHANGED <<in, it>>

RecvError ==
    /\ \/ Reply("notfound") /\ Return("FOE_FILE_NOTFOUND")
       \/ Reply("other") /\ Return("FOE_ERROR")
    /\ UNCHANGED <<me, in, it>>

\* A mail of another protocol, or another FoE service.
RecvOther ==
    /\ Reply("mail") \/ Reply("opcode")
    /\ Return("PACKET_ERROR")
    /\ UNCHANGED <<me, in, it>>

\* Variant: the receive is tried again for ever.
RecvTimeout_Wait == At("FOEwrite", "receive") /\ UNCHANGED vars

RecvTimeout ==
    /\ At("FOEwrite", "receive")
    /\ Miss /\ Failed
    /\ UNCHANGED <<me, in, it>>

-------------------------------------------------------------------------------
(* The slave, external *)

Asked == it.service = "FOEwrite" /\ in # None

\* It stores a packet that is the next one, and ends the file at a packet that
\* is not full.
SlaveStores ==
    /\ Asked /\ ~it.complete /\ in.n = it.expect
    /\ it' = [it EXCEPT !.stored = @ \o in.data, !.expect = @ + 1,
                        !.complete = in.op = "data" /\ Len(in.data) < maxdata]
    /\ Answer(Ack(in.n))
    /\ UNCHANGED master

SlaveRefuses ==
    /\ Asked
    /\ \E m \in Error \cup Stray \cup (IF in.n = it.expect THEN {Busy} ELSE {}) :
          Answer(m)
    /\ UNCHANGED <<master, it>>

Master == \/ SendRequest \/ RecvAckSend \/ RecvAckLast \/ RecvAckWrong \/ RecvBusy
          \/ RecvError \/ RecvOther \/ RecvTimeout

Next == Call \/ Master \/ SlaveStores \/ SlaveRefuses

-------------------------------------------------------------------------------
File == [i \in 1 .. me.size |-> i]

\* What the slave has stored is the beginning of the file: no packet is stored
\* twice, out of order, or from the wrong place; and p, psize and sendpacket
\* tell the same position, also after a packet was taken back.
StoresPrefix == me.service = "FOEwrite" =>
    /\ Len(it.stored) <= me.size /\ it.stored = SubSeq(File, 1, Len(it.stored))
    /\ me.pos + me.psize = me.size
    /\ me.pos = IF me.sendpacket * maxdata < me.size
                THEN me.sendpacket * maxdata ELSE me.size

\* A call that succeeds has stored the whole file and its end, whatever mail an
\* earlier session left behind, unless the slave was busy.  An empty file has no
\* packet that could end it.
FileIsStored ==
    me.service = "FOEwrite" /\ result = "ok" /\ ~me.busied /\ me.size > 0
      => it.complete /\ it.stored = File

\* ethercatfoe.c, on a BUSY: "resend if data has been send before", "otherwise
\* ignore".  After a packet was taken back, a download succeeds with the file.
BusyIsResent ==
    me.service = "FOEwrite" /\ result = "ok" /\ me.busied /\ me.segmentdata > 0
      => it.stored = File
===============================================================================
