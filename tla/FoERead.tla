-------------------------------- MODULE FoERead --------------------------------
(* ecx_FOEread: the upload of a file from one slave into a buffer of `bufsize' *)
(* bytes over the mailbox.  A byte is its position in the file.  The link      *)
(* layer may deliver a mail of the slave twice (a repeat request of a mail     *)
(* that had not been lost, see module Mailbox).                                *)
EXTENDS Mail

CONSTANTS maxdata,    \* bytes of a full packet: mbx_l - 12
          MaxSize,    \* bound: size of the file and of the buffer
          MaxTwice    \* bound: mails delivered twice

Stray == {[op |-> o, n |-> 0, data |-> <<>>] : o \in {"error", "opcode", "mail"}}

\* bufsize is *psize of the call, dataread the bytes received and prevpacket the
\* number of the last packet.  The slave has a file of `size' bytes and has sent
\* `sent' packets.
Call ==
    \E size \in 0 .. MaxSize, bufsize \in 0 .. MaxSize :
       Begin([service |-> "FOEread", bufsize |-> bufsize, dataread |-> 0,
              prevpacket |-> 0, buffer |-> <<>>],
             [service |-> "FOEread", size |-> size, sent |-> 0, twice |-> 0],
             Stray)

-------------------------------------------------------------------------------
(* The master *)

Final(m) == Len(m.data) < maxdata

SendRequest ==
    /\ At("FOEread", "request")
    /\ Post([op |-> "read", n |-> 0], Stay("receive"), Failed)
    /\ UNCHANGED <<me, out, it>>

Reply(op) == /\ At("FOEread", "receive")
             /\ \E m \in ToSet(out) : m.op = op /\ Take(m)

\* It is the next packet, and there is room for it.
Fits(m) == /\ m.n = me.prevpacket + 1
           /\ me.dataread + Len(m.data) <= me.bufsize

Copied(m) == [me EXCEPT !.prevpacket = @ + 1, !.dataread = @ + Len(m.data),
                        !.buffer = @ \o m.data]

\* The packet is copied and acknowledged; one that is not full is the last.
RecvData ==
    /\ Reply("data") /\ Fits(Head(out))
    /\ me' = Copied(Head(out))
    /\ Post([op |-> "ack", n |-> Head(out).n],
            IF Final(Head(out)) THEN Return("ok") ELSE Stay("receive"), Failed)
    /\ UNCHANGED it

RecvDataRefused ==
    /\ Reply("data") /\ ~Fits(Head(out))
    /\ me' = [me EXCEPT !.prevpacket = @ + 1]
    /\ Return("FOE_BUF2SMALL")
    /\ UNCHANGED <<in, it>>

\* A FoE error, another FoE service, or a mail of another protocol.
RecvOther ==
    /\ \/ Reply("error") /\ Return("FOE_ERROR")
       \/ (Reply("opcode") \/ Reply("mail")) /\ Return("PACKET_ERROR")
    /\ UNCHANGED <<me, in, it>>

RecvTimeout ==
    /\ At("FOEread", "receive")
    /\ Miss /\ Failed
    /\ UNCHANGED <<me, in, it>>

-------------------------------------------------------------------------------
(* The slave, external *)

Data(n) ==
    LET first == (n - 1) * maxdata
        len == IF it.size - first > maxdata THEN maxdata ELSE it.size - first
    IN  [op |-> "data", n |-> n, data |-> [i \in 1 .. len |-> first + i]]

Asked == it.service = "FOEread" /\ in # None

\* It answers the request, and the acknowledge of a full packet, with the next
\* packet.
SlaveSends ==
    /\ Asked /\ in.n = it.sent
    /\ IF it.sent = 0 \/ ~Final(Data(it.sent))
       THEN Answer(Data(it.sent + 1)) /\ it' = [it EXCEPT !.sent = @ + 1]
       ELSE in' = None /\ UNCHANGED <<out, it>>
    /\ UNCHANGED master

SlaveStray ==
    /\ Asked
    /\ \E m \in Stray : Answer(m)
    /\ UNCHANGED <<master, it>>

DeliverTwice ==
    /\ it.service = "FOEread" /\ out # <<>> /\ it.twice < MaxTwice
    /\ out' = <<Head(out)>> \o out
    /\ it' = [it EXCEPT !.twice = @ + 1]
    /\ UNCHANGED <<master, in>>

Master == SendRequest \/ RecvData \/ RecvDataRefused \/ RecvOther \/ RecvTimeout

Next == Call \/ Master \/ SlaveSends \/ SlaveStray \/ DeliverTwice

-------------------------------------------------------------------------------
File == [i \in 1 .. it.size |-> i]

\* What is in the caller's buffer is a beginning of the file, inside of the
\* buffer, although packets are delivered twice; and a call that succeeds has
\* read the whole file: one that does not fit is an error and not a truncated
\* success.
FileIsRead == me.service = "FOEread" =>
    /\ Len(me.buffer) = me.dataread /\ me.dataread <= me.bufsize
    /\ me.dataread <= it.size /\ me.buffer = SubSeq(File, 1, me.dataread)
    /\ result = "ok" => me.buffer = File
===============================================================================
