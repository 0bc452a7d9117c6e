------------------------------- MODULE SDOWrite --------------------------------
(* ecx_SDOwrite: the download of one object over CoE: expedited, in one frame, *)
(* or in segments with a toggle bit; and ecx_RxPDO, which is one frame without *)
(* an answer.  A byte is its position in the object.                           *)
EXTENDS Mail

CONSTANTS SDOdata,    \* maxdata, bytes of an initiate frame: mbx_l - 16
          Lengths     \* sizes of objects

Bytes(first, n) == [i \in 1 .. n |-> first + i]

\* Mails that are no answer to this call: of another protocol, an abort, the
\* answer for another index or subindex.
Stray == {[op |-> o] : o \in {"mail", "abort", "otherindex"}}

\* psize is what is still to send and pos the bytes before hp; last, ~NotLast of
\* the loop; failed, history: a segment could not be sent or was not answered.
\* The slave has `stored' of the object, expects `toggle' next, and completed
\* the download.
CallSDOwrite ==
    \E size \in Lengths, CA \in BOOLEAN :
       Begin([service |-> "SDOwrite", size |-> size, CA |-> CA, psize |-> size,
              pos |-> 0, last |-> FALSE, toggle |-> FALSE, failed |-> FALSE],
             [service |-> "SDOwrite", size |-> 0, stored |-> <<>>,
              toggle |-> FALSE, complete |-> FALSE],
             Stray)

CallRxPDO ==
    \E size \in Lengths :
       Begin([service |-> "RxPDO", size |-> size],
             [service |-> "RxPDO", stored |-> <<>>], {})

-------------------------------------------------------------------------------
(* The master *)

expedited == me.size <= 4 /\ ~me.CA

\* n bytes are in the frame; hp, psize and NotLast follow before it is sent.
Advance(n) == [me EXCEPT !.psize = @ - n, !.pos = @ + n, !.last = me.psize <= n]

Portion(max) == IF me.psize > max THEN max ELSE me.psize

SendExpedited ==
    /\ At("SDOwrite", "request") /\ expedited
    /\ Post([op |-> "expedited", data |-> Bytes(0, me.size)], Stay("receive"),
            Failed)
    /\ me' = [me EXCEPT !.last = TRUE]
    /\ UNCHANGED <<out, it>>

SendInit ==
    /\ At("SDOwrite", "request") /\ ~expedited
    /\ LET n == Portion(SDOdata)
       IN  /\ me' = Advance(n)
           /\ Post([op |-> "init", size |-> me.size, data |-> Bytes(0, n)],
                   Stay("receive"), Failed)
    /\ UNCHANGED <<out, it>>

Reply(label, op) == /\ At("SDOwrite", label)
                    /\ \E m \in ToSet(out) : m.op = op /\ Take(m)

\* The answer has the index and the subindex of the request.
RecvInit ==
    /\ Reply("receive", "initres")
    /\ IF me.last THEN Return("ok") ELSE Stay("segment")
    /\ UNCHANGED <<me, in, it>>

RecvOther ==
    /\ \E label \in {"receive", "segreceive"}, m \in Stray : Reply(label, m.op)
    /\ Return("ERROR")
    /\ UNCHANGED <<me, in, it>>

RecvTimeout ==
    /\ At("SDOwrite", "receive")
    /\ Miss /\ Failed
    /\ UNCHANGED <<me, in, it>>

\* After a segment: the next one, or the work counter of the last one.
Onward(m, r) == /\ me' = [m EXCEPT !.toggle = ~@]
                /\ IF m.last THEN Return(r) ELSE Stay("segment")

\* A send that fails does not end the loop.
SendSegment ==
    /\ At("SDOwrite", "segment")
    /\ LET n == Portion(SDOdata + 7)
           next == Advance(n)
       IN  Post([op |-> "segment", toggle |-> me.toggle, last |-> next.last,
                 data |-> Bytes(me.pos, n)],
                Stay("segreceive") /\ me' = next,
                Onward([next EXCEPT !.failed = TRUE], "failed"))
    /\ UNCHANGED <<out, it>>

\* Neither the toggle bit nor the object is compared; the answer "otherindex"
\* of an earlier download has another command.
RecvSegment ==
    /\ Reply("segreceive", "segres")
    /\ Onward(me, "ok")
    /\ UNCHANGED <<in, it>>

\* Nor does a missing answer.
SegmentTimeout ==
    /\ At("SDOwrite", "segreceive")
    /\ Miss
    /\ Onward([me EXCEPT !.failed = TRUE], "failed")
    /\ UNCHANGED <<in, it>>

\* ecx_RxPDO.  What does not fit in the mailbox is cut off.
PDOdata == SDOdata + 8

SendRxPDO ==
    /\ At("RxPDO", "request")
    /\ Post([op |-> "rxpdo",
             data |-> Bytes(0, IF me.size > PDOdata THEN PDOdata ELSE me.size)],
            Return("ok"), Failed)
    /\ UNCHANGED <<me, out, it>>

-------------------------------------------------------------------------------
(* The slave, external *)

SlavePDO ==
    /\ it.service = "RxPDO" /\ in # None
    /\ it' = [it EXCEPT !.stored = in.data] /\ in' = None
    /\ UNCHANGED <<master, out>>

Asked == it.service = "SDOwrite" /\ in # None

\* The first frame opens the download.
SlaveInit ==
    /\ Asked /\ in.op \in {"expedited", "init"}
    /\ LET size == IF in.op = "init" THEN in.size ELSE Len(in.data)
       IN  it' = [it EXCEPT !.size = size, !.stored = in.data,
                            !.complete = Len(in.data) = size]
    /\ Answer([op |-> "initres"])
    /\ UNCHANGED master

\* A segment with the right toggle bit is stored; the last one completes the
\* download when the size is right.
SlaveSegment ==
    /\ Asked /\ in.op = "segment" /\ in.toggle = it.toggle /\ ~it.complete
    /\ LET n == Len(it.stored) + Len(in.data)
       IN  IF in.last => n = it.size
           THEN /\ it' = [it EXCEPT !.stored = @ \o in.data, !.toggle = ~@,
                                    !.complete = in.last]
                /\ Answer([op |-> "segres"])
           ELSE Answer([op |-> "abort"]) /\ UNCHANGED it
    /\ UNCHANGED master

\* Anything else it aborts, and it may abort at any time.
SlaveAborts ==
    /\ Asked
    /\ \E m \in Stray : Answer(m)
    /\ UNCHANGED <<master, it>>

Master == \/ SendExpedited \/ SendInit \/ RecvInit \/ RecvOther \/ RecvTimeout
          \/ SendSegment \/ RecvSegment \/ SegmentTimeout \/ SendRxPDO

Next == CallSDOwrite \/ CallRxPDO \/ Master \/ SlaveInit \/ SlaveSegment
        \/ SlaveAborts \/ SlavePDO

-------------------------------------------------------------------------------
\* A download that completes in the slave has stored the object and nothing
\* else, whatever was lost on the way; and a call that succeeds, and had no
\* segment fail on the way, has completed it.  Of a PDO arrives what fits.
ObjectIsWritten ==
    /\ me.service = "SDOwrite" =>
         /\ it.complete => it.stored = Bytes(0, me.size)
         /\ result = "ok" /\ ~me.failed => it.complete
    /\ me.service = "RxPDO" /\ result = "ok" /\ in = None =>
         it.stored = Bytes(0, IF me.size > PDOdata THEN PDOdata ELSE me.size)
===============================================================================
