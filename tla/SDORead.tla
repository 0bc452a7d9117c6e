------------------------------- MODULE SDORead ---------------------------------
(* ecx_SDOread: the upload of one object over CoE: expedited, in one frame, or *)
(* in segments with a toggle bit; and ecx_TxPDO, a PDO in one frame.  A byte   *)
(* is its position in the object.                                              *)
EXTENDS Mail

CONSTANTS SDOdata,    \* bytes of an initiate frame: mbx_l - 16
          Lengths     \* sizes of objects and buffers

MinSegment == 7       \* a segment is never shorter; the last one is padded

Bytes(first, n) == [i \in 1 .. n |-> first + i]

\* Mails that are no answer to this call.
Stray == {[op |-> "mail"], [op |-> "abort"]}

\* psize is *psize, first the room in the buffer, then the bytes read; lost,
\* history: the answer to a segment request was lost.  The slave has `off' bytes
\* handed out and expects `toggle' in the next segment request.
CallSDOread ==
    \E size \in Lengths, bufsize \in Lengths :
       Begin([service |-> "SDOread", bufsize |-> bufsize, psize |-> bufsize,
              buffer |-> <<>>, toggle |-> FALSE, lost |-> FALSE],
             [service |-> "SDOread", size |-> size, off |-> 0, toggle |-> FALSE],
             Stray)

\* A PDO: one byte of another one may come late.
OtherPDO == [op |-> "txpdo", data |-> <<0>>]

CallTxPDO ==
    \E size \in Lengths, bufsize \in Lengths :
       Begin([service |-> "TxPDO", bufsize |-> bufsize, psize |-> bufsize,
              buffer |-> <<>>, lost |-> FALSE],
             [service |-> "TxPDO", size |-> size], Stray \cup {OtherPDO})

-------------------------------------------------------------------------------
(* The master *)

SendRequest ==
    /\ At("SDOread", "request")
    /\ Post([op |-> "upload"], Stay("receive"), Failed)
    /\ UNCHANGED <<me, out, it>>

Reply(op) == /\ At("SDOread", "receive")
             /\ \E m \in ToSet(out) : m.op = op /\ Take(m)

\* The buffer holds n bytes of a frame, and that is what the call reports.
Copied(m, n) == [me EXCEPT !.buffer = SubSeq(m.data, 1, n), !.psize = n]

TooSmall == Return("CONTAINER_TOO_SMALL") /\ UNCHANGED me

RecvExpedited ==
    /\ Reply("expedited")
    /\ LET m == Head(out)
       IN  IF me.psize >= Len(m.data)
           THEN me' = Copied(m, Len(m.data)) /\ Return("ok")
           ELSE TooSmall
    /\ UNCHANGED <<in, it>>

\* SDOlen is the size of the object, the frame holds all of it or its beginning.
RecvNormal ==
    /\ Reply("normal")
    /\ LET m == Head(out)
       IN  \/ m.SDOlen > me.psize /\ TooSmall
           \/ /\ m.SDOlen <= me.psize /\ Len(m.data) < m.SDOlen
              /\ me' = Copied(m, Len(m.data)) /\ Stay("segment")
           \/ /\ m.SDOlen <= me.psize /\ Len(m.data) >= m.SDOlen
              /\ me' = Copied(m, m.SDOlen) /\ Return("ok")
    /\ UNCHANGED <<in, it>>

RecvOther ==
    /\ Reply("abort") \/ Reply("mail")
    /\ Return("ERROR")
    /\ UNCHANGED <<me, in, it>>

RecvTimeout ==
    /\ At("SDOread", "receive")
    /\ Miss /\ Failed
    /\ UNCHANGED <<me, in, it>>

\* Round the loop again, with the other toggle bit.
Again(m) == me' = [m EXCEPT !.toggle = ~@] /\ Stay("segment")

\* NotLast stays TRUE when the send fails.
SendSegment ==
    /\ At("SDOread", "segment")
    /\ Post([op |-> "segment", toggle |-> me.toggle],
            Stay("segreceive") /\ UNCHANGED me, Again(me))
    /\ UNCHANGED <<out, it>>

SegReply(op) == /\ At("SDOread", "segreceive")
                /\ \E m \in ToSet(out) : m.op = op /\ Take(m)

\* Variant: the padding of a short last segment is kept.
Taken_Padded(m) == m.data

\* The bytes of a segment: only a last one of the minimal size is padded.  Its
\* toggle bit is not compared.
Taken(m) == IF m.last /\ Len(m.data) = MinSegment
            THEN SubSeq(m.data, 1, MinSegment - m.unused) ELSE m.data

RecvSegment ==
    /\ SegReply("segdata")
    /\ LET m == Head(out)
           got == [me EXCEPT !.buffer = @ \o Taken(m),
                             !.psize = @ + Len(Taken(m))]
       IN  IF m.last THEN me' = got /\ Return("ok") ELSE Again(got)
    /\ UNCHANGED <<in, it>>

\* "normal" and "expedited" would be a second answer to the first request.
RecvSegmentOther ==
    /\ SegReply("abort") \/ SegReply("mail")
    /\ Return("ERROR")
    /\ UNCHANGED <<me, in, it>>

\* Nor does a missing answer end the loop.
SegmentTimeout ==
    /\ At("SDOread", "segreceive")
    /\ Miss
    /\ Again([me EXCEPT !.lost = @ \/ out' # out])
    /\ UNCHANGED <<in, it>>

-------------------------------------------------------------------------------
(* ecx_TxPDO *)

SendTxPDO ==
    /\ At("TxPDO", "request")
    /\ Post([op |-> "remoterequest"], Stay("receive"), Failed)
    /\ UNCHANGED <<me, out, it>>

\* The number of the PDO is not compared.  lost, history: the PDO is another.
RecvTxPDO ==
    /\ At("TxPDO", "receive")
    /\ \/ \E m \in ToSet(out) :
             /\ m.op = "txpdo" /\ Take(m)
             /\ IF me.psize >= Len(m.data)
                THEN /\ me' = [Copied(m, Len(m.data)) EXCEPT !.lost = m = OtherPDO]
                     /\ Return("ok")
                ELSE TooSmall
       \/ (\E m \in Stray : Take(m)) /\ Return("ERROR") /\ UNCHANGED me
       \/ Miss /\ Failed /\ UNCHANGED me
    /\ UNCHANGED <<in, it>>

-------------------------------------------------------------------------------
(* The slave, external *)

SlavePDO ==
    /\ it.service = "TxPDO" /\ in # None
    /\ \E m \in Stray \cup {[op |-> "txpdo", data |-> Bytes(0, it.size)]} : Answer(m)
    /\ UNCHANGED <<master, it>>

Asked == it.service = "SDOread" /\ in # None

Least(a, b) == IF a < b THEN a ELSE b

\* A short object comes in an expedited frame or a normal one.
SlaveUploads ==
    /\ Asked /\ in.op = "upload"
    /\ LET n == Least(it.size, SDOdata)
       IN  /\ \/ /\ it.size <= 4
                 /\ Answer([op |-> "expedited", data |-> Bytes(0, it.size)])
              \/ Answer([op |-> "normal", SDOlen |-> it.size, data |-> Bytes(0, n)])
           /\ it' = [it EXCEPT !.off = n]
    /\ UNCHANGED master

SlaveSegment ==
    /\ Asked /\ in.op = "segment"
    /\ it.off < it.size /\ in.toggle = it.toggle
    /\ LET n == Least(it.size - it.off, SDOdata + MinSegment)
           pad == IF n < MinSegment THEN MinSegment - n ELSE 0
       IN  /\ Answer([op |-> "segdata", unused |-> pad,
                      data |-> Bytes(it.off, n) \o [i \in 1 .. pad |-> 0],
                      last |-> it.off + n = it.size])
           /\ it' = [it EXCEPT !.off = @ + n, !.toggle = ~@]
    /\ UNCHANGED master

\* Anything else it aborts, and it may abort at any time.
SlaveAborts ==
    /\ Asked
    /\ \E m \in Stray : Answer(m)
    /\ UNCHANGED <<master, it>>

Master == \/ SendRequest \/ RecvExpedited \/ RecvNormal \/ RecvOther
          \/ RecvTimeout \/ SendSegment \/ RecvSegment \/ RecvSegmentOther
          \/ SegmentTimeout \/ SendTxPDO \/ RecvTxPDO

Next == \/ CallSDOread \/ CallTxPDO \/ Master
        \/ SlavePDO \/ SlaveUploads \/ SlaveSegment \/ SlaveAborts

-------------------------------------------------------------------------------
InSegments == me.service = "SDOread" /\ pc \in {"segment", "segreceive"}

\* A call that succeeds has the object in its buffer, whole, and reports its
\* size, whatever mail an earlier call left behind and however late the answers
\* come; and the caller's buffer is never overrun.  The answer to a segment
\* request must not be lost, although the code's comment promises to "combine all
\* segments": the next request gets the next segment, and the one lost is missing.
\* A PDO of an earlier request must not come late.
ObjectIsRead == me.service \in {"SDOread", "TxPDO"} =>
    /\ Len(me.buffer) <= me.bufsize
    /\ result = "ok" /\ ~me.lost
         => me.buffer = Bytes(0, it.size) /\ me.psize = it.size
===============================================================================
