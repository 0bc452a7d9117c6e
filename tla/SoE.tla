---------------------------------- MODULE SoE ----------------------------------
(* ecx_SoEread and ecx_SoEwrite: an IDN of a drive is read and written in      *)
(* fragments that are not acknowledged.  A byte is its position in the IDN.    *)
EXTENDS Mail

CONSTANTS SoEdata,    \* bytes of a fragment: mbx_l - 10
          SoELengths  \* sizes of IDNs and buffers

Bytes(first, n) == [i \in 1 .. n |-> first + i]
Least(a, b) == IF a < b THEN a ELSE b

\* "soeerror" is a read response with the error bit, the only one that is
\* recognised as an error; "mail" is anything else.
Stray == {[op |-> "mail"], [op |-> "soeerror"]}

\* The slave has sent the first `sent' bytes of the IDN.
CallRead ==
    \E size \in SoELengths, bufsize \in SoELengths :
       Begin([service |-> "SoEread", bufsize |-> bufsize, buffer |-> <<>>],
             [service |-> "SoEread", size |-> size, sent |-> 0, busy |-> FALSE],
             Stray)

\* psize is still to send, pos the bytes before hp; more is NotLast; failed,
\* history: a fragment could not be sent, or was not taken in time.
CallWrite ==
    \E size \in SoELengths :
       Begin([service |-> "SoEwrite", size |-> size, psize |-> size, pos |-> 0,
              more |-> TRUE, failed |-> FALSE],
             [service |-> "SoEwrite", stored |-> <<>>, complete |-> FALSE],
             Stray)

Call == CallRead \/ CallWrite

-------------------------------------------------------------------------------
(* ecx_SoEread *)

Reply(service, op) == /\ At(service, "receive")
                      /\ \E m \in ToSet(out) : m.op = op /\ Take(m)

SendRead ==
    /\ At("SoEread", "request")
    /\ Post([op |-> "readreq"], Stay("receive"), Failed)
    /\ UNCHANGED <<me, out, it>>

\* Variant: what does not fit is copied all the same.
Copied_All(m) == me.buffer \o m.data
\* What does not fit in the parameter buffer is cut off.
Copied(m) == SubSeq(me.buffer \o m.data, 1,
                    Least(me.bufsize, Len(me.buffer) + Len(m.data)))

RecvRead ==
    /\ Reply("SoEread", "readres")
    /\ me' = [me EXCEPT !.buffer = Copied(Head(out))]
    /\ IF Head(out).incomplete THEN Stay("receive") ELSE Return("ok")
    /\ UNCHANGED <<in, it>>

RecvReadOther ==
    /\ \E m \in Stray : Reply("SoEread", m.op)
    /\ Return("ERROR")
    /\ UNCHANGED <<me, in, it>>

ReadTimeout ==
    /\ At("SoEread", "receive")
    /\ Miss /\ Failed
    /\ UNCHANGED <<me, in, it>>

-------------------------------------------------------------------------------
(* ecx_SoEwrite *)

\* Round the loop while NotLast.
Onward(m, r) == me' = m /\ IF m.more THEN Stay("request") ELSE Return(r)

\* hp and psize have advanced when the send fails, and the loop goes on.
SendWrite ==
    /\ At("SoEwrite", "request")
    /\ LET n == Least(me.psize, SoEdata)
           next == [me EXCEPT !.psize = @ - n, !.pos = @ + n,
                              !.more = me.psize > SoEdata]
       IN  Post([op |-> "writereq", data |-> Bytes(me.pos, n),
                 incomplete |-> next.more],
                me' = next /\ Stay(IF next.more THEN "empty" ELSE "receive"),
                Onward([next EXCEPT !.failed = TRUE], "failed"))
    /\ UNCHANGED <<out, it>>

\* ecx_mbxempty: the slave took the fragment.
Emptied ==
    /\ At("SoEwrite", "empty") /\ in = None
    /\ Stay("request")
    /\ UNCHANGED <<me, slave>>

\* It did not in time: the response is read, although fragments are left.
NotEmptied ==
    /\ At("SoEwrite", "empty")
    /\ me' = [me EXCEPT !.failed = TRUE]
    /\ Stay("receive")
    /\ UNCHANGED slave

RecvWrite ==
    /\ Reply("SoEwrite", "writeres")
    /\ Return("ok")
    /\ UNCHANGED <<me, in, it>>

RecvWriteOther ==
    /\ \E m \in Stray : Reply("SoEwrite", m.op)
    /\ Return("ERROR")
    /\ UNCHANGED <<me, in, it>>

WriteTimeout ==
    /\ At("SoEwrite", "receive") /\ Miss
    /\ Onward([me EXCEPT !.failed = TRUE], "failed")
    /\ UNCHANGED <<in, it>>

-------------------------------------------------------------------------------
(* The slave, external *)

Asked(service) == it.service = service /\ in # None

\* The next fragment of the IDN.
Fragment == LET n == Least(SoEdata, it.size - it.sent)
            IN  [op |-> "readres", data |-> Bytes(it.sent, n),
                 incomplete |-> it.sent + n < it.size]
Sent == [it EXCEPT !.sent = @ + Len(Fragment.data), !.busy = Fragment.incomplete]

SlaveRead ==
    /\ Asked("SoEread")
    /\ Answer(Fragment) /\ it' = Sent
    /\ UNCHANGED master

SlaveReadMore ==
    /\ it.service = "SoEread" /\ it.busy /\ Len(out) < MaxOut
    /\ out' = Append(out, Fragment) /\ it' = Sent
    /\ UNCHANGED <<master, in>>

\* It stores the fragments, and answers the last.
SlaveWrite ==
    /\ Asked("SoEwrite")
    /\ it' = [it EXCEPT !.stored = @ \o in.data, !.complete = ~in.incomplete]
    /\ IF in.incomplete THEN in' = None /\ UNCHANGED out
                        ELSE Answer([op |-> "writeres"])
    /\ UNCHANGED master

SlaveStray ==
    /\ Asked("SoEread") \/ Asked("SoEwrite")
    /\ \E m \in Stray : Answer(m)
    /\ UNCHANGED <<master, it>>

Master == \/ SendRead \/ RecvRead \/ RecvReadOther \/ ReadTimeout
          \/ SendWrite \/ Emptied \/ NotEmptied \/ RecvWrite \/ RecvWriteOther
          \/ WriteTimeout

Next == Call \/ Master \/ SlaveRead \/ SlaveReadMore \/ SlaveWrite \/ SlaveStray

-------------------------------------------------------------------------------
\* A read that succeeds has the beginning of the IDN, as much as the buffer
\* holds and never more; a write that succeeds, and had no fragment fail on the
\* way, has stored the IDN as a whole, although no fragment but the last is
\* acknowledged.
IdnIsWhole ==
    /\ me.service = "SoEread" =>
         /\ Len(me.buffer) <= me.bufsize
         /\ result = "ok" => me.buffer = Bytes(0, Least(it.size, me.bufsize))
    /\ me.service = "SoEwrite" /\ result = "ok" /\ ~me.failed =>
         it.complete /\ it.stored = Bytes(0, me.size)
===============================================================================
