------------------------------- MODULE SDOInfo ---------------------------------
(* The SDO information service: ecx_readODlist, which receives the list of all *)
(* objects in fragments, ecx_readODdescription, and ecx_readOE, which asks for *)
(* the subindexes 0 .. MaxSub of an object one by one.                         *)
EXTENDS Mail

CONSTANTS EC_MAXODLIST,   \* room in the list
          PerFrame,       \* 16 bit words of a fragment
          MaxCount,       \* bound: objects of the slave
          MaxSubs         \* bound: MaxSub of an object

MaxRounds == 128          \* x of ecx_readODlist

Stray == {[op |-> "mail"], [op |-> "infoerror"]}
Least(a, b) == IF a < b THEN a ELSE b

\* Index is the list so far.  The slave has objects 1 .. count and has sent the
\* first `sent' of them.
CallODlist ==
    \E count \in 0 .. MaxCount :
       Begin([service |-> "ODlist", Index |-> <<>>, First |-> TRUE, x |-> 0],
             [service |-> "ODlist", count |-> count, sent |-> 0, busy |-> FALSE],
             Stray)

\* entry[s] is what the list has of subindex s; Entries counts the answers.
CallOE ==
    \E MaxSub \in 0 .. MaxSubs :
       Begin([service |-> "OE", MaxSub |-> MaxSub, sub |-> 0, Entries |-> 0,
              entry |-> [s \in 0 .. MaxSub |-> None]],
             [service |-> "OE"], Stray)

\* The fields of the item are cleared first.
CallODdescription ==
    Begin([service |-> "ODdescription", item |-> "cleared"],
          [service |-> "ODdescription"], Stray)

Call == CallODlist \/ CallOE \/ CallODdescription

-------------------------------------------------------------------------------
(* The master *)

Reply(service, op) == /\ At(service, "receive")
                      /\ \E m \in ToSet(out) : m.op = op /\ Take(m)

SendODlist ==
    /\ At("ODlist", "request")
    /\ Post([op |-> "odlist"], Stay("receive"), Failed)
    /\ UNCHANGED <<me, out, it>>

\* How many of n indexes are taken.  The entry that is left over on an overflow
\* is trimmed again.
Room(n) == IF Len(me.Index) + n > EC_MAXODLIST
           THEN EC_MAXODLIST - Len(me.Index) ELSE n

\* The first word of the first fragment is the kind of list.
Indexes(m) == IF me.First THEN Tail(m.words) ELSE m.words

\* More fragments follow when the slave says so; an overflow does not end the
\* loop.
RecvODlist ==
    /\ Reply("ODlist", "odlistres")
    /\ LET m == Head(out)
           n == Room(Len(Indexes(m)))
       IN  /\ me' = [me EXCEPT !.Index = @ \o SubSeq(Indexes(m), 1, n),
                               !.First = FALSE, !.x = @ + 1]
           /\ IF m.Fragments > 0 /\ me'.x <= MaxRounds
              THEN Stay("receive") ELSE Return("ok")
    /\ UNCHANGED <<in, it>>

RecvODlistOther ==
    /\ \E o \in {"mail", "infoerror"} : Reply("ODlist", o)
    /\ Return("ERROR")
    /\ UNCHANGED <<me, in, it>>

ODlistTimeout ==
    /\ At("ODlist", "receive")
    /\ Miss /\ Failed
    /\ UNCHANGED <<me, in, it>>

SendODdescription ==
    /\ At("ODdescription", "request")
    /\ Post([op |-> "od"], Stay("receive"), Failed)
    /\ UNCHANGED <<me, out, it>>

\* The object in the answer is not compared.
RecvODdescription ==
    /\ \/ Reply("ODdescription", "odres")
             /\ me' = [me EXCEPT !.item = "described"] /\ Return("ok")
       \/ \E o \in {"mail", "infoerror"} :
             Reply("ODdescription", o) /\ Return("ERROR") /\ UNCHANGED me
       \/ At("ODdescription", "receive") /\ Miss /\ Failed /\ UNCHANGED me
    /\ UNCHANGED <<in, it>>

\* ecx_readOE goes on with the next subindex whatever became of this one, and
\* returns the work counter of the last.
NextSub(m, r) ==
    IF m.sub < m.MaxSub
    THEN me' = [m EXCEPT !.sub = @ + 1] /\ Stay("drain")
    ELSE me' = m /\ Return(r)

DrainOE ==
    /\ At("OE", "drain")
    /\ out' = IF out = <<>> THEN out ELSE Tail(out)
    /\ Stay("request")
    /\ UNCHANGED <<me, in, it>>

SendOE ==
    /\ At("OE", "request")
    /\ Post([op |-> "oe", sub |-> me.sub], Stay("receive") /\ UNCHANGED me,
            NextSub(me, "failed"))
    /\ UNCHANGED <<out, it>>

\* The subindex in the answer is not compared.
RecvOE ==
    /\ Reply("OE", "oeres")
    /\ NextSub([me EXCEPT !.Entries = @ + 1, !.entry[me.sub] = Head(out).sub],
               "ok")
    /\ UNCHANGED <<in, it>>

RecvOEOther ==
    /\ \E o \in {"mail", "infoerror"} : Reply("OE", o)
    /\ NextSub(me, "ERROR")
    /\ UNCHANGED <<in, it>>

OETimeout ==
    /\ At("OE", "receive") /\ Miss
    /\ NextSub(me, "failed")
    /\ UNCHANGED <<in, it>>

-------------------------------------------------------------------------------
(* The slave, external *)

Asked(service) == it.service = service /\ in # None

\* The next fragment of the list, the first one with the kind of list.
Fragment ==
    LET room == IF it.sent = 0 THEN PerFrame - 1 ELSE PerFrame
        n == Least(room, it.count - it.sent)
        words == [i \in 1 .. n |-> it.sent + i]
    IN  [op |-> "odlistres", Fragments |-> it.count - it.sent - n,
         words |-> IF it.sent = 0 THEN <<0>> \o words ELSE words]

Sent == LET n == it.count - Fragment.Fragments
        IN  [it EXCEPT !.sent = n, !.busy = n < it.count]

SlaveODlist ==
    /\ Asked("ODlist")
    /\ Answer(Fragment) /\ it' = Sent
    /\ UNCHANGED master

SlaveODlistMore ==
    /\ it.service = "ODlist" /\ it.busy /\ Len(out) < MaxOut
    /\ out' = Append(out, Fragment) /\ it' = Sent
    /\ UNCHANGED <<master, in>>

SlaveInfo ==
    /\ \/ Asked("OE") /\ Answer([op |-> "oeres", sub |-> in.sub])
       \/ Asked("ODdescription") /\ Answer([op |-> "odres"])
    /\ UNCHANGED <<master, it>>

SlaveStray ==
    /\ \E s \in {"ODlist", "OE", "ODdescription"} : Asked(s)
    /\ \E m \in Stray : Answer(m)
    /\ UNCHANGED <<master, it>>

Master == \/ SendODlist \/ RecvODlist \/ RecvODlistOther \/ ODlistTimeout
          \/ SendODdescription \/ RecvODdescription
          \/ DrainOE \/ SendOE \/ RecvOE \/ RecvOEOther \/ OETimeout

Next == Call \/ Master \/ SlaveODlist \/ SlaveODlistMore \/ SlaveInfo \/ SlaveStray

-------------------------------------------------------------------------------
\* A list that is read successfully has all objects of the slave in order, or as
\* many as there is room for.
ListIsWhole == me.service = "ODlist" =>
    /\ Len(me.Index) <= EC_MAXODLIST
    /\ result = "ok" =>
         me.Index = [i \in 1 .. Least(it.count, EC_MAXODLIST) |-> i]

\* The result of ecx_readOE is that of the last subindex, so that it is Entries
\* that tells a caller whether the object was read: when it counts every
\* subindex, each entry is that of its own subindex, although answers come late
\* and are not compared.
EntriesAreOwn == me.service = "OE" =>
    (pc = "done" /\ me.Entries = me.MaxSub + 1
       => \A s \in 0 .. me.MaxSub : me.entry[s] = s)
===============================================================================
