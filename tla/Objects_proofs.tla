---------------------------- MODULE Objects_proofs ----------------------------
(* The transfers of files and of CoE objects keep their invariants, for any     *)
(* file, object, buffer and packet size, and any number of mails that are lost, *)
(* late, stray or delivered twice. Transfer_proofs composes them.               *)
EXTENDS MCTransfer, SequenceTheorems, TLAPS

-------------------------------------------------------------------------------
(* The upload *)

\* The first k bytes of a file.
Prefix(k) == [j \in 1 .. k |-> j]

\* The mails that the slave may send: a packet begins inside of the file, or at its
\* end.
ReadPackets == {k \in Nat \ {0} : (k - 1) * maxdata <= it.size}
ReadMails == FR!Stray \cup {FR!Data(k) : k \in ReadPackets}

\* While an upload runs, the slave has sent full packets until its last, ...
ReadSlave ==
    /\ it.service = "FOEread" /\ it.size \in Nat /\ it.sent \in Nat
    /\ it.sent # 0 => it.sent \in ReadPackets
    /\ out \in Seq(ReadMails)

\* ... and the master has taken full packets until its last.
ReadMaster ==
    /\ pc \in {"request", "receive", "done"}
    /\ me \in [service : {"FOEread"}, bufsize : Nat, dataread : Nat,
               prevpacket : Nat, buffer : Seq(Nat)]
    /\ me.buffer = Prefix(me.dataread)
    /\ me.dataread <= me.bufsize /\ me.dataread <= it.size
    /\ pc # "done" => me.dataread = me.prevpacket * maxdata /\ result # "ok"
    /\ result = "ok" => me.dataread = it.size

LEMMA PrefixGrows ==
  ASSUME NEW a \in Nat, NEW b \in Nat
  PROVE  Prefix(a) \o [j \in 1 .. b |-> a + j] = Prefix(a + b)
  <1> DEFINE t == [j \in 1 .. b |-> a + j]
             u == Prefix(a) \o t
  <1>1. t \in Seq(Nat) /\ Len(t) = b
    OBVIOUS
  <1>2. Prefix(a) \in Seq(Nat) /\ Len(Prefix(a)) = a
    BY DEF Prefix
  <1>3. Prefix(a + b) \in Seq(Nat) /\ Len(Prefix(a + b)) = a + b
    BY DEF Prefix
  <1>4. \A j \in 1 .. b : t[j] = a + j
    OBVIOUS
  <1> HIDE DEF t
  <1>5. /\ u \in Seq(Nat) /\ Len(u) = a + b
        /\ \A j \in 1 .. a + b : u[j] = IF j <= a THEN Prefix(a)[j] ELSE t[j - a]
    <2>1. /\ u \in Seq(Nat) /\ Len(u) = Len(Prefix(a)) + Len(t)
          /\ \A j \in 1 .. Len(Prefix(a)) + Len(t) :
                u[j] = IF j <= Len(Prefix(a)) THEN Prefix(a)[j]
                                              ELSE t[j - Len(Prefix(a))]
      BY <1>1, <1>2, ConcatProperties, Zenon
    <2> QED BY <2>1, <1>1, <1>2
  <1> HIDE DEF u
  <1>6. ASSUME NEW j \in 1 .. a + b
        PROVE  u[j] = Prefix(a + b)[j]
    <2>1. CASE j <= a
      BY <1>5, <2>1 DEF Prefix
    <2>2. CASE j > a
      <3>1. j - a \in 1 .. b
        BY <2>2
      <3>2. t[j - a] = j
        BY <3>1, <1>4
      <3> QED BY <1>5, <2>2, <3>2 DEF Prefix
    <2> QED BY <2>1, <2>2
  <1> QED BY <1>3, <1>5, <1>6, SeqEqual DEF t, u

LEMMA PrefixOfPrefix ==
  ASSUME NEW n \in Nat, NEW k \in Nat, n <= k
  PROVE  SubSeq(Prefix(k), 1, n) = Prefix(n)
  <1>1. /\ Prefix(n) \in Seq(Nat) /\ Len(Prefix(n)) = n
        /\ \A j \in 1 .. k : Prefix(k)[j] \in Nat /\ Prefix(k)[j] = j
    BY DEF Prefix
  <1>2. /\ SubSeq(Prefix(k), 1, n) \in Seq(Nat)
        /\ Len(SubSeq(Prefix(k), 1, n)) = n
        /\ \A j \in 1 .. n : SubSeq(Prefix(k), 1, n)[j] = j
    BY <1>1, SubSeqProperties
  <1> QED BY <1>1, <1>2, SeqEqual DEF Prefix

\* The bytes of a packet follow on those of the packets before it.
LEMMA ReadBytes ==
  ASSUME SizeAssumption, it.size \in Nat, NEW k \in ReadPackets
  PROVE  LET first == (k - 1) * maxdata
             len == Len(FR!Data(k).data)
         IN  /\ first \in Nat /\ len \in Nat
             /\ len = IF it.size - first > maxdata THEN maxdata ELSE it.size - first
             /\ FR!Data(k).op = "data" /\ FR!Data(k).n = k
             /\ Prefix(first) \o FR!Data(k).data = Prefix(first + len)
  <1> DEFINE first == (k - 1) * maxdata
             len == IF it.size - first > maxdata THEN maxdata ELSE it.size - first
             bytes == [j \in 1 .. len |-> first + j]
  <1>1. first \in Nat /\ first <= it.size
    BY DEF SizeAssumption, ReadPackets
  <1>2. len \in Nat
    BY <1>1 DEF SizeAssumption
  <1>3. FR!Data(k).data = bytes /\ FR!Data(k).op = "data" /\ FR!Data(k).n = k
    BY DEF FR!Data
  <1> HIDE DEF len, first
  <1>4. Len(bytes) = len
    BY <1>2
  <1>5. Prefix(first) \o bytes = Prefix(first + len)
    BY <1>1, <1>2, PrefixGrows
  <1> QED BY <1>1, <1>2, <1>3, <1>4, <1>5 DEF len, first

\* What the master takes out of the queue is a mail of the slave.
LEMMA ReadTaken ==
  ASSUME ReadSlave, NEW op, FR!Reply(op)
  PROVE  Head(out) \in ReadMails /\ Head(out).op = op /\ out' \in Seq(ReadMails)
  <1>1. PICK m : m.op = op /\ FR!Take(m)
    BY DEF FR!Reply
  <1>2. out # <<>> /\ m = Head(out) /\ out' = Tail(out)
    BY <1>1 DEF FR!Take
  <1> QED BY <1>1, <1>2, HeadTailProperties DEF ReadSlave

LEMMA ReadSame ==
  ASSUME it'.size = it.size
  PROVE  ReadMails' = ReadMails /\ ReadPackets' = ReadPackets
  <1>1. ReadPackets' = ReadPackets
    BY DEF ReadPackets
  <1>2. \A k : FR!Data(k)' = FR!Data(k)
    BY DEF FR!Data
  <1> QED BY <1>1, <1>2 DEF ReadMails, FR!Stray

\* The call begins with an empty buffer, and perhaps a mail of an earlier call.
LEMMA ReadCall ==
  ASSUME SizeAssumption, result # "ok", FR!Call
  PROVE  ReadSlave' /\ ReadMaster'
  <1>1. PICK size \in 0 .. MaxSize, bufsize \in 0 .. MaxSize :
           FR!Begin([service |-> "FOEread", bufsize |-> bufsize, dataread |-> 0,
                  prevpacket |-> 0, buffer |-> <<>>],
                 [service |-> "FOEread", size |-> size, sent |-> 0, twice |-> 0],
                 FR!Stray)
    BY DEF FR!Call
  <1>2. /\ size \in Nat /\ bufsize \in Nat
        /\ pc = "idle" /\ pc' = "request" /\ result' = result
        /\ me' = [service |-> "FOEread", bufsize |-> bufsize, dataread |-> 0,
                  prevpacket |-> 0, buffer |-> <<>>]
        /\ it' = [service |-> "FOEread", size |-> size, sent |-> 0, twice |-> 0]
        /\ out' \in {<<>>} \cup {<<m>> : m \in FR!Stray}
    BY <1>1 DEF FR!Begin, SizeAssumption
  <1>4. out' \in Seq(ReadMails')
    <2>1. CASE out' = <<>>
      BY <2>1
    <2>2. ASSUME NEW m \in FR!Stray, out' = <<m>>
          PROVE  out' \in Seq(ReadMails')
      <3>1. m \in ReadMails'
        BY DEF ReadMails, FR!Stray
      <3> QED BY <2>2, <3>1
    <2> QED BY <1>2, <2>1, <2>2
  <1>5. Prefix(0) = <<>>
    BY DEF Prefix
  <1>6. ReadSlave'
    BY <1>2, <1>4 DEF ReadSlave
  <1>7. ReadMaster'
    BY <1>2, <1>5 DEF ReadMaster, SizeAssumption
  <1> QED BY <1>6, <1>7

\* A step of the slave leaves the master alone, and the mails that it sends are
\* packets in their turn, or strays.
LEMMA ReadSlaveStep ==
  ASSUME SizeAssumption, ReadSlave, FR!SlaveSends \/ FR!SlaveStray \/ FR!DeliverTwice
  PROVE  ReadSlave' /\ it'.size = it.size /\ UNCHANGED <<pc, me, result>>
  <1>1. CASE FR!SlaveSends
    <2>1. CASE it.sent = 0 \/ ~FR!Final(FR!Data(it.sent))
      <3>1. /\ out' = Append(out, FR!Data(it.sent + 1))
            /\ it' = [it EXCEPT !.sent = @ + 1]
            /\ UNCHANGED <<pc, me, result>>
        BY <1>1, <2>1 DEF FR!SlaveSends, FR!Answer, FR!master
      <3>2. it'.size = it.size /\ it'.service = it.service /\ it'.sent = it.sent + 1
        BY <3>1 DEF ReadSlave
      <3>3. it.sent + 1 \in ReadPackets
        <4>1. it.sent * maxdata <= it.size
          <5>1. CASE it.sent = 0
            BY <5>1 DEF SizeAssumption, ReadSlave
          <5>2. CASE it.sent \in ReadPackets /\ ~FR!Final(FR!Data(it.sent))
            <6> DEFINE first == (it.sent - 1) * maxdata
            <6> DEFINE len == Len(FR!Data(it.sent).data)
            <6>3. ~(len < maxdata)
              BY <5>2 DEF FR!Final
            <6>4. /\ first \in Nat /\ len \in Nat
                  /\ len = IF it.size - first > maxdata THEN maxdata
                                                       ELSE it.size - first
              BY <5>2, ReadBytes DEF ReadSlave
            <6> HIDE DEF first, len
            <6>1. first \in Nat /\ it.size - first >= maxdata
              BY <6>3, <6>4 DEF SizeAssumption, ReadSlave
            <6>2. it.sent * maxdata = first + maxdata
              BY DEF SizeAssumption, ReadSlave, first
            <6> QED BY <6>1, <6>2 DEF SizeAssumption, ReadSlave
          <5> QED BY <2>1, <5>1, <5>2 DEF ReadSlave
        <4>2. it.sent + 1 \in Nat \ {0} /\ (it.sent + 1) - 1 = it.sent
          BY DEF ReadSlave
        <4> QED BY <4>1, <4>2 DEF ReadPackets
      <3> DEFINE m == FR!Data(it.sent + 1)
      <3>4. m \in ReadMails
        BY <3>3 DEF ReadMails
      <3> HIDE DEF m
      <3>5. out' \in Seq(ReadMails)
        <4>1. out' = Append(out, m)
          BY <3>1 DEF m
        <4> QED BY <4>1, <3>4 DEF ReadSlave
      <3>6. out' \in Seq(ReadMails') /\ ReadPackets' = ReadPackets
        BY <3>2, <3>5, ReadSame
      <3>7. it'.sent \in ReadPackets'
        BY <3>2, <3>3, <3>6
      <3>8. it'.size \in Nat /\ it'.sent \in Nat /\ it'.service = "FOEread"
        BY <3>2 DEF ReadSlave
      <3> QED BY <3>1, <3>2, <3>6, <3>7, <3>8 DEF ReadSlave
    <2>2. CASE ~(it.sent = 0 \/ ~FR!Final(FR!Data(it.sent)))
      <3>1. UNCHANGED <<out, it, pc, me, result>>
        BY <1>1, <2>2 DEF FR!SlaveSends, FR!master
      <3> QED BY <3>1, ReadSame DEF ReadSlave
    <2> QED BY <2>1, <2>2
  <1>2. CASE FR!SlaveStray
    <2>1. PICK m \in FR!Stray : FR!Answer(m)
      BY <1>2 DEF FR!SlaveStray
    <2>2. out' = Append(out, m) /\ UNCHANGED <<it, pc, me, result>> /\ m \in ReadMails
      BY <1>2, <2>1 DEF FR!SlaveStray, FR!Answer, FR!master, ReadMails
    <2> QED BY <2>2, ReadSame DEF ReadSlave
  <1>3. CASE FR!DeliverTwice
    <2>1. out # <<>> /\ out' = <<Head(out)>> \o out
      BY <1>3 DEF FR!DeliverTwice
    <2>2. it' = [it EXCEPT !.twice = @ + 1] /\ UNCHANGED <<pc, me, result>>
      BY <1>3 DEF FR!DeliverTwice, FR!master
    <2>3. it'.size = it.size /\ it'.service = it.service /\ it'.sent = it.sent
      BY <2>2 DEF ReadSlave
    <2>4. out' \in Seq(ReadMails)
      BY <2>1, HeadTailProperties, ConcatProperties DEF ReadSlave
    <2> QED BY <2>3, <2>2, <2>4, ReadSame DEF ReadSlave
  <1> QED BY <1>1, <1>2, <1>3

\* A full packet is followed by the next, and one that is not full ends the file.
LEMMA ReadDataStep ==
  ASSUME SizeAssumption, ReadSlave, ReadMaster, FR!RecvData
  PROVE  ReadSlave' /\ ReadMaster'
  <1> DEFINE m == Head(out)
  <1>1. /\ FR!Reply("data") /\ FR!Fits(m) /\ UNCHANGED it
        /\ me' = FR!Copied(m) /\ pc = "receive"
    BY DEF FR!RecvData, FR!Reply, FR!At
  <1>2. PICK k \in ReadPackets : m = FR!Data(k)
    <2>1. m \in ReadMails /\ m.op = "data"
      BY <1>1, ReadTaken
    <2>2. \A s \in FR!Stray : s.op # "data"
      BY DEF FR!Stray
    <2> QED BY <2>1, <2>2 DEF ReadMails
  <1> DEFINE len == Len(m.data)
  <1>3. k = me.prevpacket + 1 /\ me.dataread + len <= me.bufsize
    BY <1>1, <1>2, ReadBytes DEF FR!Fits, ReadSlave
  <1>4. (k - 1) * maxdata = me.dataread
    BY <1>1, <1>3 DEF ReadMaster
  <1>5. /\ len \in Nat
        /\ len = IF it.size - me.dataread > maxdata THEN maxdata
                                                    ELSE it.size - me.dataread
        /\ Prefix(me.dataread) \o m.data = Prefix(me.dataread + len)
    BY <1>2, <1>4, ReadBytes DEF ReadSlave
  <1>6. /\ me'.service = "FOEread" /\ me'.bufsize = me.bufsize
        /\ me'.prevpacket = k /\ me'.dataread = me.dataread + len
        /\ me'.buffer = Prefix(me.dataread + len)
    <2>1. /\ me'.service = me.service /\ me'.bufsize = me.bufsize
          /\ me'.prevpacket = me.prevpacket + 1
          /\ me'.dataread = me.dataread + len
          /\ me'.buffer = me.buffer \o m.data
      <3>1. me' = [me EXCEPT !.prevpacket = @ + 1, !.dataread = @ + Len(m.data),
                             !.buffer = @ \o m.data]
        BY <1>1 DEF FR!Copied
      <3> HIDE DEF m
      <3>2. me'.service = me.service
        BY <3>1
      <3>3. me'.bufsize = me.bufsize
        BY <3>1
      <3>4. me'.prevpacket = me.prevpacket + 1
        BY <3>1
      <3>5. me'.dataread = me.dataread + Len(m.data)
        BY <3>1
      <3>6. me'.buffer = me.buffer \o m.data
        <4>1. DOMAIN me = {"service", "bufsize", "dataread", "prevpacket", "buffer"}
          BY DEF ReadMaster
        <4> QED BY <3>1, <4>1, Zenon
      <3> QED BY <3>2, <3>3, <3>4, <3>5, <3>6
    <2> QED BY <2>1, <1>3, <1>5 DEF ReadMaster
  <1>7. \/ pc' = "done" /\ result' = "ok" /\ len < maxdata
        \/ pc' = "receive" /\ result' = result /\ ~(len < maxdata)
        \/ pc' = "done" /\ result' = "failed"
    BY DEF FR!RecvData, FR!Post, FR!Return, FR!Stay, FR!Failed, FR!Final
  <1>8. ~(len < maxdata) => me'.dataread = me'.prevpacket * maxdata
    <2> SUFFICES ASSUME ~(len < maxdata)
                 PROVE  me.dataread + len = k * maxdata
      BY <1>6
    <2>1. len = maxdata
      BY <1>5 DEF SizeAssumption
    <2> QED BY <2>1, <1>4 DEF SizeAssumption, ReadPackets
  <1>9. ReadSlave'
    BY <1>1, ReadTaken, ReadSame DEF ReadSlave
  <1>10. /\ me.dataread \in Nat /\ me.bufsize \in Nat /\ it.size \in Nat
         /\ maxdata \in Nat /\ me.dataread <= it.size /\ it' = it
         /\ me.prevpacket \in Nat /\ result # "ok"
    BY <1>1 DEF ReadMaster, ReadSlave, SizeAssumption
  <1>11. ReadMaster'
    <2>1. /\ me'.bufsize \in Nat /\ me'.dataread \in Nat /\ me'.prevpacket \in Nat
          /\ me'.buffer = Prefix(me'.dataread) /\ me'.service = "FOEread"
          /\ me'.dataread <= me'.bufsize /\ me'.dataread <= it'.size
      BY <1>3, <1>5, <1>6, <1>10
    <2>2. len < maxdata => me'.dataread = it'.size
      BY <1>5, <1>6, <1>10
    <2>3. /\ pc' \in {"request", "receive", "done"}
          /\ pc' # "done" => me'.dataread = me'.prevpacket * maxdata /\ result' # "ok"
          /\ result' = "ok" => me'.dataread = it'.size
      BY <1>7, <1>8, <1>10, <2>2
    <2>4. me' \in [service : {"FOEread"}, bufsize : Nat, dataread : Nat,
                   prevpacket : Nat, buffer : Seq(Nat)]
      <3>1. Prefix(me'.dataread) \in Seq(Nat)
        BY <2>1 DEF Prefix
      <3>2. /\ me'.prevpacket \in Nat /\ me'.dataread \in Nat
            /\ me'.buffer \in Seq(Nat)
        BY <2>1, <3>1
      <3>3. me' = [me EXCEPT !.prevpacket = me'.prevpacket,
                             !.dataread = me'.dataread, !.buffer = me'.buffer]
        BY <1>1 DEF FR!Copied, ReadMaster
      <3> QED BY <3>2, <3>3 DEF ReadMaster
    <2> QED BY <2>1, <2>3, <2>4 DEF ReadMaster, Prefix
  <1> QED BY <1>9, <1>11

\* The other ends of the call leave the buffer alone.
LEMMA ReadOtherStep ==
  ASSUME SizeAssumption, ReadSlave, ReadMaster,
         FR!SendRequest \/ FR!RecvDataRefused \/ FR!RecvOther \/ FR!RecvTimeout
  PROVE  ReadSlave' /\ ReadMaster'
  <1>1. ReadSlave'
    <2>1. UNCHANGED it /\ out' \in Seq(ReadMails)
      <3>1. CASE FR!SendRequest
        BY <3>1 DEF FR!SendRequest, ReadSlave
      <3>2. CASE FR!RecvDataRefused
        BY <3>2, ReadTaken DEF FR!RecvDataRefused
      <3>3. CASE FR!RecvOther
        BY <3>3, ReadTaken DEF FR!RecvOther
      <3>4. CASE FR!RecvTimeout
        BY <3>4, HeadTailProperties DEF FR!RecvTimeout, FR!Miss, ReadSlave
      <3> QED BY <3>1, <3>2, <3>3, <3>4
    <2> QED BY <2>1, ReadSame DEF ReadSlave
  <1>2. ReadMaster'
    <2>1. CASE FR!SendRequest
      BY <2>1 DEF FR!SendRequest, FR!At, FR!Post, FR!Stay, FR!Failed, FR!Return, ReadMaster
    <2>2. CASE FR!RecvDataRefused
      <3>1. /\ pc' = "done" /\ result' = "FOE_BUF2SMALL" /\ UNCHANGED it
            /\ me' = [me EXCEPT !.prevpacket = @ + 1]
        BY <2>2 DEF FR!RecvDataRefused, FR!Return
      <3>2. /\ me'.dataread = me.dataread /\ me'.bufsize = me.bufsize
            /\ me'.buffer = me.buffer
        BY <3>1 DEF ReadMaster
      <3>3. me' \in [service : {"FOEread"}, bufsize : Nat, dataread : Nat,
                     prevpacket : Nat, buffer : Seq(Nat)]
        <4>1. me' = [me EXCEPT !.prevpacket = me.prevpacket + 1]
          BY <3>1
        <4>2. me.prevpacket + 1 \in Nat
          BY DEF ReadMaster
        <4> QED BY <4>1, <4>2 DEF ReadMaster
      <3> QED BY <3>1, <3>2, <3>3 DEF ReadMaster
    <2>3. CASE FR!RecvOther
      BY <2>3 DEF FR!RecvOther, FR!Return, ReadMaster
    <2>4. CASE FR!RecvTimeout
      BY <2>4 DEF FR!RecvTimeout, FR!Failed, FR!Return, ReadMaster
    <2> QED BY <2>1, <2>2, <2>3, <2>4
  <1> QED BY <1>1, <1>2

-------------------------------------------------------------------------------
(* The download *)

\* Where packet k of a file of `size' bytes ends, ...
Upto(size, k) == IF k * maxdata < size THEN k * maxdata ELSE size

\* ... and the packet; 1 is the first.
Packet(size, k) ==
    [op |-> "data", n |-> k,
     data |-> [j \in 1 .. Upto(size, k) - Upto(size, k - 1)
                 |-> Upto(size, k - 1) + j]]

\* Numbers of packets that begin inside of the file, or at its end.
WritePackets(size) == {k \in Nat \ {0} : (k - 1) * maxdata <= size}

Request == [op |-> "write", n |-> 0, data |-> <<>>]

WriteMails == {FW!Busy} \cup FW!Error \cup FW!Stray \cup {FW!Ack(n) : n \in Nat}

\* While a download runs, the slave has stored the packets before the one it waits
\* for, and is complete when the last of them was not full; ...
WriteSlave ==
    /\ it \in [service : {"FOEwrite"}, expect : Nat, stored : Seq(Nat),
               complete : BOOLEAN]
    /\ it.expect = 0 => it.stored = <<>>
    /\ it.expect # 0 => it.stored = Prefix(Upto(me.size, it.expect - 1))
    /\ it.complete <=> it.expect # 0 /\ (it.expect - 1) * maxdata > me.size
    /\ in = None \/ in = Request \/ \E k \in WritePackets(me.size) : in = Packet(me.size, k)
    /\ out \in Seq(WriteMails)

\* ... the master is behind packet sendpacket, ...
WriteMaster ==
    /\ pc \in {"request", "receive", "done"}
    /\ me \in [service : {"FOEwrite"}, size : Nat, psize : Nat, pos : Nat,
               segmentdata : Nat, sendpacket : Nat, dofinalzero : BOOLEAN,
               busied : BOOLEAN]
    /\ me.pos = Upto(me.size, me.sendpacket) /\ me.psize = me.size - me.pos
    /\ me.sendpacket # 0 => me.sendpacket \in WritePackets(me.size)

\* ... which it knows to be the last full one from dofinalzero; ...
WriteRuns ==
    pc # "done" =>
      /\ ~me.busied /\ result # "ok"
      /\ me.dofinalzero <=> me.sendpacket # 0 /\ me.sendpacket * maxdata = me.size
      /\ me.sendpacket # 0 =>
           me.segmentdata = me.pos - Upto(me.size, me.sendpacket - 1)

\* ... an acknowledge is that of a packet the slave has stored, but for one of an
\* earlier call that is the first to come; ...
AcksAreTrue ==
    pc # "done" =>
      \A j \in DOMAIN out : out[j].op = "ack" =>
         out[j].n < it.expect \/ (j = 1 /\ me.sendpacket = 0)

\* ... and a success is complete.
WriteEnds == result = "ok" /\ ~me.busied /\ me.size > 0 => it.complete

WriteInv == WriteSlave /\ WriteMaster /\ WriteRuns /\ AcksAreTrue /\ WriteEnds

\* A packet is a piece of the file of the size of a packet, or to its end.
LEMMA UptoNext ==
  ASSUME SizeAssumption, NEW size \in Nat, NEW k \in Nat, k * maxdata <= size
  PROVE  /\ k * maxdata \in Nat /\ Upto(size, k) = k * maxdata
         /\ Upto(size, k + 1) \in Nat /\ Upto(size, k + 1) <= size
         /\ Upto(size, k + 1) - Upto(size, k) \in Nat
         /\ Upto(size, k + 1) - Upto(size, k)
              = IF size - k * maxdata > maxdata THEN maxdata ELSE size - k * maxdata
         /\ (Upto(size, k + 1) - Upto(size, k) < maxdata)
              <=> (k + 1) * maxdata > size
  <1> DEFINE s == k * maxdata
  <1>1. s \in Nat /\ maxdata \in Nat /\ maxdata > 0
    BY DEF SizeAssumption
  <1>2. (k + 1) * maxdata = s + maxdata
    BY <1>1
  <1>3. Upto(size, k) = s
    BY <1>1 DEF Upto
  <1>4. Upto(size, k + 1) = IF s + maxdata < size THEN s + maxdata ELSE size
    BY <1>2 DEF Upto
  <1> HIDE DEF s
  <1>5. /\ Upto(size, k + 1) \in Nat /\ Upto(size, k + 1) <= size
        /\ Upto(size, k + 1) - s \in Nat
        /\ Upto(size, k + 1) - s
             = IF size - s > maxdata THEN maxdata ELSE size - s
        /\ (Upto(size, k + 1) - s < maxdata) <=> s + maxdata > size
    <2>1. s <= size
      BY DEF s
    <2> QED BY <1>1, <1>4, <2>1
  <1> QED BY <1>1, <1>2, <1>3, <1>5 DEF s

LEMMA UptoNat ==
  ASSUME SizeAssumption, NEW size \in Nat, NEW k \in Nat
  PROVE  Upto(size, k) \in Nat /\ Upto(size, k) <= size
  <1>1. k * maxdata \in Nat
    BY DEF SizeAssumption
  <1> QED BY <1>1 DEF Upto

LEMMA PacketIsNext ==
  ASSUME SizeAssumption, NEW size \in Nat, NEW k \in WritePackets(size)
  PROVE  /\ k \in Nat /\ k # 0 /\ k - 1 \in Nat
         /\ Packet(size, k).op = "data" /\ Packet(size, k).n = k
         /\ Packet(size, k).data \in Seq(Nat)
         /\ (Len(Packet(size, k).data) < maxdata) <=> k * maxdata > size
         /\ Upto(size, k) \in Nat
         /\ Prefix(Upto(size, k - 1)) \o Packet(size, k).data = Prefix(Upto(size, k))
  <1> DEFINE a == Upto(size, k - 1)
             b == Upto(size, k) - a
             bytes == [j \in 1 .. b |-> a + j]
  <1>1. k \in Nat /\ k # 0 /\ k - 1 \in Nat /\ (k - 1) * maxdata <= size /\ (k - 1) + 1 = k
    BY DEF WritePackets
  <1>2. /\ a \in Nat /\ Upto(size, k) \in Nat /\ b \in Nat
        /\ (b < maxdata) <=> k * maxdata > size
    BY <1>1, UptoNext
  <1>3. Packet(size, k).data = bytes /\ Packet(size, k).op = "data" /\ Packet(size, k).n = k
    BY DEF Packet
  <1>4. a + b = Upto(size, k)
    BY <1>2
  <1> HIDE DEF a, b
  <1>5. bytes \in Seq(Nat) /\ Len(bytes) = b
    BY <1>2
  <1>6. Prefix(a) \o bytes = Prefix(a + b)
    BY <1>2, PrefixGrows
  <1> QED BY <1>1, <1>2, <1>3, <1>4, <1>5, <1>6 DEF a

\* What the master takes out of the queue is a mail of the slave.
LEMMA WriteTaken ==
  ASSUME WriteSlave, NEW op, FW!Reply(op)
  PROVE  /\ out # <<>> /\ Head(out) \in WriteMails /\ Head(out).op = op
         /\ out' = Tail(out) /\ out' \in Seq(WriteMails)
  <1>1. PICK m : m.op = op /\ FW!Take(m)
    BY DEF FW!Reply
  <1>2. out # <<>> /\ m = Head(out) /\ out' = Tail(out)
    BY <1>1 DEF FW!Take
  <1> QED BY <1>1, <1>2, HeadTailProperties DEF WriteSlave

\* The call begins with nothing sent, and perhaps an acknowledge of an earlier call.
LEMMA WriteCall ==
  ASSUME SizeAssumption, result # "ok", in = None, FW!Call
  PROVE  WriteInv'
  <1>1. PICK size \in 0 .. MaxSize :
           FW!Begin([service |-> "FOEwrite", size |-> size, psize |-> size, pos |-> 0,
              segmentdata |-> 0, sendpacket |-> 0, dofinalzero |-> FALSE,
              busied |-> FALSE],
             [service |-> "FOEwrite", expect |-> 0, stored |-> <<>>,
              complete |-> FALSE],
             {FW!Busy} \cup FW!Error \cup FW!Stray \cup {FW!Ack(n) : n \in 0 .. MaxSize})
    BY DEF FW!Call
  <1>2. /\ size \in Nat
        /\ pc = "idle" /\ pc' = "request" /\ result' = result /\ in' = in
        /\ me' = [service |-> "FOEwrite", size |-> size, psize |-> size, pos |-> 0,
              segmentdata |-> 0, sendpacket |-> 0, dofinalzero |-> FALSE,
              busied |-> FALSE]
        /\ it' = [service |-> "FOEwrite", expect |-> 0, stored |-> <<>>,
              complete |-> FALSE]
        /\ out' \in {<<>>} \cup {<<m>> : m \in {FW!Busy} \cup FW!Error \cup FW!Stray \cup {FW!Ack(n) : n \in 0 .. MaxSize}}
    BY <1>1 DEF FW!Begin, SizeAssumption
  <1>3. out' = <<>> \/ \E m \in WriteMails : out' = <<m>>
    BY <1>2 DEF WriteMails, SizeAssumption
  <1>4. out' \in Seq(WriteMails) /\ \A j \in DOMAIN out' : j = 1
    <2>1. ASSUME NEW S, NEW m \in S, out' = <<m>>
          PROVE  out' \in Seq(S) /\ \A j \in DOMAIN out' : j = 1
      BY <2>1
    <2>2. CASE out' = <<>>
      BY <2>2
    <2> QED BY <1>3, <2>1, <2>2
  <1>5. Upto(size, 0) = 0
    BY <1>2 DEF Upto, SizeAssumption
  <1>6. WriteSlave'
    BY <1>2, <1>4 DEF WriteSlave
  <1>7. WriteMaster'
    BY <1>2, <1>5 DEF WriteMaster
  <1>8. WriteRuns' /\ WriteEnds'
    BY <1>2 DEF WriteRuns, WriteEnds
  <1>9. AcksAreTrue'
    BY <1>2, <1>4 DEF AcksAreTrue
  <1> QED BY <1>6, <1>7, <1>8, <1>9 DEF WriteInv

\* The slave stores the packet it waits for behind the ones before it.
LEMMA WriteStores ==
  ASSUME SizeAssumption, WriteInv, FW!SlaveStores
  PROVE  /\ WriteSlave' /\ UNCHANGED <<pc, me, result>>
         /\ it'.expect = it.expect + 1 /\ ~it.complete
         /\ out' = Append(out, FW!Ack(it.expect))
  <1> USE DEF WriteInv
  <1>1. /\ in # None /\ ~it.complete /\ in.n = it.expect
        /\ it' = [it EXCEPT !.stored = @ \o in.data, !.expect = @ + 1,
                        !.complete = in.op = "data" /\ Len(in.data) < maxdata]
        /\ in' = None /\ out' = Append(out, FW!Ack(in.n))
        /\ UNCHANGED <<pc, me, result>>
    BY DEF FW!SlaveStores, FW!Asked, FW!Answer, FW!master
  <1>2. DOMAIN it = {"service", "expect", "stored", "complete"} /\ it.service = "FOEwrite"
    BY DEF WriteSlave
  <1>3. /\ it'.service = it.service /\ it'.expect = it.expect + 1
        /\ it'.stored = it.stored \o in.data
        /\ it'.complete = (in.op = "data" /\ Len(in.data) < maxdata)
        /\ DOMAIN it' = DOMAIN it
    BY <1>1, <1>2, Zenon
  <1>4. it.expect \in Nat /\ it.stored \in Seq(Nat) /\ me.size \in Nat /\ me'.size = me.size
    BY <1>1 DEF WriteSlave, WriteMaster
  <1>5. /\ it'.stored \in Seq(Nat) /\ it'.complete \in BOOLEAN
        /\ it'.stored = Prefix(Upto(me.size, it.expect))
        /\ it'.complete <=> it.expect * maxdata > me.size
    <2>1. CASE in = Request
      <3>1. it.expect = 0 /\ it.stored = <<>> /\ in.data = <<>> /\ in.op = "write"
        BY <1>1, <2>1 DEF Request, WriteSlave
      <3>2. Upto(me.size, 0) = 0 /\ ~(0 * maxdata > me.size) /\ Prefix(0) = <<>>
        BY <1>4 DEF Upto, SizeAssumption, Prefix
      <3>3. it'.stored = <<>>
        BY <1>3, <3>1
      <3>4. in.op # "data"
        BY <3>1
      <3>5. ~it'.complete /\ it'.complete \in BOOLEAN
        BY <1>3, <3>4, Zenon
      <3>6. it'.stored \in Seq(Nat)
        BY <3>3
      <3>7. ~(it.expect * maxdata > me.size) /\ it'.stored = Prefix(Upto(me.size, it.expect))
        BY <3>1, <3>2, <3>3
      <3> QED BY <3>5, <3>6, <3>7, Zenon
    <2>2. ASSUME NEW k \in WritePackets(me.size), in = Packet(me.size, k)
          PROVE  /\ it'.stored \in Seq(Nat) /\ it'.complete \in BOOLEAN
                 /\ it'.stored = Prefix(Upto(me.size, it.expect))
                 /\ it'.complete <=> it.expect * maxdata > me.size
      <3>1. /\ k \in Nat /\ k # 0 /\ in.op = "data" /\ in.n = k
            /\ in.data \in Seq(Nat)
            /\ (Len(in.data) < maxdata) <=> k * maxdata > me.size
            /\ Prefix(Upto(me.size, k - 1)) \o in.data = Prefix(Upto(me.size, k))
        BY <1>4, <2>2, PacketIsNext
      <3>2. k = it.expect /\ it.stored = Prefix(Upto(me.size, k - 1))
        BY <1>1, <3>1 DEF WriteSlave
      <3>3. it'.stored = Prefix(Upto(me.size, it.expect))
        BY <1>3, <3>1, <3>2
      <3>4. it'.stored \in Seq(Nat)
        BY <1>3, <1>4, <3>1, ConcatProperties
      <3>5. /\ it'.complete \in BOOLEAN
            /\ it'.complete <=> in.op = "data" /\ Len(in.data) < maxdata
        <4>1. it'.complete = (in.op = "data" /\ Len(in.data) < maxdata)
          BY <1>3
        <4> QED BY <4>1, Zenon
      <3>6. (Len(in.data) < maxdata) <=> it.expect * maxdata > me.size
        BY <3>1, <3>2, Zenon
      <3>7. in.op = "data"
        BY <3>1
      <3>8. it'.complete <=> it.expect * maxdata > me.size
        BY <3>5, <3>6, <3>7, Zenon
      <3> QED BY <3>3, <3>4, <3>5, <3>8, Zenon
    <2> QED BY <1>1, <2>1, <2>2 DEF WriteSlave
  <1>6. out' \in Seq(WriteMails)
    <2>1. FW!Ack(in.n) \in WriteMails
      BY <1>1, <1>4 DEF WriteMails
    <2> HIDE DEF WriteMails
    <2>2. out \in Seq(WriteMails)
      BY DEF WriteSlave
    <2> QED BY <1>1, <2>1, <2>2, AppendProperties
  <1>7. it.expect + 1 \in Nat /\ it.expect + 1 # 0 /\ (it.expect + 1) - 1 = it.expect
    BY <1>4
  <1>8. it' \in [service : {"FOEwrite"}, expect : Nat, stored : Seq(Nat),
                 complete : BOOLEAN]
    <2>1. it' = [service |-> "FOEwrite", expect |-> it.expect + 1,
                 stored |-> it'.stored, complete |-> it'.complete]
      BY <1>1, <1>2, <1>3 DEF WriteSlave
    <2> QED BY <1>5, <1>7, <2>1
  <1>9. WriteSlave'
    BY <1>1, <1>3, <1>4, <1>5, <1>6, <1>7, <1>8 DEF WriteSlave
  <1> QED BY <1>1, <1>3, <1>9

LEMMA WriteSlaveStep ==
  ASSUME SizeAssumption, WriteInv, FW!SlaveStores \/ FW!SlaveRefuses
  PROVE  WriteInv'
  <1>1. CASE FW!SlaveStores
    <2>1. /\ WriteSlave' /\ UNCHANGED <<pc, me, result>>
          /\ it'.expect = it.expect + 1 /\ ~it.complete
          /\ out' = Append(out, FW!Ack(it.expect))
      BY <1>1, WriteStores
    <2>2. WriteMaster' /\ WriteRuns'
      BY <2>1 DEF WriteInv, WriteMaster, WriteRuns
    <2>3. AcksAreTrue'
      <3> SUFFICES ASSUME pc # "done", NEW j \in DOMAIN out', out'[j].op = "ack"
                   PROVE  out'[j].n < it'.expect \/ (j = 1 /\ me'.sendpacket = 0)
        BY <2>1 DEF AcksAreTrue
      <3>1. it.expect \in Nat /\ out \in Seq(WriteMails)
        BY DEF WriteInv, WriteSlave
      <3>2. CASE j \in DOMAIN out
        <4>1. out'[j] = out[j]
          BY <2>1, <3>1, <3>2
        <4>2. out[j].n < it.expect \/ (j = 1 /\ me.sendpacket = 0)
          BY <3>2, <4>1 DEF WriteInv, AcksAreTrue
        <4>3. out[j].n \in Int \/ (j = 1 /\ me.sendpacket = 0)
          <5>1. out[j] \in WriteMails
            BY <3>1, <3>2
          <5> QED BY <5>1 DEF WriteMails, FW!Busy, FW!Error, FW!Stray, FW!Ack
        <4> QED BY <2>1, <3>1, <4>1, <4>2, <4>3
      <3>3. CASE j = Len(out) + 1
        <4>1. out'[j] = FW!Ack(it.expect)
          BY <2>1, <3>1, <3>3
        <4> QED BY <2>1, <3>1, <4>1 DEF FW!Ack
      <3> QED BY <2>1, <3>1, <3>2, <3>3
    <2>4. WriteEnds'
      BY <2>1 DEF WriteInv, WriteEnds
    <2> QED BY <2>1, <2>2, <2>3, <2>4 DEF WriteInv
  <1>2. CASE FW!SlaveRefuses
    <2>1. PICK m \in FW!Error \cup FW!Stray \cup {FW!Busy} : FW!Answer(m)
      BY <1>2 DEF FW!SlaveRefuses
    <2>2. in' = None /\ out' = Append(out, m) /\ UNCHANGED <<pc, me, result, it>>
      BY <1>2, <2>1 DEF FW!SlaveRefuses, FW!Answer, FW!master
    <2>3. m \in WriteMails /\ m.op # "ack"
      BY DEF WriteMails, FW!Error, FW!Stray, FW!Busy
    <2>4. out \in Seq(WriteMails)
      BY DEF WriteInv, WriteSlave
    <2>5. out' \in Seq(WriteMails)
      BY <2>2, <2>3, <2>4, AppendProperties
    <2>6. WriteSlave' /\ WriteMaster' /\ WriteRuns' /\ WriteEnds'
      BY <2>2, <2>5 DEF WriteInv, WriteSlave, WriteMaster, WriteRuns, WriteEnds
    <2>7. AcksAreTrue'
      <3> SUFFICES ASSUME pc # "done", NEW j \in DOMAIN out', out'[j].op = "ack"
                   PROVE  out'[j].n < it'.expect \/ (j = 1 /\ me'.sendpacket = 0)
        BY <2>2 DEF AcksAreTrue
      <3>1. j \in DOMAIN out /\ out'[j] = out[j]
        BY <2>2, <2>3, <2>4
      <3> QED BY <2>2, <3>1 DEF WriteInv, AcksAreTrue
    <2> QED BY <2>6, <2>7 DEF WriteInv
  <1> QED BY <1>1, <1>2

\* Behind the first mail all acknowledges are those of stored packets.
LEMMA TailIsLater ==
  ASSUME WriteInv, pc # "done", out # <<>>, out' = Tail(out), it' = it
  PROVE  AcksAreTrue'
  <1>1. out \in Seq(WriteMails)
    BY DEF WriteInv, WriteSlave
  <1>2. ASSUME NEW j \in DOMAIN out', out'[j].op = "ack"
        PROVE  out'[j].n < it'.expect
    <2>1. /\ j \in Nat /\ j + 1 \in DOMAIN out /\ j + 1 # 1
          /\ out'[j] = out[j + 1]
      BY <1>1
    <2> QED BY <1>2, <2>1 DEF WriteInv, AcksAreTrue
  <1> QED BY <1>2 DEF AcksAreTrue

\* The next packet follows on what was sent: p, psize and the number advance together.
LEMMA SendStep ==
  ASSUME SizeAssumption, WriteInv, FW!RecvAckSend
  PROVE  WriteInv'
  <1> DEFINE s == me.sendpacket
             t == FW!tsize
  <1>1. /\ FW!Reply("ack") /\ pc = "receive" /\ UNCHANGED it
        /\ t > 0 \/ me.dofinalzero
        /\ me' = [FW!Sent EXCEPT !.dofinalzero = me.psize = t /\ t = maxdata]
        /\ \/ in' = FW!Segment /\ pc' = "receive" /\ result' = result
           \/ in' \in {in, FW!Segment} /\ pc' = "done" /\ result' = "failed"
    BY DEF FW!RecvAckSend, FW!Acknowledged, FW!Reply, FW!At, FW!Post, FW!Stay,
       FW!Failed, FW!Return
  <1>2. /\ me.size \in Nat /\ s \in Nat /\ me.pos = Upto(me.size, s)
        /\ me.psize = me.size - me.pos /\ me.psize \in Nat /\ me.pos \in Nat
        /\ me.dofinalzero <=> s # 0 /\ s * maxdata = me.size
        /\ ~me.busied /\ result # "ok" /\ maxdata \in Nat /\ maxdata > 0
        /\ s * maxdata \in Nat
    BY <1>1 DEF WriteInv, WriteMaster, WriteRuns, SizeAssumption
  <1>3. t = IF me.psize > maxdata THEN maxdata ELSE me.psize
    BY DEF FW!tsize
  <1> HIDE DEF t
  <1>4. s * maxdata <= me.size
    <2>1. CASE t > 0
      BY <1>2, <1>3, <2>1 DEF Upto
    <2>2. CASE me.dofinalzero
      BY <1>2, <2>2
    <2> QED BY <1>1, <2>1, <2>2
  <1>5. /\ me.pos = s * maxdata /\ t \in Nat
        /\ Upto(me.size, s + 1) = me.pos + t /\ Upto(me.size, s + 1) <= me.size
        /\ (t < maxdata) <=> (s + 1) * maxdata > me.size
    <2>1. /\ Upto(me.size, s) = s * maxdata
          /\ Upto(me.size, s + 1) \in Nat /\ Upto(me.size, s + 1) <= me.size
          /\ Upto(me.size, s + 1) - Upto(me.size, s)
              = IF me.size - s * maxdata > maxdata THEN maxdata ELSE me.size - s * maxdata
          /\ (Upto(me.size, s + 1) - Upto(me.size, s) < maxdata)
              <=> (s + 1) * maxdata > me.size
      BY <1>2, <1>4, UptoNext
    <2> DEFINE u == Upto(me.size, s + 1)
               v == Upto(me.size, s)
    <2>2. u - v = t
      <3>1. v = s * maxdata /\ me.psize = me.size - s * maxdata
        BY <1>2, <2>1
      <3> QED BY <1>3, <2>1, <3>1
    <2> HIDE DEF u, v
    <2>3. u \in Nat /\ v \in Nat /\ u <= me.size /\ v = me.pos
      BY <1>2, <2>1 DEF u, v
    <2>4. u = me.pos + t /\ t \in Nat
      BY <1>2, <1>3, <2>2, <2>3
    <2>5. (t < maxdata) <=> (s + 1) * maxdata > me.size
      BY <2>1, <2>2 DEF u, v
    <2> QED BY <1>2, <2>1, <2>3, <2>4, <2>5 DEF u
  <1>6. /\ me' = [service |-> "FOEwrite", size |-> me.size, psize |-> me.psize - t,
                  pos |-> me.pos + t, segmentdata |-> t, sendpacket |-> s + 1,
                  dofinalzero |-> (me.psize = t /\ t = maxdata),
                  busied |-> me.busied]
    <2>1. me = [service |-> "FOEwrite", size |-> me.size, psize |-> me.psize,
                pos |-> me.pos, segmentdata |-> me.segmentdata, sendpacket |-> s,
                dofinalzero |-> me.dofinalzero, busied |-> me.busied]
      BY DEF WriteInv, WriteMaster
    <2>2. me' = [[me EXCEPT !.psize = @ - t, !.pos = @ + t, !.segmentdata = t,
                            !.sendpacket = @ + 1]
                   EXCEPT !.dofinalzero = me.psize = t /\ t = maxdata]
      BY <1>1 DEF FW!Sent, t
    <2>3. DOMAIN me = {"service", "size", "psize", "pos", "segmentdata",
                       "sendpacket", "dofinalzero", "busied"}
          /\ me.service = "FOEwrite"
      BY DEF WriteInv, WriteMaster
    <2> DEFINE z == (me.psize = t /\ t = maxdata)
    <2>4. me' = [[me EXCEPT !.psize = @ - t, !.pos = @ + t, !.segmentdata = t,
                            !.sendpacket = @ + 1]
                   EXCEPT !.dofinalzero = z]
      BY <2>2
    <2> HIDE DEF z
    <2>5. me' = [service |-> "FOEwrite", size |-> me.size, psize |-> me.psize - t,
                 pos |-> me.pos + t, segmentdata |-> t, sendpacket |-> s + 1,
                 dofinalzero |-> z, busied |-> me.busied]
      BY <2>3, <2>4
    <2> QED BY <2>5 DEF z
  <1>part. me.psize \in Nat /\ t \in Nat /\ t <= me.psize
    <2>1. me.psize \in Nat /\ maxdata \in Nat
      BY <1>2
    <2> QED BY <1>3, <2>1
  <1>7. me.psize - t \in Nat /\ s + 1 \in Nat /\ me.pos + t \in Nat
    <2>1. s \in Nat /\ me.pos \in Nat
      BY <1>2
    <2> QED BY <1>part, <2>1
  <1>8. (s + 1) \in WritePackets(me.size) /\ (s + 1) - 1 = s
    <2>1. s \in Nat
      BY <1>2
    <2>2. s + 1 \in Nat \ {0} /\ (s + 1) - 1 = s
      BY <2>1
    <2> QED BY <1>4, <2>2 DEF WritePackets
  <1>9. WriteMaster'
    <2>1. (me.psize = t /\ t = maxdata) \in BOOLEAN
      OBVIOUS
    <2>2. me' \in [service : {"FOEwrite"}, size : Nat, psize : Nat, pos : Nat,
               segmentdata : Nat, sendpacket : Nat, dofinalzero : BOOLEAN,
               busied : BOOLEAN]
      <3>1. me.busied \in BOOLEAN
        BY DEF WriteInv, WriteMaster
      <3> DEFINE z == (me.psize = t /\ t = maxdata)
      <3> HIDE DEF z
      <3>2. z \in BOOLEAN /\ me.size \in Nat /\ t \in Nat
        BY <2>1, <1>2, <1>5 DEF z
      <3>3. me' = [service |-> "FOEwrite", size |-> me.size, psize |-> me.psize - t,
                  pos |-> me.pos + t, segmentdata |-> t, sendpacket |-> s + 1,
                  dofinalzero |-> z, busied |-> me.busied]
        BY <1>6 DEF z
      <3> QED BY <1>7, <3>1, <3>2, <3>3
    <2>3. /\ me'.size = me.size /\ me'.psize = me.psize - t /\ me'.pos = me.pos + t
          /\ me'.sendpacket = s + 1
      BY <1>6
    <2>4. me.psize - t = me.size - (me.pos + t)
      BY <1>2, <1>5
    <2>5. pc' \in {"request", "receive", "done"}
      BY <1>1
    <2> QED BY <1>5, <1>8, <2>2, <2>3, <2>4, <2>5 DEF WriteMaster
  <1>10. /\ me'.size = me.size /\ me'.segmentdata = t /\ me'.sendpacket = s + 1
         /\ me'.pos = me.pos + t /\ me'.busied = me.busied
    BY <1>6
  <1>11. me'.dofinalzero <=> me.psize = t /\ t = maxdata
    <2>1. me'.dofinalzero = (me.psize = t /\ t = maxdata)
      BY <1>6, Zenon
    <2> QED BY <2>1, Zenon
  <1>12. WriteRuns'
    <2>1. pc' # "done" => result' # "ok"
      BY <1>1, <1>2
    <2>2. me.psize = t /\ t = maxdata <=> (s + 1) * maxdata = me.size
      <3>1. (s + 1) * maxdata = s * maxdata + maxdata
        BY <1>2
      <3> DEFINE q == s * maxdata
      <3>2. q \in Nat /\ me.pos = q
        BY <1>2, <1>5
      <3> HIDE DEF q
      <3>4. me.size \in Nat /\ maxdata \in Nat /\ me.psize = me.size - q
        BY <1>2, <3>2
      <3>3. me.psize = t /\ t = maxdata <=> q + maxdata = me.size
        BY <1>3, <3>2, <3>4
      <3> QED BY <3>1, <3>3 DEF q
    <2>3. s + 1 # 0
      BY <1>2
    <2>4. me'.dofinalzero <=> me'.sendpacket # 0 /\ me'.sendpacket * maxdata = me'.size
      <3>1. me'.sendpacket * maxdata = me'.size <=> (s + 1) * maxdata = me.size
        BY <1>10
      <3> QED BY <1>10, <1>11, <2>2, <2>3, <3>1, Zenon
    <2>5. me'.segmentdata = me'.pos - Upto(me'.size, me'.sendpacket - 1)
      <3>1. Upto(me'.size, me'.sendpacket - 1) = me.pos
        BY <1>2, <1>8, <1>10
      <3> QED BY <1>2, <1>5, <1>10, <3>1
    <2> QED BY <1>2, <1>10, <2>1, <2>4, <2>5 DEF WriteRuns
  <1>13. FW!Segment = Packet(me.size, s + 1)
    <2>1. Upto(me.size, (s + 1) - 1) = me.pos
      BY <1>2, <1>8
    <2>2. Upto(me.size, s + 1) - me.pos = t
      <3>1. t \in Nat /\ me.pos \in Nat /\ Upto(me.size, s + 1) = me.pos + t
        BY <1>2, <1>5
      <3> QED BY <3>1
    <2> QED BY <2>1, <2>2 DEF FW!Segment, Packet, t
  <1>14. /\ out # <<>> /\ out' = Tail(out) /\ out' \in Seq(WriteMails)
    BY <1>1, WriteTaken DEF WriteInv
  <1>15. WriteSlave'
    <2>1. in' = in \/ in' = Packet(me.size, s + 1)
      BY <1>1, <1>13
    <2>2. in' = None \/ in' = Request
            \/ \E k \in WritePackets(me.size) : in' = Packet(me.size, k)
      BY <1>8, <2>1 DEF WriteInv, WriteSlave
    <2> QED BY <1>1, <1>10, <1>14, <2>2 DEF WriteInv, WriteSlave
  <1>16. AcksAreTrue'
    BY <1>1, <1>14, TailIsLater DEF WriteInv, WriteSlave
  <1>17. WriteEnds'
    BY <1>1, <1>2 DEF WriteEnds
  <1> QED BY <1>9, <1>12, <1>15, <1>16, <1>17 DEF WriteInv

\* A BUSY takes the last packet back, and the call ends.
LEMMA BusyStep ==
  ASSUME SizeAssumption, WriteInv, FW!RecvBusy
  PROVE  WriteInv'
  <1>1. /\ FW!Reply("busy") /\ pc = "receive" /\ pc' = "done" /\ UNCHANGED <<in, it>>
        /\ me' = IF me.sendpacket > 0
                 THEN [me EXCEPT !.busied = TRUE,
                                 !.dofinalzero = @ \/ me.psize = 0,
                                 !.psize = @ + me.segmentdata,
                                 !.pos = @ - me.segmentdata,
                                 !.sendpacket = @ - 1]
                 ELSE [me EXCEPT !.busied = TRUE]
    BY DEF FW!RecvBusy, FW!Reply, FW!At, FW!Return
  <1>2. out' \in Seq(WriteMails)
    BY <1>1, WriteTaken DEF WriteInv
  <1>3. /\ me.size \in Nat /\ me.psize \in Nat /\ me.pos \in Nat
        /\ me.segmentdata \in Nat /\ me.sendpacket \in Nat
        /\ me.pos = Upto(me.size, me.sendpacket) /\ me.psize = me.size - me.pos
        /\ me.sendpacket # 0 => me.sendpacket \in WritePackets(me.size)
    BY DEF WriteInv, WriteMaster
  <1>4. me.sendpacket # 0 => me.segmentdata = me.pos - Upto(me.size, me.sendpacket - 1)
    BY <1>1 DEF WriteInv, WriteRuns
  <1>5. DOMAIN me = {"service", "size", "psize", "pos", "segmentdata",
                     "sendpacket", "dofinalzero", "busied"}
        /\ me.service = "FOEwrite" /\ me.dofinalzero \in BOOLEAN /\ me.busied \in BOOLEAN
    BY DEF WriteInv, WriteMaster
  <1>6. WriteMaster' /\ me'.size = me.size /\ me'.busied
    <2>1. CASE me.sendpacket = 0
      <3>1. me' = [me EXCEPT !.busied = TRUE]
        BY <1>1, <2>1
      <3> QED BY <1>1, <3>1 DEF WriteInv, WriteMaster
    <2>2. CASE me.sendpacket # 0
      <3> DEFINE k == me.sendpacket - 1
                 z == (me.dofinalzero \/ me.psize = 0)
      <3>1. me.sendpacket > 0 /\ k \in Nat
        <4>1. me.sendpacket \in Nat
          BY <1>3
        <4> QED BY <2>2, <4>1
      <3>2. /\ Upto(me.size, k) \in Nat /\ Upto(me.size, k) <= me.size
            /\ k * maxdata <= me.size
        BY <1>3, <2>2, <3>1, UptoNat DEF WritePackets
      <3>3. me.pos - me.segmentdata = Upto(me.size, k)
        BY <1>3, <1>4, <2>2, <3>2
      <3>4. me.psize + me.segmentdata = me.size - Upto(me.size, k)
        BY <1>3, <1>4, <2>2, <3>2
      <3>5. z \in BOOLEAN
        OBVIOUS
      <3>6. me' = [me EXCEPT !.busied = TRUE, !.dofinalzero = z,
                             !.psize = @ + me.segmentdata,
                             !.pos = @ - me.segmentdata, !.sendpacket = @ - 1]
        BY <1>1, <3>1
      <3> HIDE DEF z
      <3>7. me' = [service |-> "FOEwrite", size |-> me.size,
                   psize |-> me.psize + me.segmentdata,
                   pos |-> me.pos - me.segmentdata, segmentdata |-> me.segmentdata,
                   sendpacket |-> k, dofinalzero |-> z, busied |-> TRUE]
        BY <1>5, <3>6
      <3>8. me' = [service |-> "FOEwrite", size |-> me.size,
                   psize |-> me.size - Upto(me.size, k),
                   pos |-> Upto(me.size, k), segmentdata |-> me.segmentdata,
                   sendpacket |-> k, dofinalzero |-> z, busied |-> TRUE]
        BY <3>3, <3>4, <3>7
      <3>9. me.size - Upto(me.size, k) \in Nat
        BY <1>3, <3>2
      <3>10. k # 0 => k \in WritePackets(me.size)
        <4> SUFFICES ASSUME k # 0 PROVE (k - 1) * maxdata <= me.size
          BY <3>1 DEF WritePackets
        <4>1. (k - 1) * maxdata <= k * maxdata
          BY <3>1 DEF SizeAssumption
        <4>2. (k - 1) * maxdata \in Int /\ k * maxdata \in Int
          BY <3>1 DEF SizeAssumption
        <4> HIDE DEF k
        <4> QED BY <1>3, <3>2, <4>1, <4>2
      <3> HIDE DEF k
      <3>11. me' \in [service : {"FOEwrite"}, size : Nat, psize : Nat, pos : Nat,
                      segmentdata : Nat, sendpacket : Nat, dofinalzero : BOOLEAN,
                      busied : BOOLEAN]
        BY <1>3, <3>1, <3>2, <3>5, <3>8, <3>9
      <3>12. /\ me'.size = me.size /\ me'.sendpacket = k /\ me'.busied
             /\ me'.pos = Upto(me.size, k) /\ me'.psize = me.size - Upto(me.size, k)
        BY <3>8
      <3> QED BY <1>1, <3>10, <3>11, <3>12 DEF WriteMaster
    <2> QED BY <2>1, <2>2
  <1>7. WriteSlave'
    BY <1>1, <1>2, <1>6 DEF WriteInv, WriteSlave
  <1>8. WriteRuns' /\ AcksAreTrue' /\ WriteEnds'
    BY <1>1, <1>6 DEF WriteRuns, AcksAreTrue, WriteEnds
  <1> QED BY <1>6, <1>7, <1>8 DEF WriteInv

\* The slave has the last packet when it has acknowledged it.
LEMMA LastStep ==
  ASSUME SizeAssumption, WriteInv, FW!RecvAckLast
  PROVE  WriteInv'
  <1> DEFINE s == me.sendpacket
  <1>1. /\ FW!Reply("ack") /\ Head(out).n = s /\ FW!tsize = 0 /\ ~me.dofinalzero
        /\ pc = "receive" /\ pc' = "done" /\ UNCHANGED <<me, in, it>>
    BY DEF FW!RecvAckLast, FW!Acknowledged, FW!Reply, FW!At, FW!Return
  <1>2. out # <<>> /\ Head(out).op = "ack" /\ out' \in Seq(WriteMails)
    BY <1>1, WriteTaken DEF WriteInv
  <1>3. /\ me.size \in Nat /\ s \in Nat /\ me.pos = Upto(me.size, s)
        /\ me.psize = me.size - me.pos /\ me.psize \in Nat /\ me.pos \in Nat
        /\ maxdata \in Nat /\ maxdata > 0 /\ it.expect \in Nat
        /\ s * maxdata \in Nat
    BY DEF WriteInv, WriteMaster, WriteSlave, SizeAssumption
  <1>4. ASSUME me.size > 0 PROVE it.complete
    <2>1. me.psize = 0
      BY <1>1, <1>3 DEF FW!tsize
    <2>2. me.size <= s * maxdata
      BY <1>3, <2>1 DEF Upto
    <2>3. s # 0
      BY <1>3, <1>4, <2>2
    <2>4. s * maxdata # me.size
      BY <1>1, <2>3 DEF WriteInv, WriteRuns
    <2>5. s < it.expect
      <3>1. 1 \in DOMAIN out /\ out[1].op = "ack" /\ out[1].n = s
        BY <1>1, <1>2 DEF WriteInv, WriteSlave
      <3> QED BY <1>1, <2>3, <3>1 DEF WriteInv, AcksAreTrue
    <2>6. (it.expect - 1) * maxdata >= s * maxdata
      <3>1. \A a, b \in Nat : a < b => (b - 1) * maxdata >= a * maxdata
        BY <1>3
      <3> QED BY <1>3, <2>5, <3>1
    <2>7. (it.expect - 1) * maxdata > me.size
      <3>1. (it.expect - 1) * maxdata \in Int
        BY <1>3
      <3> DEFINE p == (it.expect - 1) * maxdata
                 q == s * maxdata
      <3>2. /\ p \in Int /\ q \in Int /\ p >= q /\ me.size <= q /\ q # me.size
            /\ me.size \in Int
        BY <1>3, <2>2, <2>4, <2>6, <3>1
      <3> HIDE DEF p, q
      <3>3. p > me.size
        BY <3>2
      <3> QED BY <3>3 DEF p
    <2>8. it.expect # 0
      BY <1>3, <2>5
    <2> QED BY <2>7, <2>8 DEF WriteInv, WriteSlave
  <1>5. WriteSlave' /\ WriteMaster'
    BY <1>1, <1>2 DEF WriteInv, WriteSlave, WriteMaster
  <1>6. WriteRuns' /\ AcksAreTrue' /\ WriteEnds'
    BY <1>1, <1>4 DEF WriteRuns, AcksAreTrue, WriteEnds
  <1> QED BY <1>5, <1>6 DEF WriteInv

\* The other ends of the call, and its beginning.
LEMMA WriteOtherStep ==
  ASSUME SizeAssumption, WriteInv,
         \/ FW!SendRequest \/ FW!RecvAckWrong \/ FW!RecvError \/ FW!RecvOther
         \/ FW!RecvTimeout
  PROVE  WriteInv'
  <1>1. /\ UNCHANGED <<me, it>> /\ out' \in Seq(WriteMails)
        /\ in' = in \/ in' = Request
        /\ \/ pc' = "done" /\ result' # "ok"
           \/ pc # "done" /\ pc' = "receive" /\ UNCHANGED <<result, out>>
    <2>1. CASE FW!SendRequest
      BY <2>1 DEF FW!SendRequest, FW!At, FW!Post, FW!Stay, FW!Failed, FW!Return,
         Request, WriteInv, WriteSlave
    <2>2. CASE FW!RecvAckWrong
      BY <2>2, WriteTaken DEF FW!RecvAckWrong, FW!Return, WriteInv
    <2>3. CASE FW!RecvError
      BY <2>3, WriteTaken DEF FW!RecvError, FW!Return, WriteInv
    <2>4. CASE FW!RecvOther
      BY <2>4, WriteTaken DEF FW!RecvOther, FW!Return, WriteInv
    <2>5. CASE FW!RecvTimeout
      <3>1. UNCHANGED <<me, in, it>> /\ pc' = "done" /\ result' = "failed"
        BY <2>5 DEF FW!RecvTimeout, FW!Failed, FW!Return
      <3>2. out' = out \/ (out # <<>> /\ out' = Tail(out))
        BY <2>5 DEF FW!RecvTimeout, FW!Miss
      <3>3. out \in Seq(WriteMails)
        BY DEF WriteInv, WriteSlave
      <3>4. out' \in Seq(WriteMails)
        BY <3>2, <3>3, HeadTailProperties
      <3> QED BY <3>1, <3>4
    <2> QED BY <2>1, <2>2, <2>3, <2>4, <2>5
  <1>2. WriteSlave' /\ WriteMaster'
    BY <1>1 DEF WriteInv, WriteSlave, WriteMaster
  <1>3. WriteRuns' /\ AcksAreTrue' /\ WriteEnds'
    BY <1>1 DEF WriteInv, WriteRuns, AcksAreTrue, WriteEnds
  <1> QED BY <1>2, <1>3 DEF WriteInv

\* What the two say of the file follows.
LEMMA WriteIsWhole ==
  ASSUME SizeAssumption, WriteInv
  PROVE  FW!StoresPrefix /\ FW!FileIsStored
  <1>1. /\ me.size \in Nat /\ it.expect \in Nat /\ me.sendpacket \in Nat
        /\ me.pos = Upto(me.size, me.sendpacket) /\ me.psize = me.size - me.pos
    BY DEF WriteInv, WriteMaster, WriteSlave
  <1>2. PICK n \in Nat : /\ n <= me.size /\ it.stored = Prefix(n)
                         /\ it.complete => n = me.size
    <2>1. CASE it.expect = 0
      BY <1>1, <2>1 DEF WriteInv, WriteSlave, Prefix
    <2>2. CASE it.expect # 0
      <3>1. it.expect - 1 \in Nat
        BY <1>1, <2>2
      <3>2. /\ Upto(me.size, it.expect - 1) \in Nat
            /\ Upto(me.size, it.expect - 1) <= me.size
        BY <1>1, <3>1, UptoNat
      <3>3. it.complete => Upto(me.size, it.expect - 1) = me.size
        <4>1. (it.expect - 1) * maxdata \in Int
          BY <3>1 DEF SizeAssumption
        <4> DEFINE p == (it.expect - 1) * maxdata
        <4>2. it.complete => p > me.size
          BY DEF WriteInv, WriteSlave
        <4>3. Upto(me.size, it.expect - 1) = IF p < me.size THEN p ELSE me.size
          BY DEF Upto
        <4>4. p \in Int
          BY <4>1
        <4> HIDE DEF p
        <4> QED BY <1>1, <4>2, <4>3, <4>4
      <3> QED BY <2>2, <3>2, <3>3 DEF WriteInv, WriteSlave
    <2> QED BY <2>1, <2>2
  <1>3. Len(it.stored) = n
    BY <1>2 DEF Prefix
  <1>4. FW!File = Prefix(me.size)
    BY DEF FW!File, Prefix
  <1>5. it.stored = SubSeq(FW!File, 1, n)
    BY <1>1, <1>2, <1>4, PrefixOfPrefix
  <1>6. FW!StoresPrefix
    <2>1. me.pos \in Nat /\ me.size \in Nat /\ me.psize = me.size - me.pos
      BY <1>1, UptoNat
    <2>2. me.pos + me.psize = me.size
      BY <2>1
    <2> QED BY <1>1, <1>2, <1>3, <1>5, <2>2 DEF FW!StoresPrefix, Upto
  <1>7. FW!FileIsStored
    BY <1>2, <1>4 DEF FW!FileIsStored, WriteInv, WriteEnds
  <1> QED BY <1>6, <1>7

-------------------------------------------------------------------------------
(* A sender that goes through its data from mail to mail *)

\* Mail m takes its sender from place p to place q.
Link(m, p, q) == [mail |-> m, from |-> p, to |-> q]

\* The mails of queue q take it from place a, where the receiver is, to place b,
\* where the sender is, each over one of the links.
Chain(links, q, a, b) ==
    /\ q \in Seq({l.mail : l \in links})
    /\ \E pos : /\ pos[1] = a /\ pos[Len(q) + 1] = b
               /\ \A j \in 1 .. Len(q) : Link(q[j], pos[j], pos[j + 1]) \in links

LEMMA LinkParts ==
  ASSUME NEW m, NEW p, NEW q, NEW n, NEW a, NEW b, Link(m, p, q) = Link(n, a, b)
  PROVE  m = n /\ p = a /\ q = b
  <1>1. /\ Link(m, p, q).mail = m /\ Link(m, p, q).from = p /\ Link(m, p, q).to = q
        /\ Link(n, a, b).mail = n /\ Link(n, a, b).from = a /\ Link(n, a, b).to = b
    BY DEF Link
  <1> QED BY <1>1

LEMMA ChainEmpty ==
  ASSUME NEW links, NEW a
  PROVE  Chain(links, <<>>, a, a)
  <1> DEFINE S == {l.mail : l \in links}
             pos == [j \in 1 .. 1 |-> a]
  <1>1. pos[1] = a /\ Len(<<>>) = 0 /\ 1 .. 0 = {} /\ 0 + 1 = 1
    OBVIOUS
  <1> HIDE DEF S, pos
  <1>2. <<>> \in Seq(S)
    OBVIOUS
  <1>3. pos[1] = a /\ pos[Len(<<>>) + 1] = a
    BY <1>1
  <1> QED BY <1>1, <1>2, <1>3 DEF Chain, S

LEMMA ChainAppend ==
  ASSUME NEW links, NEW q, NEW a, NEW b, NEW c, NEW m,
         Chain(links, q, a, b), Link(m, b, c) \in links
  PROVE  Chain(links, Append(q, m), a, c)
  <1>1. PICK pos : /\ pos[1] = a /\ pos[Len(q) + 1] = b
                   /\ \A j \in 1 .. Len(q) : Link(q[j], pos[j], pos[j + 1]) \in links
    BY DEF Chain
  <1> DEFINE S == {l.mail : l \in links}
  <1>0. q \in Seq(S) /\ m \in S
    <2>1. Link(m, b, c).mail = m
      BY DEF Link
    <2> QED BY <2>1 DEF Chain
  <1> HIDE DEF S
  <1> DEFINE more == [j \in 1 .. Len(q) + 2 |-> IF j <= Len(q) + 1 THEN pos[j] ELSE c]
  <1>2. /\ Len(q) \in Nat /\ Len(Append(q, m)) = Len(q) + 1
        /\ \A j \in 1 .. Len(q) : Append(q, m)[j] = q[j]
        /\ Append(q, m)[Len(q) + 1] = m /\ Append(q, m) \in Seq(S)
    BY <1>0
  <1>3. /\ \A j \in 1 .. Len(q) + 1 : more[j] = pos[j]
        /\ more[Len(q) + 2] = c
    BY <1>2
  <1> HIDE DEF more
  <1>4. ASSUME NEW j \in 1 .. Len(q) + 1
        PROVE  Link(Append(q, m)[j], more[j], more[j + 1]) \in links
    <2>1. CASE j \in 1 .. Len(q)
      <3>1. j + 1 \in 1 .. Len(q) + 1
        BY <1>2, <2>1
      <3> QED BY <1>1, <1>2, <1>3, <2>1, <3>1
    <2>2. CASE j = Len(q) + 1
      <3>1. j + 1 = Len(q) + 2
        BY <1>2, <2>2
      <3>2. more[j] = b /\ more[j + 1] = c /\ Append(q, m)[j] = m
        BY <1>1, <1>2, <1>3, <2>2, <3>1
      <3> QED BY <3>2
    <2> QED BY <1>2, <2>1, <2>2
  <1>5. more[1] = a /\ more[Len(Append(q, m)) + 1] = c
    <2>1. 1 \in 1 .. Len(q) + 1 /\ Len(Append(q, m)) + 1 = Len(q) + 2
      BY <1>2
    <2> QED BY <1>1, <1>3, <2>1
  <1> QED BY <1>2, <1>4, <1>5 DEF Chain, S

LEMMA ChainTail ==
  ASSUME NEW links, NEW q, NEW a, NEW b, q # <<>>, Chain(links, q, a, b)
  PROVE  \E c : Link(Head(q), a, c) \in links /\ Chain(links, Tail(q), c, b)
  <1>1. PICK pos : /\ pos[1] = a /\ pos[Len(q) + 1] = b
                   /\ \A j \in 1 .. Len(q) : Link(q[j], pos[j], pos[j + 1]) \in links
    BY DEF Chain
  <1> DEFINE S == {l.mail : l \in links}
  <1>0. q \in Seq(S)
    BY DEF Chain
  <1> HIDE DEF S
  <1> DEFINE rest == [j \in 1 .. Len(q) |-> pos[j + 1]]
  <1>2. /\ Len(q) \in Nat /\ Len(q) >= 1 /\ Len(Tail(q)) = Len(q) - 1
        /\ \A j \in 1 .. Len(q) - 1 : Tail(q)[j] = q[j + 1]
        /\ Head(q) = q[1] /\ Tail(q) \in Seq(S)
    BY <1>0
  <1>3. \A j \in 1 .. Len(q) : rest[j] = pos[j + 1]
    BY <1>2
  <1> HIDE DEF rest
  <1>4. Link(Head(q), a, pos[2]) \in links
    <2>1. 1 \in 1 .. Len(q) /\ 1 + 1 = 2
      BY <1>2
    <2> QED BY <1>1, <1>2, <2>1
  <1>5. ASSUME NEW j \in 1 .. Len(q) - 1
        PROVE  Link(Tail(q)[j], rest[j], rest[j + 1]) \in links
    <2>1. j \in 1 .. Len(q) /\ j + 1 \in 1 .. Len(q)
      BY <1>2
    <2> QED BY <1>1, <1>2, <1>3, <2>1
  <1>6. rest[1] = pos[2] /\ rest[Len(Tail(q)) + 1] = b
    <2>1. 1 \in 1 .. Len(q) /\ Len(q) \in 1 .. Len(q) /\ Len(Tail(q)) + 1 = Len(q)
          /\ 1 + 1 = 2
      BY <1>2
    <2> QED BY <1>1, <1>3, <2>1
  <1>7. Chain(links, Tail(q), pos[2], b)
    BY <1>2, <1>5, <1>6 DEF Chain, S
  <1> QED BY <1>4, <1>7

LEMMA ChainOne ==
  ASSUME NEW links, NEW m, NEW a, NEW b, Link(m, a, b) \in links
  PROVE  Chain(links, <<m>>, a, b)
  <1>1. Chain(links, Append(<<>>, m), a, b)
    BY ChainEmpty, ChainAppend
  <1> QED BY <1>1

-------------------------------------------------------------------------------
(* ecx_SDOread *)

\* The first n bytes of an object, and the bytes of a segment.
First(size) == SR!Least(size, SDOdata)
Piece(size, p) == SR!Least(size - p, SDOdata + SR!MinSegment)
Pad(n) == IF n < SR!MinSegment THEN SR!MinSegment - n ELSE 0

Expedited(size) == [op |-> "expedited", data |-> SR!Bytes(0, size)]
Normal(size) == [op |-> "normal", SDOlen |-> size, data |-> SR!Bytes(0, First(size))]
SegData(size, p) ==
    LET n == Piece(size, p)
    IN  [op |-> "segdata", unused |-> Pad(n),
         data |-> SR!Bytes(p, n) \o [i \in 1 .. Pad(n) |-> 0],
         last |-> p + n = size]

\* -1 is the place before anything was sent.
UploadLinks(size) ==
    {Link(m, p, p) : m \in SR!Stray, p \in Int}
    \cup {Link(Normal(size), -1, First(size))}
    \cup (IF size <= 4 THEN {Link(Expedited(size), -1, First(size))} ELSE {})
    \cup {Link(SegData(size, p), p, p + Piece(size, p)) : p \in {k \in Nat : k < size}}

\* While an upload runs, master and slave are at places a and b: nothing was asked or
\* answered, ...
SlaveNew(b) ==
    /\ b = -1 /\ (in = None \/ in = [op |-> "upload"])
    /\ \A j \in DOMAIN out : out[j] \in SR!Stray

MasterNew(a) ==
    /\ a = -1 /\ pc \in {"request", "receive"} /\ me.buffer = <<>>
    /\ me.psize = me.bufsize /\ ~me.lost

\* ... or there is an object with its length, and it fits.
SlaveSent(b) ==
    b \in Nat /\ b = it.off /\ (in = None \/ in.op = "segment")

MasterHas(a) ==
    /\ a \in Nat /\ pc \in {"segment", "segreceive"} /\ it.size <= me.bufsize
    /\ Len(me.buffer) <= a /\ me.psize = Len(me.buffer) /\ a <= it.size
    /\ ~me.lost => me.buffer = Prefix(a)

SlaveAt(b) == SlaveNew(b) \/ SlaveSent(b)
MasterAt(a) == MasterNew(a) \/ MasterHas(a)

UploadRuns ==
    \E a, b \in Int :
       /\ Chain(UploadLinks(it.size), out, a, b)
       /\ SlaveAt(b) /\ MasterAt(a)
       /\ pc = "request" => b = -1 /\ in = None
       /\ a # -1 => b # -1

UploadEnds ==
    /\ Len(me.buffer) <= me.bufsize
    /\ result = "ok" /\ ~me.lost => me.buffer = Prefix(it.size) /\ me.psize = it.size

UploadInv ==
    /\ pc \in {"request", "receive", "segment", "segreceive", "done"}
    /\ me \in [service : {"SDOread"}, bufsize : Nat, psize : Nat, buffer : Seq(Nat),
               toggle : BOOLEAN, lost : BOOLEAN]
    /\ it \in [service : {"SDOread"}, size : Nat, off : Nat, toggle : BOOLEAN]
    /\ UploadEnds
    /\ pc # "done" => result # "ok" /\ UploadRuns

LEMMA BytesAreFirst ==
  ASSUME NEW n \in Nat
  PROVE  SR!Bytes(0, n) = Prefix(n)
  <1>1. \A j \in 1 .. n : 0 + j = j
    OBVIOUS
  <1> QED BY <1>1 DEF SR!Bytes, Prefix

\* What a segment adds to the buffer is the next piece of the object: the last one is
\* padded, and the padding is taken off.
LEMMA PieceIsTaken ==
  ASSUME SDOAssumption, NEW size \in Nat, NEW p \in Nat, p < size
  PROVE  /\ Piece(size, p) \in Nat /\ p + Piece(size, p) <= size
         /\ SR!Taken(SegData(size, p)) \in Seq(Nat)
         /\ Len(SR!Taken(SegData(size, p))) = Piece(size, p)
         /\ Prefix(p) \o SR!Taken(SegData(size, p)) = Prefix(p + Piece(size, p))
         /\ SegData(size, p).op = "segdata"
         /\ SegData(size, p).last <=> p + Piece(size, p) = size
  <1> DEFINE n == Piece(size, p)
             d == SR!Bytes(p, n)
             z == [i \in 1 .. Pad(n) |-> 0]
             m == SegData(size, p)
  <1>1. n \in Nat /\ p + n <= size /\ (n < 7 => p + n = size)
    BY DEF Piece, SR!Least, SR!MinSegment, SDOAssumption
  <1>2. m.data = d \o z /\ m.op = "segdata" /\ m.unused = Pad(n)
        /\ m.last = (p + n = size)
    BY DEF SegData
  <1> HIDE DEF n, m
  <1>3. Pad(n) = (IF n < 7 THEN 7 - n ELSE 0) /\ Pad(n) \in Nat
    BY <1>1 DEF Pad, SR!MinSegment
  <1>4. d \in Seq(Nat) /\ Len(d) = n /\ \A j \in 1 .. n : d[j] = p + j
    BY <1>1 DEF SR!Bytes
  <1>5. z \in Seq(Nat) /\ Len(z) = Pad(n)
    BY <1>3
  <1> HIDE DEF d, z
  <1>6. /\ d \o z \in Seq(Nat) /\ Len(d \o z) = n + Pad(n)
        /\ \A j \in 1 .. n : (d \o z)[j] = d[j]
    <2>1. /\ d \o z \in Seq(Nat) /\ Len(d \o z) = Len(d) + Len(z)
          /\ \A j \in 1 .. Len(d) + Len(z) :
                (d \o z)[j] = IF j <= Len(d) THEN d[j] ELSE z[j - Len(d)]
      BY <1>4, <1>5, ConcatProperties, Zenon
    <2> QED BY <2>1, <1>1, <1>3, <1>4, <1>5
  <1>7. SR!Taken(m) = d
    <2>1. CASE m.last /\ Len(m.data) = 7
      <3>1. 7 - m.unused = n /\ n <= 7
        BY <1>1, <1>2, <1>3, <1>6, <2>1
      <3>2. SR!Taken(m) = SubSeq(d \o z, 1, n)
        BY <1>2, <2>1, <3>1 DEF SR!Taken, SR!MinSegment
      <3>3. /\ SubSeq(d \o z, 1, n) \in Seq(Nat) /\ Len(SubSeq(d \o z, 1, n)) = n
            /\ \A j \in 1 .. n : SubSeq(d \o z, 1, n)[j] = (d \o z)[j]
        <4>1. \A j \in 1 .. n : (d \o z)[j] \in Nat
          BY <1>1, <1>4, <1>6
        <4>2. n + Pad(n) >= n
          BY <1>1, <1>3
        <4> QED BY <1>1, <1>6, <4>1, <4>2, SubSeqProperties
      <3>4. SubSeq(d \o z, 1, n) = d
        BY <1>4, <1>6, <3>3, SeqEqual
      <3> QED BY <3>2, <3>4
    <2>2. CASE ~(m.last /\ Len(m.data) = 7)
      <3>1. SR!Taken(m) = d \o z
        BY <1>2, <2>2 DEF SR!Taken, SR!MinSegment
      <3>2. Pad(n) = 0
        <4>1. m.last \/ ~(n < 7)
          BY <1>1, <1>2
        <4>2. Len(m.data) = n + Pad(n)
          BY <1>2, <1>6
        <4> QED BY <1>1, <1>3, <2>2, <4>1, <4>2
      <3>3. d \o z = d
        BY <1>1, <1>4, <1>6, <3>2, SeqEqual
      <3> QED BY <3>1, <3>3
    <2> QED BY <2>1, <2>2
  <1>8. Prefix(p) \o d = Prefix(p + n)
    <2>1. d = [j \in 1 .. n |-> p + j]
      BY DEF d, SR!Bytes
    <2> QED BY <1>1, <2>1, PrefixGrows
  <1>9. m.last <=> p + n = size
    BY <1>2, Zenon
  <1> QED BY <1>1, <1>2, <1>4, <1>7, <1>8, <1>9 DEF n, m

\* A link that is not that of a stray mail is that of the answer to the request, or of
\* a segment.
LEMMA UploadLink ==
  ASSUME SDOAssumption, NEW size \in Nat, NEW m, NEW a, NEW c,
         Link(m, a, c) \in UploadLinks(size)
  PROVE  \/ m \in SR!Stray /\ c = a /\ a \in Int
         \/ a = -1 /\ c = First(size) /\ m = Normal(size)
         \/ a = -1 /\ c = First(size) /\ m = Expedited(size) /\ size <= 4
         \/ a \in Nat /\ a < size /\ m = SegData(size, a) /\ c = a + Piece(size, a)
  <1>1. CASE Link(m, a, c) \in {Link(s, p, p) : s \in SR!Stray, p \in Int}
    <2>1. PICK s \in SR!Stray, p \in Int : Link(m, a, c) = Link(s, p, p)
      BY <1>1
    <2> QED BY <2>1, LinkParts
  <1>2. CASE Link(m, a, c) = Link(Normal(size), -1, First(size))
    BY <1>2, LinkParts
  <1>3. CASE size <= 4 /\ Link(m, a, c) = Link(Expedited(size), -1, First(size))
    BY <1>3, LinkParts
  <1>4. CASE Link(m, a, c) \in {Link(SegData(size, p), p, p + Piece(size, p)) :
                                   p \in {k \in Nat : k < size}}
    <2>1. PICK p \in Nat : /\ p < size
                           /\ Link(m, a, c) = Link(SegData(size, p), p, p + Piece(size, p))
      BY <1>4
    <2> QED BY <2>1, LinkParts
  <1> QED BY <1>1, <1>2, <1>3, <1>4 DEF UploadLinks

LEMMA UploadLinkOp ==
  ASSUME SDOAssumption, NEW size \in Nat, NEW m, NEW a, NEW c,
         Link(m, a, c) \in UploadLinks(size)
  PROVE  /\ m.op = "normal" => a = -1 /\ c = First(size) /\ m = Normal(size)
         /\ m.op = "expedited" => a = -1 /\ m = Expedited(size)
         /\ m.op = "segdata" => /\ a \in Nat /\ a < size /\ m = SegData(size, a)
                                /\ c = a + Piece(size, a)
         /\ m \in SR!Stray => m.op \in {"mail", "abort"} /\ c = a
  <1>1. \A s \in SR!Stray : s.op \in {"mail", "abort"}
    BY DEF SR!Stray
  <1>2. Normal(size).op = "normal" /\ Expedited(size).op = "expedited"
    BY DEF Normal, Expedited
  <1>3. \A p : SegData(size, p).op = "segdata"
    BY DEF SegData
  <1>4. CASE m \in SR!Stray /\ c = a
    BY <1>1, <1>4
  <1>5. CASE a = -1 /\ c = First(size) /\ m = Normal(size)
    BY <1>1, <1>2, <1>5
  <1>6. CASE a = -1 /\ m = Expedited(size)
    BY <1>1, <1>2, <1>6
  <1>7. CASE a \in Nat /\ a < size /\ m = SegData(size, a) /\ c = a + Piece(size, a)
    BY <1>1, <1>3, <1>7
  <1> QED BY <1>4, <1>5, <1>6, <1>7, UploadLink

LEMMA FirstInSize ==
  ASSUME SDOAssumption, NEW size \in Nat
  PROVE  First(size) \in Nat /\ First(size) <= size
  BY DEF First, SR!Least, SDOAssumption

\* The place of master and slave in a state of a running call.
UploadPlaces(a, b) ==
    /\ a \in Int /\ b \in Int
    /\ Chain(UploadLinks(it.size), out, a, b)
    /\ SlaveAt(b) /\ MasterAt(a)
    /\ pc = "request" => b = -1 /\ in = None
    /\ a # -1 => b # -1

\* What the master takes out of the queue takes it to the next place.
LEMMA UploadTaken ==
  ASSUME SDOAssumption, UploadInv, NEW a, NEW b, UploadPlaces(a, b),
         out # <<>>, out' = Tail(out)
  PROVE  \E c \in Int :
            /\ Link(Head(out), a, c) \in UploadLinks(it.size)
            /\ Chain(UploadLinks(it.size), out', c, b)
            /\ (\A j \in DOMAIN out : out[j] \in SR!Stray)
                 => Head(out) \in SR!Stray
                    /\ \A j \in DOMAIN out' : out'[j] \in SR!Stray
  <1>1. PICK c : /\ Link(Head(out), a, c) \in UploadLinks(it.size)
                 /\ Chain(UploadLinks(it.size), out', c, b)
    BY ChainTail DEF UploadPlaces
  <1>2. it.size \in Nat
    BY DEF UploadInv
  <1>3. c \in Int
    <2>1. First(it.size) \in Nat
      BY <1>2, FirstInSize
    <2>2. a \in Nat /\ a < it.size => a + Piece(it.size, a) \in Nat
      <3> SUFFICES ASSUME a \in Nat, a < it.size PROVE a + Piece(it.size, a) \in Nat
        OBVIOUS
      <3> QED BY <1>2, PieceIsTaken
    <2> QED BY <1>1, <1>2, <2>1, <2>2, UploadLink
  <1>4. (\A j \in DOMAIN out : out[j] \in SR!Stray)
          => Head(out) \in SR!Stray /\ \A j \in DOMAIN out' : out'[j] \in SR!Stray
    <2> DEFINE S == {l.mail : l \in UploadLinks(it.size)}
    <2>1. out \in Seq(S)
      BY DEF UploadPlaces, Chain
    <2> HIDE DEF S
    <2>2. 1 \in DOMAIN out /\ Head(out) = out[1]
      BY <2>1
    <2>3. \A j \in DOMAIN out' : j + 1 \in DOMAIN out /\ out'[j] = out[j + 1]
      BY <2>1
    <2> QED BY <2>2, <2>3
  <1> QED BY <1>1, <1>3, <1>4

LEMMA UploadReply ==
  ASSUME NEW op, SR!Reply(op) \/ SR!SegReply(op)
  PROVE  /\ out # <<>> /\ out' = Tail(out) /\ Head(out).op = op
         /\ pc = "receive" \/ pc = "segreceive"
         /\ SR!Reply(op) => pc = "receive"
         /\ SR!SegReply(op) => pc = "segreceive"
  BY DEF SR!Reply, SR!SegReply, SR!Take, SR!At

\* A call that is over.
LEMMA UploadOver ==
  ASSUME UploadInv, pc' = "done", it' = it, UploadEnds',
         me' \in [service : {"SDOread"}, bufsize : Nat, psize : Nat, buffer : Seq(Nat),
                  toggle : BOOLEAN, lost : BOOLEAN]
  PROVE  UploadInv'
  BY DEF UploadInv

LEMMA UploadFails ==
  ASSUME UploadInv, pc' = "done", it' = it, result' # "ok", me' = me
  PROVE  UploadInv'
  <1>1. UploadEnds'
    BY DEF UploadInv, UploadEnds
  <1> QED BY <1>1 DEF UploadInv

\* The call begins with nothing sent, and perhaps a stray mail.
LEMMA UploadCall ==
  ASSUME SDOAssumption, result # "ok", in = None, SR!CallSDOread
  PROVE  UploadInv'
  <1>1. PICK size \in Lengths, bufsize \in Lengths :
           SR!Begin([service |-> "SDOread", bufsize |-> bufsize, psize |-> bufsize,
                     buffer |-> <<>>, toggle |-> FALSE, lost |-> FALSE],
                    [service |-> "SDOread", size |-> size, off |-> 0, toggle |-> FALSE],
                    SR!Stray)
    BY DEF SR!CallSDOread
  <1>2. /\ size \in Nat /\ bufsize \in Nat
        /\ pc' = "request" /\ result' = result /\ in' = in
        /\ me' = [service |-> "SDOread", bufsize |-> bufsize, psize |-> bufsize,
                  buffer |-> <<>>, toggle |-> FALSE, lost |-> FALSE]
        /\ it' = [service |-> "SDOread", size |-> size, off |-> 0, toggle |-> FALSE]
        /\ out' = <<>> \/ \E m \in SR!Stray : out' = <<m>>
    BY <1>1 DEF SR!Begin, SDOAssumption
  <1>3. /\ Chain(UploadLinks(size), out', -1, -1)
        /\ \A j \in DOMAIN out' : out'[j] \in SR!Stray
    <2>1. CASE out' = <<>>
      BY <2>1, ChainEmpty
    <2>2. ASSUME NEW m \in SR!Stray, out' = <<m>>
          PROVE  /\ Chain(UploadLinks(size), out', -1, -1)
                 /\ \A j \in DOMAIN out' : out'[j] \in SR!Stray
      <3>1. Link(m, -1, -1) \in UploadLinks(size)
        BY DEF UploadLinks
      <3>2. \A j \in DOMAIN out' : out'[j] = m
        BY <2>2
      <3> QED BY <2>2, <3>1, <3>2, ChainOne
    <2> QED BY <1>2, <2>1, <2>2
  <1>4. SlaveAt(-1)' /\ MasterAt(-1)'
    BY <1>2, <1>3 DEF SlaveAt, MasterAt, SlaveNew, MasterNew
  <1>5. UploadRuns'
    <2>1. it'.size = size /\ -1 \in Int /\ pc' = "request" /\ in' = None
      BY <1>2
    <2> QED BY <1>3, <1>4, <2>1 DEF UploadRuns
  <1> QED BY <1>2, <1>5 DEF UploadInv, UploadEnds

\* The request, and the ends of the call in its first exchange.
LEMMA UploadAsks ==
  ASSUME SDOAssumption, UploadInv, SR!SendRequest \/ SR!RecvOther \/ SR!RecvTimeout
  PROVE  UploadInv'
  <1>1. CASE SR!SendRequest
    <2>1. /\ pc = "request" /\ UNCHANGED <<me, out, it>>
          /\ \/ in' = [op |-> "upload"] /\ pc' = "receive" /\ result' = result
             \/ pc' = "done" /\ result' = "failed"
      BY <1>1 DEF SR!SendRequest, SR!At, SR!Post, SR!Stay, SR!Failed, SR!Return
    <2>2. CASE pc' = "done"
      BY <2>1, <2>2, UploadFails
    <2>3. CASE in' = [op |-> "upload"] /\ pc' = "receive" /\ result' = result
      <3>1. PICK a, b \in Int : UploadPlaces(a, b)
        BY <2>1 DEF UploadInv, UploadRuns, UploadPlaces
      <3>2. b = -1 /\ a = -1
        BY <2>1, <3>1 DEF UploadPlaces, MasterAt, MasterNew, MasterHas
      <3>3. SlaveAt(-1)' /\ MasterAt(-1)'
        <4>1. -1 \notin Nat
          OBVIOUS
        <4> QED BY <2>1, <2>3, <3>1, <3>2, <4>1 DEF UploadPlaces, SlaveAt, MasterAt, SlaveNew, MasterNew, SlaveSent, MasterHas
      <3>4. UploadRuns'
        BY <2>1, <2>3, <3>1, <3>2, <3>3 DEF UploadPlaces, UploadRuns
      <3> QED BY <2>1, <2>3, <3>4 DEF UploadInv, UploadEnds
    <2> QED BY <2>1, <2>2, <2>3
  <1>2. CASE SR!RecvOther
    BY <1>2, UploadFails DEF SR!RecvOther, SR!Return
  <1>3. CASE SR!RecvTimeout
    BY <1>3, UploadFails DEF SR!RecvTimeout, SR!Failed, SR!Return
  <1> QED BY <1>1, <1>2, <1>3

\* The first bytes, or all of them.
LEMMA UploadFirst ==
  ASSUME SDOAssumption, NEW size \in Nat, NEW n \in Nat, n <= size
  PROVE  /\ SubSeq(SR!Bytes(0, size), 1, n) = Prefix(n)
         /\ SR!Bytes(0, n) = Prefix(n) /\ Len(Prefix(n)) = n /\ Prefix(n) \in Seq(Nat)
  <1>1. SR!Bytes(0, size) = Prefix(size) /\ SR!Bytes(0, n) = Prefix(n)
    BY BytesAreFirst
  <1>2. SubSeq(Prefix(size), 1, n) = Prefix(n)
    BY PrefixOfPrefix
  <1> QED BY <1>1, <1>2 DEF Prefix

LEMMA UploadExpedited ==
  ASSUME SDOAssumption, UploadInv, SR!RecvExpedited
  PROVE  UploadInv'
  <1>1. /\ SR!Reply("expedited") /\ UNCHANGED <<in, it>>
        /\ IF me.psize >= Len(Head(out).data)
           THEN me' = SR!Copied(Head(out), Len(Head(out).data)) /\ SR!Return("ok")
           ELSE SR!TooSmall
    BY DEF SR!RecvExpedited
  <1>2. /\ out # <<>> /\ out' = Tail(out) /\ Head(out).op = "expedited" /\ pc = "receive"
    BY <1>1, UploadReply
  <1>3. PICK a, b \in Int : UploadPlaces(a, b)
    BY <1>2 DEF UploadInv, UploadRuns, UploadPlaces
  <1>4. PICK c \in Int : Link(Head(out), a, c) \in UploadLinks(it.size)
    BY <1>2, <1>3, UploadTaken
  <1>5. it.size \in Nat /\ me.bufsize \in Nat
    BY DEF UploadInv
  <1>6. Head(out) = Expedited(it.size)
    BY <1>2, <1>4, <1>5, UploadLinkOp
  <1>7. /\ Head(out).data = Prefix(it.size) /\ Len(Prefix(it.size)) = it.size
        /\ SubSeq(Prefix(it.size), 1, it.size) = Prefix(it.size)
        /\ Prefix(it.size) \in Seq(Nat)
    BY <1>5, <1>6, UploadFirst DEF Expedited
  <1>8. me.psize = me.bufsize
    BY <1>2, <1>3 DEF UploadPlaces, MasterAt, MasterNew, MasterHas
  <1>9. CASE me.psize >= it.size
    <2>1. me' = [me EXCEPT !.buffer = Prefix(it.size), !.psize = it.size] /\ pc' = "done"
      BY <1>1, <1>7, <1>9 DEF SR!Copied, SR!Return
    <2>2. /\ me'.buffer = Prefix(it.size) /\ me'.psize = it.size
          /\ me'.bufsize = me.bufsize
      BY <2>1 DEF UploadInv
    <2>3. UploadEnds'
      BY <1>1, <1>5, <1>7, <1>8, <1>9, <2>2 DEF UploadEnds
    <2>4. me' \in [service : {"SDOread"}, bufsize : Nat, psize : Nat, buffer : Seq(Nat),
                   toggle : BOOLEAN, lost : BOOLEAN]
      BY <1>5, <1>7, <2>1 DEF UploadInv
    <2> QED BY <1>1, <2>1, <2>3, <2>4, UploadOver
  <1>10. CASE ~(me.psize >= it.size)
    <2>1. SR!TooSmall
      BY <1>1, <1>7, <1>10
    <2> QED BY <1>1, <2>1, UploadFails DEF SR!TooSmall, SR!Return
  <1> QED BY <1>9, <1>10

\* The answer with the length: the object is there, or its segments follow.
LEMMA UploadNormal ==
  ASSUME SDOAssumption, UploadInv, SR!RecvNormal
  PROVE  UploadInv'
  <1> DEFINE m == Head(out)
  <1>1. /\ SR!Reply("normal") /\ UNCHANGED <<in, it>>
        /\ \/ SR!TooSmall
           \/ /\ m.SDOlen <= me.psize /\ Len(m.data) < m.SDOlen
              /\ me' = SR!Copied(m, Len(m.data)) /\ SR!Stay("segment")
           \/ /\ m.SDOlen <= me.psize /\ Len(m.data) >= m.SDOlen
              /\ me' = SR!Copied(m, m.SDOlen) /\ SR!Return("ok")
    BY DEF SR!RecvNormal
  <1>2. /\ out # <<>> /\ out' = Tail(out) /\ Head(out).op = "normal" /\ pc = "receive"
    BY <1>1, UploadReply
  <1>3. PICK a, b \in Int : UploadPlaces(a, b)
    BY <1>2 DEF UploadInv, UploadRuns, UploadPlaces
  <1>4. PICK c \in Int : /\ Link(Head(out), a, c) \in UploadLinks(it.size)
                         /\ Chain(UploadLinks(it.size), out', c, b)
                         /\ (\A j \in DOMAIN out : out[j] \in SR!Stray)
                              => Head(out) \in SR!Stray
    BY <1>2, <1>3, UploadTaken
  <1>5. it.size \in Nat /\ me.bufsize \in Nat
    BY DEF UploadInv
  <1> DEFINE n == First(it.size)
  <1>6. m = Normal(it.size) /\ c = n /\ a = -1 /\ m \notin SR!Stray
    BY <1>2, <1>4, <1>5, UploadLinkOp
  <1>7. n \in Nat /\ n <= it.size
    BY <1>5, FirstInSize
  <1>8. /\ m.SDOlen = it.size /\ m.data = Prefix(n) /\ Len(Prefix(n)) = n
        /\ SubSeq(Prefix(n), 1, n) = Prefix(n) /\ Prefix(n) \in Seq(Nat)
    <2>1. m.SDOlen = it.size /\ m.data = SR!Bytes(0, n)
      BY <1>6 DEF Normal
    <2>2. SR!Bytes(0, n) = Prefix(n) /\ Len(Prefix(n)) = n
          /\ SubSeq(SR!Bytes(0, n), 1, n) = Prefix(n) /\ Prefix(n) \in Seq(Nat)
      BY <1>7, UploadFirst
    <2> QED BY <2>1, <2>2
  <1> HIDE DEF m, n
  <1>9. me.psize = me.bufsize /\ ~me.lost
    BY <1>2, <1>3 DEF UploadPlaces, MasterAt, MasterNew, MasterHas
  <1>10. CASE SR!TooSmall
    BY <1>1, <1>10, UploadFails DEF SR!TooSmall, SR!Return
  <1>11. CASE /\ m.SDOlen <= me.psize /\ Len(m.data) < m.SDOlen
              /\ me' = SR!Copied(m, Len(m.data)) /\ SR!Stay("segment")
    <2>1. /\ me' = [me EXCEPT !.buffer = Prefix(n), !.psize = n]
          /\ pc' = "segment" /\ result' = result /\ it.size <= me.bufsize
      BY <1>8, <1>9, <1>11 DEF SR!Copied, SR!Stay
    <2>2. /\ me'.buffer = Prefix(n) /\ me'.psize = n /\ me'.lost = me.lost
          /\ me'.bufsize = me.bufsize
      BY <2>1 DEF UploadInv
    <2>3. me' \in [service : {"SDOread"}, bufsize : Nat, psize : Nat, buffer : Seq(Nat),
                   toggle : BOOLEAN, lost : BOOLEAN]
      BY <1>7, <1>8, <2>1 DEF UploadInv
    <2>4. MasterHas(c)'
      BY <1>1, <1>6, <1>7, <1>8, <1>9, <2>1, <2>2 DEF MasterHas
    <2>5. ~SlaveNew(b)
      BY <1>4, <1>6 DEF SlaveNew, m
    <2>6. SlaveSent(b) /\ SlaveSent(b)'
      BY <1>1, <1>3, <2>5 DEF UploadPlaces, SlaveAt, SlaveSent
    <2>7. UploadRuns'
      <3>1. Chain(UploadLinks(it'.size), out', c, b)
        BY <1>1, <1>4
      <3>2. b # -1
        BY <2>6 DEF SlaveSent
      <3> QED BY <2>1, <2>4, <2>6, <3>1, <3>2 DEF UploadRuns, SlaveAt, MasterAt
    <2>8. UploadEnds'
      BY <1>2, <1>5, <1>7, <1>8, <2>1, <2>2 DEF UploadEnds, UploadInv
    <2> QED BY <1>1, <1>2, <2>1, <2>3, <2>7, <2>8 DEF UploadInv
  <1>12. CASE /\ m.SDOlen <= me.psize /\ Len(m.data) >= m.SDOlen
              /\ me' = SR!Copied(m, m.SDOlen) /\ SR!Return("ok")
    <2>1. n = it.size
      BY <1>5, <1>7, <1>8, <1>12
    <2>2. me' = [me EXCEPT !.buffer = Prefix(n), !.psize = n] /\ pc' = "done"
      BY <1>8, <1>12, <2>1 DEF SR!Copied, SR!Return
    <2>3. /\ me'.buffer = Prefix(n) /\ me'.psize = n /\ me'.bufsize = me.bufsize
      BY <2>2 DEF UploadInv
    <2>4. UploadEnds'
      BY <1>1, <1>8, <1>9, <1>12, <2>1, <2>3 DEF UploadEnds
    <2>5. me' \in [service : {"SDOread"}, bufsize : Nat, psize : Nat, buffer : Seq(Nat),
                   toggle : BOOLEAN, lost : BOOLEAN]
      BY <1>7, <1>8, <2>2 DEF UploadInv
    <2> QED BY <1>1, <2>2, <2>4, <2>5, UploadOver
  <1> QED BY <1>1, <1>10, <1>11, <1>12 DEF m

\* The next segment is asked for; when that fails, with the other toggle.
LEMMA UploadSendSegment ==
  ASSUME SDOAssumption, UploadInv, SR!SendSegment
  PROVE  UploadInv'
  <1>1. /\ pc = "segment" /\ UNCHANGED <<out, it, result>>
        /\ pc' \in {"segment", "segreceive"}
        /\ in' = in \/ in'.op = "segment"
        /\ me' = me \/ me' = [me EXCEPT !.toggle = ~@]
    BY DEF SR!SendSegment, SR!At, SR!Post, SR!Stay, SR!Again
  <1>2. PICK a, b \in Int : UploadPlaces(a, b)
    BY <1>1 DEF UploadInv, UploadRuns, UploadPlaces
  <1>3. MasterHas(a) /\ a # -1 /\ b # -1
    BY <1>1, <1>2 DEF UploadPlaces, MasterAt, MasterNew, MasterHas
  <1>4. SlaveSent(b)'
    <2>1. SlaveSent(b)
      BY <1>2, <1>3 DEF UploadPlaces, SlaveAt, SlaveNew
    <2> QED BY <1>1, <2>1 DEF SlaveSent
  <1>5. /\ me'.buffer = me.buffer /\ me'.psize = me.psize /\ me'.lost = me.lost
        /\ me'.bufsize = me.bufsize
        /\ me' \in [service : {"SDOread"}, bufsize : Nat, psize : Nat, buffer : Seq(Nat),
                    toggle : BOOLEAN, lost : BOOLEAN]
    BY <1>1 DEF UploadInv
  <1>6. MasterHas(a)'
    BY <1>1, <1>3, <1>5 DEF MasterHas
  <1>7. UploadRuns'
    BY <1>1, <1>2, <1>3, <1>4, <1>6 DEF UploadPlaces, UploadRuns, SlaveAt, MasterAt
  <1> QED BY <1>1, <1>5, <1>7 DEF UploadInv, UploadEnds

\* What is behind the mail that was taken, with nothing lost, or a mail lost.
LEMMA UploadGoesOn ==
  ASSUME SDOAssumption, UploadInv, pc = "segreceive", pc' = "segment",
         UNCHANGED <<in, it, result>>, NEW a, NEW b, UploadPlaces(a, b), NEW c \in Nat,
         a <= c, c <= it.size, Chain(UploadLinks(it.size), out', c, b),
         me' \in [service : {"SDOread"}, bufsize : {me.bufsize}, psize : Nat,
                  buffer : Seq(Nat), toggle : BOOLEAN, lost : BOOLEAN],
         me'.psize = Len(me'.buffer), Len(me'.buffer) <= c,
         ~me'.lost => me'.buffer = Prefix(c)
  PROVE  UploadInv'
  <1>1. a \in Nat /\ a # -1 /\ b # -1 /\ it.size <= me.bufsize
    BY DEF UploadPlaces, MasterAt, MasterNew, MasterHas
  <1>2. SlaveSent(b) /\ SlaveSent(b)'
    <2>1. SlaveSent(b)
      BY <1>1 DEF UploadPlaces, SlaveAt, SlaveNew
    <2> QED BY <2>1 DEF SlaveSent
  <1>3. me'.bufsize = me.bufsize
    OBVIOUS
  <1>4. MasterHas(c)'
    BY <1>1, <1>3 DEF MasterHas
  <1>5. UploadRuns'
    <2>1. c \in Int /\ b \in Int /\ Chain(UploadLinks(it'.size), out', c, b)
      BY <1>2 DEF SlaveSent
    <2> QED BY <1>1, <1>2, <1>4, <2>1 DEF UploadRuns, SlaveAt, MasterAt
  <1>6. me.bufsize \in Nat /\ it.size \in Nat /\ result # "ok"
    BY DEF UploadInv
  <1>7. UploadEnds'
    <2>1. Len(me'.buffer) \in Nat
      OBVIOUS
    <2> QED BY <1>1, <1>3, <1>6, <2>1 DEF UploadEnds
  <1>8. me' \in [service : {"SDOread"}, bufsize : Nat, psize : Nat, buffer : Seq(Nat),
                 toggle : BOOLEAN, lost : BOOLEAN]
    BY <1>6
  <1> QED BY <1>5, <1>6, <1>7, <1>8 DEF UploadInv

LEMMA UploadSegment ==
  ASSUME SDOAssumption, UploadInv, SR!RecvSegment
  PROVE  UploadInv'
  <1> DEFINE m == Head(out)
             t == SR!Taken(m)
             got == [me EXCEPT !.buffer = @ \o t, !.psize = @ + Len(t)]
  <1>1. /\ SR!SegReply("segdata") /\ UNCHANGED <<in, it>>
        /\ IF m.last THEN me' = got /\ SR!Return("ok") ELSE SR!Again(got)
    BY DEF SR!RecvSegment
  <1>2. /\ out # <<>> /\ out' = Tail(out) /\ m.op = "segdata" /\ pc = "segreceive"
    BY <1>1, UploadReply
  <1>3. PICK a, b \in Int : UploadPlaces(a, b)
    BY <1>2 DEF UploadInv, UploadRuns, UploadPlaces
  <1>4. PICK c \in Int : /\ Link(Head(out), a, c) \in UploadLinks(it.size)
                         /\ Chain(UploadLinks(it.size), out', c, b)
    BY <1>2, <1>3, UploadTaken
  <1>5. it.size \in Nat /\ me.bufsize \in Nat /\ me.buffer \in Seq(Nat)
    BY DEF UploadInv
  <1>6. a \in Nat /\ a < it.size /\ m = SegData(it.size, a) /\ c = a + Piece(it.size, a)
    BY <1>2, <1>4, <1>5, UploadLinkOp
  <1>7. /\ c \in Nat /\ a <= c /\ c <= it.size /\ t \in Seq(Nat) /\ Len(t) = c - a
        /\ Prefix(a) \o t = Prefix(c)
        /\ m.last <=> c = it.size
    <2> DEFINE s == SegData(it.size, a)
               d == SR!Taken(s)
               n == Piece(it.size, a)
    <2>1. a \in Nat /\ a < it.size /\ it.size \in Nat
      BY <1>5, <1>6
    <2>2. /\ n \in Nat /\ a + n <= it.size
          /\ d \in Seq(Nat) /\ Len(d) = n
          /\ Prefix(a) \o d = Prefix(a + n)
          /\ s.last <=> a + n = it.size
      BY <2>1, PieceIsTaken, Zenon
    <2>3. m = s /\ t = d /\ c = a + n
      BY <1>6
    <2> HIDE DEF m, t, s, d, n
    <2>4. m.last <=> c = it.size
      BY <2>2, <2>3, Zenon
    <2> QED BY <2>1, <2>2, <2>3, <2>4
  <1>8. MasterHas(a)
    BY <1>2, <1>3 DEF UploadPlaces, MasterAt, MasterNew
  <1> HIDE DEF m, t
  <1>9. /\ me.buffer \o t \in Seq(Nat)
        /\ Len(me.buffer \o t) = Len(me.buffer) + Len(t)
        /\ Len(me.buffer \o t) <= c
        /\ ~me.lost => me.buffer \o t = Prefix(c)
    <2>1. /\ me.buffer \o t \in Seq(Nat)
          /\ Len(me.buffer \o t) = Len(me.buffer) + Len(t)
      BY <1>5, <1>7, ConcatProperties
    <2>2. Len(me.buffer) <= a /\ Len(me.buffer) \in Nat
      BY <1>5, <1>8 DEF MasterHas
    <2>3. Len(me.buffer \o t) <= c
      <3>1. \A k, n \in Nat : k <= a /\ n = c - a => k + n <= c
        BY <1>6, <1>7
      <3>2. Len(t) \in Nat /\ Len(t) = c - a
        BY <1>7
      <3> QED BY <2>1, <2>2, <3>1, <3>2
    <2>4. ~me.lost => me.buffer \o t = Prefix(c)
      BY <1>7, <1>8, Zenon DEF MasterHas
    <2> QED BY <2>1, <2>3, <2>4
  <1>10. me.psize = Len(me.buffer) /\ it.size <= me.bufsize
    BY <1>8 DEF MasterHas
  <1>11. /\ got \in [service : {"SDOread"}, bufsize : {me.bufsize}, psize : Nat,
                     buffer : Seq(Nat), toggle : BOOLEAN, lost : BOOLEAN]
         /\ got.buffer = me.buffer \o t /\ got.psize = Len(got.buffer)
         /\ got.lost = me.lost /\ got.bufsize = me.bufsize
    <2>1. got = [me EXCEPT !.buffer = me.buffer \o t, !.psize = Len(me.buffer) + Len(t)]
      BY <1>10
    <2>2. /\ got.buffer = me.buffer \o t /\ got.psize = Len(me.buffer) + Len(t)
          /\ got.lost = me.lost /\ got.bufsize = me.bufsize
      BY <2>1 DEF UploadInv
    <2>3. Len(me.buffer) + Len(t) \in Nat
      BY <1>5, <1>7
    <2>4. me \in [service : {"SDOread"}, bufsize : {me.bufsize}, psize : Nat,
                 buffer : Seq(Nat), toggle : BOOLEAN, lost : BOOLEAN]
      BY DEF UploadInv
    <2>5. got \in [service : {"SDOread"}, bufsize : {me.bufsize}, psize : Nat,
                   buffer : Seq(Nat), toggle : BOOLEAN, lost : BOOLEAN]
      BY <1>9, <2>1, <2>3, <2>4
    <2> QED BY <1>9, <2>2, <2>5
  <1> HIDE DEF got
  <1>12. CASE m.last
    <2>1. me' = got /\ pc' = "done" /\ c = it.size
      BY <1>1, <1>7, <1>12 DEF SR!Return
    <2>2. Len(got.buffer) \in Nat /\ Len(Prefix(c)) = c
      BY <1>7, <1>9, <1>11 DEF Prefix
    <2>3. Len(me'.buffer) <= me'.bufsize
      BY <1>5, <1>7, <1>9, <1>10, <1>11, <2>1, <2>2
    <2>4. ~me'.lost => me'.buffer = Prefix(it'.size) /\ me'.psize = it'.size
      <3>1. ~got.lost => got.buffer = Prefix(c)
        BY <1>9, <1>11, Zenon
      <3> QED BY <1>1, <1>11, <2>1, <2>2, <3>1
    <2>5. UploadEnds'
      BY <2>3, <2>4 DEF UploadEnds
    <2>6. me' \in [service : {"SDOread"}, bufsize : Nat, psize : Nat, buffer : Seq(Nat),
                   toggle : BOOLEAN, lost : BOOLEAN]
      BY <1>5, <1>11, <2>1
    <2> QED BY <1>1, <2>1, <2>5, <2>6, UploadOver
  <1>13. CASE ~m.last
    <2>1. me' = [got EXCEPT !.toggle = ~@] /\ pc' = "segment" /\ result' = result
      BY <1>1, <1>13 DEF SR!Again, SR!Stay
    <2>2. /\ me'.buffer = got.buffer /\ me'.psize = got.psize /\ me'.lost = got.lost
          /\ me' \in [service : {"SDOread"}, bufsize : {me.bufsize}, psize : Nat,
                     buffer : Seq(Nat), toggle : BOOLEAN, lost : BOOLEAN]
      BY <1>11, <2>1
    <2> QED BY <1>1, <1>2, <1>3, <1>4, <1>7, <1>9, <1>11, <2>1, <2>2, UploadGoesOn
  <1> QED BY <1>12, <1>13

LEMMA UploadSegmentEnds ==
  ASSUME SDOAssumption, UploadInv, SR!RecvSegmentOther \/ SR!SegmentTimeout
  PROVE  UploadInv'
  <1>1. CASE SR!RecvSegmentOther
    BY <1>1, UploadFails DEF SR!RecvSegmentOther, SR!Return
  <1>2. CASE SR!SegmentTimeout
    <2> DEFINE lost == (me.lost \/ out' # out)
    <2>1. /\ pc = "segreceive" /\ pc' = "segment" /\ UNCHANGED <<in, it, result>>
          /\ out' = out \/ (out # <<>> /\ out' = Tail(out))
          /\ me' = [[me EXCEPT !.lost = lost] EXCEPT !.toggle = ~@]
      BY <1>2 DEF SR!SegmentTimeout, SR!At, SR!Miss, SR!Again, SR!Stay
    <2>2. lost \in BOOLEAN
      OBVIOUS
    <2>3. lost = FALSE => out' = out /\ me.lost = FALSE
      <3>1. me.lost \in BOOLEAN
        BY DEF UploadInv
      <3> QED BY <3>1
    <2> HIDE DEF lost
    <2>4. PICK a, b \in Int : UploadPlaces(a, b)
      BY <2>1 DEF UploadInv, UploadRuns, UploadPlaces
    <2>5. MasterHas(a)
      BY <2>1, <2>4 DEF UploadPlaces, MasterAt, MasterNew
    <2>6. /\ me'.buffer = me.buffer /\ me'.psize = me.psize /\ me'.lost = lost
          /\ me' \in [service : {"SDOread"}, bufsize : {me.bufsize}, psize : Nat,
                     buffer : Seq(Nat), toggle : BOOLEAN, lost : BOOLEAN]
      <3>1. me \in [service : {"SDOread"}, bufsize : {me.bufsize}, psize : Nat,
                    buffer : Seq(Nat), toggle : BOOLEAN, lost : BOOLEAN]
        BY DEF UploadInv
      <3>2. (~me.toggle) \in BOOLEAN
        OBVIOUS
      <3>3. me' = [me EXCEPT !.lost = lost, !.toggle = ~me.toggle]
        BY <2>1, <3>1
      <3> QED BY <2>2, <3>1, <3>2, <3>3
    <2>7. it.size \in Nat /\ a \in Nat /\ Len(me.buffer) <= a /\ a <= it.size
          /\ me.psize = Len(me.buffer) /\ Len(me.buffer) \in Nat
      BY <2>5 DEF MasterHas, UploadInv
    <2>8. CASE out' = out
      <3>1. Chain(UploadLinks(it.size), out', a, b)
        BY <2>4, <2>8 DEF UploadPlaces
      <3>2. lost = FALSE => me.buffer = Prefix(a)
        BY <2>3, <2>5 DEF MasterHas
      <3>3. ~me'.lost => me'.buffer = Prefix(a)
        BY <2>2, <2>6, <3>2
      <3> QED BY <2>1, <2>4, <2>6, <2>7, <3>1, <3>3, UploadGoesOn
    <2>9. CASE out' # out
      <3>1. PICK c \in Int : /\ Link(Head(out), a, c) \in UploadLinks(it.size)
                             /\ Chain(UploadLinks(it.size), out', c, b)
        BY <2>1, <2>4, <2>9, UploadTaken
      <3>2. c \in Nat /\ a <= c /\ c <= it.size
        <4>1. CASE c = a
          BY <2>7, <4>1
        <4>2. CASE a < it.size /\ c = a + Piece(it.size, a)
          BY <2>7, <4>2, PieceIsTaken
        <4> QED BY <2>7, <3>1, <4>1, <4>2, UploadLink
      <3>3. lost # FALSE
        BY <2>3, <2>9
      <3>4. Len(me.buffer) <= c
        BY <2>7, <3>2
      <3>5. me'.lost
        BY <2>2, <2>6, <3>3
      <3> QED BY <2>1, <2>4, <2>6, <2>7, <3>1, <3>2, <3>4, <3>5, UploadGoesOn
    <2> QED BY <2>8, <2>9
  <1> QED BY <1>1, <1>2

\* The slave takes itself to the next place when it answers.
LEMMA UploadAnswers ==
  ASSUME SDOAssumption, UploadInv, UNCHANGED <<pc, me, result>>,
         it' \in [service : {"SDOread"}, size : {it.size}, off : Nat, toggle : BOOLEAN],
         in # None, in' = None, NEW m, out' = Append(out, m),
         \A b \in Int : SlaveAt(b) => \E c \in Int :
            /\ Link(m, b, c) \in UploadLinks(it.size)
            /\ \/ c = b /\ m \in SR!Stray /\ it' = it
               \/ c \in Nat /\ c = it'.off
  PROVE  UploadInv'
  <1>1. it'.size = it.size /\ it.size \in Nat
    BY DEF UploadInv
  <1>2. UploadEnds'
    BY <1>1 DEF UploadInv, UploadEnds
  <1>3. ASSUME pc # "done" PROVE UploadRuns'
    <2>1. PICK a, b \in Int : UploadPlaces(a, b)
      BY <1>3 DEF UploadInv, UploadRuns, UploadPlaces
    <2>2. PICK c \in Int :
            /\ Link(m, b, c) \in UploadLinks(it.size)
            /\ \/ c = b /\ m \in SR!Stray /\ it' = it
               \/ c \in Nat /\ c = it'.off
      BY <2>1 DEF UploadPlaces
    <2>3. Chain(UploadLinks(it'.size), out', a, c)
      BY <1>1, <2>1, <2>2, ChainAppend DEF UploadPlaces
    <2>4. MasterAt(a)'
      BY <1>1, <2>1 DEF UploadPlaces, MasterAt, MasterNew, MasterHas
    <2>5. SlaveAt(c)'
      <3>1. CASE c = b /\ m \in SR!Stray /\ it' = it
        <4>1. CASE SlaveSent(b)
          BY <3>1, <4>1 DEF SlaveSent, SlaveAt
        <4>2. CASE SlaveNew(b)
          <5> DEFINE S == {l.mail : l \in UploadLinks(it.size)}
          <5>1. out \in Seq(S)
            BY <2>1 DEF UploadPlaces, Chain
          <5> HIDE DEF S
          <5>2. \A j \in DOMAIN out' : out'[j] = m \/ (j \in DOMAIN out /\ out'[j] = out[j])
            BY <5>1
          <5> QED BY <3>1, <4>2, <5>2 DEF SlaveNew, SlaveAt
        <4> QED BY <2>1, <4>1, <4>2 DEF UploadPlaces, SlaveAt
      <3>2. CASE c \in Nat /\ c = it'.off
        BY <3>2 DEF SlaveAt, SlaveSent
      <3> QED BY <2>2, <3>1, <3>2
    <2>6. pc' # "request" /\ (a # -1 => c # -1)
      BY <2>1, <2>2 DEF UploadPlaces
    <2> QED BY <2>1, <2>2, <2>3, <2>4, <2>5, <2>6 DEF UploadRuns
  <1>4. it' \in [service : {"SDOread"}, size : Nat, off : Nat, toggle : BOOLEAN]
    BY <1>1
  <1> QED BY <1>2, <1>3, <1>4 DEF UploadInv

LEMMA UploadSlaveStep ==
  ASSUME SDOAssumption, UploadInv,
         SR!SlaveUploads \/ SR!SlaveSegment \/ SR!SlaveAborts
  PROVE  UploadInv'
  <1>1. /\ it \in [service : {"SDOread"}, size : Nat, off : Nat, toggle : BOOLEAN]
        /\ it \in [service : {"SDOread"}, size : {it.size}, off : Nat, toggle : BOOLEAN]
        /\ it.size \in Nat
    BY DEF UploadInv
  <1>2. CASE SR!SlaveUploads
    <2>1. PICK m : /\ in # None /\ in.op = "upload" /\ UNCHANGED <<pc, me, result>>
                   /\ in' = None /\ out' = Append(out, m)
                   /\ m = Normal(it.size) \/ (it.size <= 4 /\ m = Expedited(it.size))
                   /\ it' = [it EXCEPT !.off = First(it.size)]
      BY <1>2 DEF SR!SlaveUploads, SR!Asked, SR!Answer, SR!master, First, Normal,
         Expedited
    <2>2. First(it.size) \in Nat
      BY <1>1, FirstInSize
    <2>3. it'.off = First(it.size)
          /\ it' \in [service : {"SDOread"}, size : {it.size}, off : Nat, toggle : BOOLEAN]
      <3>1. ASSUME NEW k \in Nat, it' = [it EXCEPT !.off = k]
            PROVE  /\ it'.off = k
                   /\ it' \in [service : {"SDOread"}, size : {it.size}, off : Nat,
                              toggle : BOOLEAN]
        BY <1>1, <3>1
      <3> QED BY <2>1, <2>2, <3>1
    <2>4. ASSUME NEW b \in Int, SlaveAt(b)
          PROVE  \E c \in Int : Link(m, b, c) \in UploadLinks(it.size)
                                /\ c \in Nat /\ c = it'.off
      <3>1. b = -1
        BY <2>1, <2>4 DEF SlaveAt, SlaveSent, SlaveNew
      <3>2. Link(m, b, First(it.size)) \in UploadLinks(it.size)
        BY <2>1, <3>1 DEF UploadLinks
      <3> QED BY <2>2, <2>3, <3>2
    <2> QED BY <2>1, <2>3, <2>4, UploadAnswers
  <1>3. CASE SR!SlaveSegment
    <2> DEFINE n == Piece(it.size, it.off)
               m == SegData(it.size, it.off)
    <2>1. /\ in # None /\ in.op = "segment" /\ UNCHANGED <<pc, me, result>>
          /\ it.off < it.size
          /\ in' = None /\ out' = Append(out, m)
          /\ it' = [it EXCEPT !.off = @ + n, !.toggle = ~@]
      BY <1>3 DEF SR!SlaveSegment, SR!Asked, SR!Answer, SR!master, Piece, SegData, Pad
    <2>2. n \in Nat
      BY <1>1, <2>1, PieceIsTaken
    <2> HIDE DEF n
    <2>3. it'.off = it.off + n
          /\ it' \in [service : {"SDOread"}, size : {it.size}, off : Nat, toggle : BOOLEAN]
      <3>1. ASSUME NEW k \in Nat, NEW t \in BOOLEAN, it' = [it EXCEPT !.off = k, !.toggle = t]
            PROVE  /\ it'.off = k
                   /\ it' \in [service : {"SDOread"}, size : {it.size}, off : Nat,
                              toggle : BOOLEAN]
        BY <1>1, <3>1
      <3>2. it.off + n \in Nat /\ (~it.toggle) \in BOOLEAN
        BY <1>1, <2>2
      <3>3. it' = [it EXCEPT !.off = it.off + n, !.toggle = ~it.toggle]
        BY <1>1, <2>1
      <3> QED BY <3>1, <3>2, <3>3
    <2>4. ASSUME NEW b \in Int, SlaveAt(b)
          PROVE  \E c \in Int : Link(m, b, c) \in UploadLinks(it.size)
                                /\ c \in Nat /\ c = it'.off
      <3>1. b = it.off /\ b \in Nat
        BY <2>1, <2>4 DEF SlaveAt, SlaveSent, SlaveNew
      <3>2. Link(m, b, b + n) \in UploadLinks(it.size)
        BY <2>1, <3>1 DEF UploadLinks, n
      <3> QED BY <2>2, <2>3, <3>1, <3>2
    <2> QED BY <2>1, <2>3, <2>4, UploadAnswers
  <1>4. CASE SR!SlaveAborts
    <2>1. PICK m \in SR!Stray : /\ in # None /\ UNCHANGED <<pc, me, result, it>>
                               /\ in' = None /\ out' = Append(out, m)
      BY <1>4 DEF SR!SlaveAborts, SR!Asked, SR!Answer, SR!master
    <2>2. ASSUME NEW b \in Int
          PROVE  Link(m, b, b) \in UploadLinks(it.size)
      BY DEF UploadLinks
    <2> QED BY <1>1, <2>1, <2>2, UploadAnswers
  <1> QED BY <1>2, <1>3, <1>4

-------------------------------------------------------------------------------
(* ecx_TxPDO *)

TxPDOMails(size) ==
    SR!Stray \cup {SR!OtherPDO, [op |-> "txpdo", data |-> SR!Bytes(0, size)]}

TxPDOInv ==
    /\ pc \in {"request", "receive", "done"}
    /\ me \in [service : {"TxPDO"}, bufsize : Nat, psize : Nat, buffer : Seq(Nat),
               lost : BOOLEAN]
    /\ it \in [service : {"TxPDO"}, size : Nat]
    /\ out \in Seq(TxPDOMails(it.size))
    /\ UploadEnds
    /\ pc # "done" => result # "ok" /\ me.psize = me.bufsize /\ me.buffer = <<>>

LEMMA TxPDOCall ==
  ASSUME SDOAssumption, result # "ok", SR!CallTxPDO
  PROVE  TxPDOInv'
  <1>1. PICK size \in Lengths, bufsize \in Lengths :
           SR!Begin([service |-> "TxPDO", bufsize |-> bufsize, psize |-> bufsize,
                     buffer |-> <<>>, lost |-> FALSE],
                    [service |-> "TxPDO", size |-> size], SR!Stray \cup {SR!OtherPDO})
    BY DEF SR!CallTxPDO
  <1>2. /\ size \in Nat /\ bufsize \in Nat
        /\ pc' = "request" /\ result' = result
        /\ me' = [service |-> "TxPDO", bufsize |-> bufsize, psize |-> bufsize,
                  buffer |-> <<>>, lost |-> FALSE]
        /\ it' = [service |-> "TxPDO", size |-> size]
        /\ out' = <<>> \/ \E m \in SR!Stray \cup {SR!OtherPDO} : out' = <<m>>
    BY <1>1 DEF SR!Begin, SDOAssumption
  <1>3. out' \in Seq(TxPDOMails(size))
    <2>1. CASE out' = <<>>
      BY <2>1
    <2>2. ASSUME NEW m \in TxPDOMails(size), out' = <<m>>
          PROVE  out' \in Seq(TxPDOMails(size))
      BY <2>2
    <2>3. SR!Stray \cup {SR!OtherPDO} \subseteq TxPDOMails(size)
      BY DEF TxPDOMails
    <2> QED BY <1>2, <2>1, <2>2, <2>3
  <1> QED BY <1>2, <1>3 DEF TxPDOInv, UploadEnds

LEMMA TxPDOStep ==
  ASSUME SDOAssumption, TxPDOInv, SR!SendTxPDO \/ SR!RecvTxPDO \/ SR!SlavePDO
  PROVE  TxPDOInv'
  <1>1. it.size \in Nat /\ me.bufsize \in Nat /\ me.psize \in Nat
        /\ out \in Seq(TxPDOMails(it.size))
    BY DEF TxPDOInv
  <1>2. CASE SR!SendTxPDO
    <2>1. /\ pc = "request" /\ UNCHANGED <<me, out, it>>
          /\ \/ pc' = "receive" /\ result' = result
             \/ pc' = "done" /\ result' = "failed"
      BY <1>2 DEF SR!SendTxPDO, SR!At, SR!Post, SR!Stay, SR!Failed, SR!Return
    <2> QED BY <2>1 DEF TxPDOInv, UploadEnds
  <1>3. CASE SR!SlavePDO
    <2>1. PICK m \in TxPDOMails(it.size) : /\ out' = Append(out, m)
                                          /\ UNCHANGED <<pc, me, result, it>>
      BY <1>3 DEF SR!SlavePDO, SR!Answer, SR!master, TxPDOMails
    <2>2. out' \in Seq(TxPDOMails(it.size))
      BY <1>1, <2>1, AppendProperties
    <2> QED BY <2>1, <2>2 DEF TxPDOInv, UploadEnds
  <1>4. CASE SR!RecvTxPDO
    <2>1. /\ pc = "receive" /\ UNCHANGED <<in, it>> /\ pc' = "done"
          /\ out' = out \/ (out # <<>> /\ out' = Tail(out))
      BY <1>4 DEF SR!RecvTxPDO, SR!At, SR!Take, SR!Miss, SR!Failed, SR!Return, SR!TooSmall
    <2>2. out' \in Seq(TxPDOMails(it.size))
      BY <1>1, <2>1, HeadTailProperties
    <2>3. CASE me' = me /\ result' # "ok"
      BY <2>1, <2>2, <2>3 DEF TxPDOInv, UploadEnds
    <2>4. CASE ~(me' = me /\ result' # "ok")
      <3> DEFINE m == Head(out)
                 z == (m = SR!OtherPDO)
      <3>1. /\ out # <<>> /\ m.op = "txpdo" /\ me.psize >= Len(m.data)
            /\ me' = [SR!Copied(m, Len(m.data)) EXCEPT !.lost = z]
        BY <1>4, <2>4 DEF SR!RecvTxPDO, SR!Take, SR!Failed, SR!Return, SR!TooSmall
      <3>2. m \in TxPDOMails(it.size)
        BY <1>1, <3>1, HeadTailProperties
      <3>3. m = SR!OtherPDO \/ m = [op |-> "txpdo", data |-> SR!Bytes(0, it.size)]
        BY <3>1, <3>2 DEF TxPDOMails, SR!Stray
      <3>4. /\ m.data \in Seq(Nat) /\ Len(m.data) \in Nat
            /\ m # SR!OtherPDO => m.data = Prefix(it.size) /\ Len(m.data) = it.size
        <4>1. CASE m = SR!OtherPDO
          <5>1. m.data = <<0>>
            BY <4>1 DEF SR!OtherPDO
          <5> HIDE DEF m
          <5>2. m.data \in Seq(Nat) /\ Len(m.data) \in Nat
            BY <5>1
          <5> QED BY <4>1, <5>2
        <4>2. CASE m = [op |-> "txpdo", data |-> SR!Bytes(0, it.size)]
          <5>1. m.data = Prefix(it.size)
            BY <1>1, <4>2, BytesAreFirst
          <5> QED BY <1>1, <5>1, UploadFirst
        <4> QED BY <3>3, <4>1, <4>2
      <3> HIDE DEF m
      <3>5. SubSeq(m.data, 1, Len(m.data)) = m.data
        BY <3>4, SubSeqProperties, SeqEqual
      <3>6. z \in BOOLEAN
        OBVIOUS
      <3>7. z = FALSE => m.data = Prefix(it.size) /\ Len(m.data) = it.size
        BY <3>4
      <3> HIDE DEF z
      <3>8. me' = [service |-> "TxPDO", bufsize |-> me.bufsize, psize |-> Len(m.data),
                   buffer |-> m.data, lost |-> z]
        <4>1. me' = [[me EXCEPT !.buffer = m.data, !.psize = Len(m.data)] EXCEPT !.lost = z]
          BY <3>1, <3>5 DEF SR!Copied
        <4> QED BY <4>1 DEF TxPDOInv
      <3>9. me' \in [service : {"TxPDO"}, bufsize : Nat, psize : Nat, buffer : Seq(Nat),
                     lost : BOOLEAN]
        BY <1>1, <3>4, <3>6, <3>8
      <3>10. /\ me'.psize = Len(m.data) /\ me'.buffer = m.data /\ me'.lost = z
             /\ me'.bufsize = me.bufsize
        BY <3>8
      <3>11. me.psize = me.bufsize
        BY <2>1 DEF TxPDOInv
      <3>12. Len(me'.buffer) <= me'.bufsize
        BY <3>1, <3>10, <3>11
      <3>13. ~me'.lost => me'.buffer = Prefix(it'.size) /\ me'.psize = it'.size
        BY <2>1, <3>6, <3>7, <3>10
      <3>14. UploadEnds'
        BY <3>12, <3>13 DEF UploadEnds
      <3> QED BY <2>1, <2>2, <3>9, <3>14 DEF TxPDOInv
    <2> QED BY <2>3, <2>4
  <1> QED BY <1>2, <1>3, <1>4

-------------------------------------------------------------------------------
(* ecx_SDOwrite *)

Answers == {[op |-> "initres"], [op |-> "segres"]}
Short == me.size <= 4 /\ ~me.CA

\* What the slave has stored is no longer than the first p bytes, and if it is as long
\* it is these.
Stored(p) == Len(it.stored) <= p /\ (Len(it.stored) = p => it.stored = Prefix(p))

\* What the master has sent is the beginning of the object, and all of it at the end.
DownloadMaster ==
    /\ me \in [service : {"SDOwrite"}, size : Nat, CA : BOOLEAN, psize : Nat, pos : Nat,
               last : BOOLEAN, toggle : BOOLEAN, failed : BOOLEAN]
    /\ me.pos <= me.size /\ me.psize = me.size - me.pos
    /\ me.last /\ ~Short => me.pos = me.size
    /\ pc = "request" => me.pos = 0
    /\ pc \in {"segment", "segreceive"} => ~Short
    /\ pc = "receive" /\ Short => me.last

\* The slave answers when it has the size of the object; what it has completed is the
\* object.
DownloadSlave ==
    /\ it \in [service : {"SDOwrite"}, size : Nat, stored : Seq(Nat), toggle : BOOLEAN,
               complete : BOOLEAN]
    /\ out \in Seq(SW!Stray \cup Answers)
    /\ ~Short => Stored(me.pos)
    /\ it.complete => it.stored = Prefix(me.size)
    /\ it.size # me.size => pc \notin {"segment", "segreceive"}
    /\ pc = "request" \/ it.size # me.size => \A j \in DOMAIN out : out[j] \in SW!Stray

\* A mail to the slave has the bytes behind those of the mails before it.
FirstMail ==
    \/ in.op = "expedited" /\ Short /\ in.data = Prefix(me.size)
    \/ /\ in.op = "init" /\ in.size = me.size
       /\ \E n \in Nat : n <= me.pos /\ in.data = Prefix(n)
SegmentMail ==
    /\ in.op = "segment" /\ in.last \in BOOLEAN /\ it.size = me.size
    /\ \E p, n \in Nat : /\ p + n <= me.pos /\ in.data = SW!Bytes(p, n)
                         /\ in.last => p + n = me.size
                         /\ Stored(p)
DownloadMail ==
    /\ in = None \/ FirstMail \/ SegmentMail
    /\ pc = "request" => in = None

\* As long as no segment has failed, the mail that was sent last has not been answered,
\* or its answer is the only one, unless there is a stray mail before it.
Strayed == out # <<>> /\ Head(out) \in SW!Stray
Asked ==
    /\ out = <<>>
    /\ me.last /\ in.op = "segment" => in.last
    /\ me.last /\ in.op = "init" => Len(in.data) = in.size
Answered == in = None /\ Len(out) = 1 /\ (me.last => it.complete)
DownloadFlow ==
    /\ pc # "done" => result # "ok"
    /\ result = "ok" /\ ~me.failed => it.complete /\ in = None
    /\ pc = "segment" /\ ~me.failed => out = <<>> /\ in = None
    /\ pc \in {"receive", "segreceive"} /\ ~me.failed => Strayed \/ Asked \/ Answered

DownloadInv ==
    /\ pc \in {"request", "receive", "segment", "segreceive", "done"}
    /\ DownloadMaster /\ DownloadSlave /\ DownloadMail /\ DownloadFlow

LEMMA SWBytes ==
  ASSUME NEW n \in Nat
  PROVE  SW!Bytes(0, n) = Prefix(n) /\ Len(Prefix(n)) = n /\ Prefix(n) \in Seq(Nat)
  <1>1. \A j \in 1 .. n : 0 + j = j
    OBVIOUS
  <1> QED BY <1>1 DEF SW!Bytes, Prefix

LEMMA StrayOps ==
  ASSUME NEW m
  PROVE  /\ m \in SW!Stray => m.op \in {"mail", "abort", "otherindex"}
         /\ m \in Answers => m.op \in {"initres", "segres"}
  BY DEF SW!Stray, Answers

\* A segment continues what is stored, or leaves a gap for ever.
LEMMA StoredGrows ==
  ASSUME NEW s \in Seq(Nat), NEW p \in Nat, NEW n \in Nat, Len(s) <= p,
         Len(s) = p => s = Prefix(p)
  PROVE  /\ s \o SW!Bytes(p, n) \in Seq(Nat)
         /\ Len(SW!Bytes(p, n)) = n
         /\ Len(s \o SW!Bytes(p, n)) = Len(s) + n
         /\ Len(s) + n <= p + n
         /\ Len(s) + n = p + n => s \o SW!Bytes(p, n) = Prefix(p + n)
  <1> DEFINE d == SW!Bytes(p, n)
  <1>1. d = [j \in 1 .. n |-> p + j] /\ d \in Seq(Nat) /\ Len(d) = n
    BY DEF SW!Bytes
  <1>2. Prefix(p) \o d = Prefix(p + n)
    BY <1>1, PrefixGrows
  <1> HIDE DEF d
  <1>3. s \o d \in Seq(Nat) /\ Len(s \o d) = Len(s) + Len(d)
    BY <1>1, ConcatProperties
  <1>4. Len(s) \in Nat
    OBVIOUS
  <1>5. Len(s) + n = p + n => Len(s) = p
    BY <1>4
  <1>6. Len(s) + n <= p + n
    BY <1>4
  <1>7. Len(s) + n = p + n => s \o d = Prefix(p + n)
    BY <1>2, <1>5
  <1> QED BY <1>1, <1>3, <1>6, <1>7 DEF d

\* The call begins with nothing sent, and perhaps a stray mail.
LEMMA DownloadCall ==
  ASSUME SDOAssumption, result # "ok", in = None, SW!CallSDOwrite
  PROVE  DownloadInv'
  <1>1. PICK size \in Lengths, CA \in BOOLEAN :
           SW!Begin([service |-> "SDOwrite", size |-> size, CA |-> CA, psize |-> size,
                     pos |-> 0, last |-> FALSE, toggle |-> FALSE, failed |-> FALSE],
                    [service |-> "SDOwrite", size |-> 0, stored |-> <<>>,
                     toggle |-> FALSE, complete |-> FALSE],
                    SW!Stray)
    BY DEF SW!CallSDOwrite
  <1>2. /\ size \in Nat /\ pc' = "request" /\ result' = result /\ in' = in
        /\ me' = [service |-> "SDOwrite", size |-> size, CA |-> CA, psize |-> size,
                  pos |-> 0, last |-> FALSE, toggle |-> FALSE, failed |-> FALSE]
        /\ it' = [service |-> "SDOwrite", size |-> 0, stored |-> <<>>,
                  toggle |-> FALSE, complete |-> FALSE]
        /\ out' = <<>> \/ \E m \in SW!Stray : out' = <<m>>
    BY <1>1 DEF SW!Begin, SDOAssumption
  <1>3. /\ out' \in Seq(SW!Stray \cup Answers)
        /\ \A j \in DOMAIN out' : out'[j] \in SW!Stray
    <2>1. CASE out' = <<>>
      BY <2>1
    <2>2. ASSUME NEW S, NEW T, NEW m \in S, out' = <<m>>
          PROVE  out' \in Seq(S \cup T) /\ \A j \in DOMAIN out' : out'[j] \in S
      BY <2>2
    <2> QED BY <1>2, <2>1, <2>2
  <1>4. Prefix(0) = <<>> /\ Len(<<>>) = 0
    BY DEF Prefix
  <1>5. DownloadMaster'
    BY <1>2 DEF DownloadMaster
  <1>6. DownloadSlave'
    BY <1>2, <1>3, <1>4 DEF DownloadSlave, Stored
  <1>7. DownloadMail' /\ DownloadFlow'
    BY <1>2 DEF DownloadMail, DownloadFlow
  <1> QED BY <1>2, <1>5, <1>6, <1>7 DEF DownloadInv

\* What the slave has stored stays behind what was sent.
LEMMA UptoMore ==
  ASSUME DownloadSlave, NEW p \in Nat, NEW q \in Nat, p <= q, Stored(p)
  PROVE  Stored(q)
  <1>1. Len(it.stored) \in Nat
    BY DEF DownloadSlave
  <1> QED BY <1>1 DEF Stored

SlaveType ==
    [service : {"SDOwrite"}, size : Nat, stored : Seq(Nat), toggle : BOOLEAN,
     complete : BOOLEAN]
MasterType ==
    [service : {"SDOwrite"}, size : Nat, CA : BOOLEAN, psize : Nat, pos : Nat,
     last : BOOLEAN, toggle : BOOLEAN, failed : BOOLEAN]

\* What stays when the master goes on in the object.
LEMMA DownloadKeeps ==
  ASSUME DownloadInv, it' = it, me'.size = me.size, me'.CA = me.CA, me'.pos \in Nat,
         me.pos <= me'.pos
  PROVE  /\ Short' = Short
         /\ ~Short' => Stored(me.pos)'
         /\ it'.complete => it'.stored = Prefix(me'.size)
         /\ it' \in SlaveType
         /\ in' = in /\ FirstMail => FirstMail'
         /\ in' = in /\ SegmentMail => SegmentMail'
  <1>1. me.pos \in Nat
    BY DEF DownloadInv, DownloadMaster
  <1>2. Stored(me.pos) => Stored(me'.pos)
    BY <1>1, UptoMore DEF DownloadInv
  <1>3. Short' = Short
    BY DEF Short
  <1>4. ~Short' => Stored(me.pos)'
    <2>1. Stored(me'.pos) => Stored(me.pos)'
      BY DEF Stored
    <2> QED BY <1>2, <1>3, <2>1 DEF DownloadInv, DownloadSlave
  <1>5. it'.complete => it'.stored = Prefix(me'.size)
    BY DEF DownloadInv, DownloadSlave
  <1>6. it' \in SlaveType
    BY DEF DownloadInv, DownloadSlave, SlaveType
  <1>7. ASSUME in' = in, FirstMail PROVE FirstMail'
    <2>1. CASE in.op = "expedited" /\ Short /\ in.data = Prefix(me.size)
      BY <1>3, <1>7, <2>1 DEF FirstMail
    <2>2. CASE /\ in.op = "init" /\ in.size = me.size
               /\ \E n \in Nat : n <= me.pos /\ in.data = Prefix(n)
      <3>1. PICK n \in Nat : n <= me.pos /\ in.data = Prefix(n)
        BY <2>2
      <3>2. n <= me'.pos /\ in'.data = Prefix(n)
        BY <1>1, <1>7, <3>1
      <3> QED BY <1>7, <2>2, <3>2 DEF FirstMail
    <2> QED BY <1>7, <2>1, <2>2 DEF FirstMail
  <1>8. ASSUME in' = in, SegmentMail PROVE SegmentMail'
    <2>1. PICK p, n \in Nat : /\ p + n <= me.pos /\ in.data = SW!Bytes(p, n)
                              /\ in.last => p + n = me.size
                              /\ Stored(p)
      BY <1>8 DEF SegmentMail
    <2>2. p + n <= me'.pos /\ in'.data = SW!Bytes(p, n) /\ (in'.last => p + n = me'.size)
      BY <1>1, <1>8, <2>1
    <2>3. \E q, k \in Nat : /\ q + k <= me'.pos /\ in'.data = SW!Bytes(q, k)
                            /\ in'.last => q + k = me'.size
                            /\ Len(it'.stored) <= q /\ (Len(it'.stored) = q => it'.stored = Prefix(q))
      BY <2>1, <2>2 DEF Stored
    <2> QED BY <1>8, <2>3 DEF SegmentMail, Stored
  <1> QED BY <1>3, <1>4, <1>5, <1>6, <1>7, <1>8

\* The first mail: a short object in a frame of its own, or its size and beginning.
LEMMA DownloadAsks ==
  ASSUME SDOAssumption, DownloadInv, SW!SendExpedited \/ SW!SendInit
  PROVE  DownloadInv'
  <1>1. /\ pc = "request" /\ UNCHANGED <<out, it>> /\ in = None /\ result # "ok"
        /\ me.pos = 0 /\ me.psize = me.size /\ me.size \in Nat /\ me.pos \in Nat
        /\ \A j \in DOMAIN out : out[j] \in SW!Stray
        /\ me \in MasterType
    BY DEF SW!SendExpedited, SW!SendInit, SW!At, DownloadInv, DownloadMaster,
       DownloadSlave, DownloadMail, DownloadFlow, MasterType
  <1> DEFINE n == SW!Portion(SDOdata)
             m == IF Short THEN [op |-> "expedited", data |-> SW!Bytes(0, me.size)]
                  ELSE [op |-> "init", size |-> me.size, data |-> SW!Bytes(0, n)]
  <1>2. n \in Nat /\ n <= me.size /\ (me.psize <= n <=> n = me.size)
    BY <1>1 DEF SW!Portion, SDOAssumption
  <1>3. /\ \/ in' = m /\ pc' = "receive" /\ result' = result
           \/ in' \in {None, m} /\ pc' = "done" /\ result' = "failed"
        /\ Short => me' = [me EXCEPT !.last = TRUE]
        /\ ~Short => me' = [me EXCEPT !.psize = me.size - n, !.pos = n, !.last = me.psize <= n]
    <2>1. CASE SW!SendExpedited
      <3>1. Short /\ m = [op |-> "expedited", data |-> SW!Bytes(0, me.size)]
        BY <2>1 DEF SW!SendExpedited, SW!expedited, Short
      <3> HIDE DEF m, n
      <3> QED BY <1>1, <2>1, <3>1 DEF SW!SendExpedited, SW!Post, SW!Stay, SW!Failed, SW!Return
    <2>2. CASE SW!SendInit
      <3>1. ~Short /\ m = [op |-> "init", size |-> me.size, data |-> SW!Bytes(0, n)]
        BY <2>2 DEF SW!SendInit, SW!expedited, Short
      <3>2. SW!Advance(n) = [me EXCEPT !.psize = me.size - n, !.pos = n, !.last = me.psize <= n]
        <4>1. me.psize - n = me.size - n /\ me.pos + n = n
          BY <1>1, <1>2
        <4>2. SW!Advance(n) = [me EXCEPT !.psize = me.psize - n, !.pos = me.pos + n,
                                        !.last = me.psize <= n]
          BY DEF SW!Advance
        <4> HIDE DEF n
        <4> QED BY <4>1, <4>2
      <3>3. /\ me' = SW!Advance(n)
            /\ SW!Post([op |-> "init", size |-> me.size, data |-> SW!Bytes(0, n)],
                       SW!Stay("receive"), SW!Failed)
        BY <2>2 DEF SW!SendInit
      <3> HIDE DEF m, n
      <3> QED BY <1>1, <3>1, <3>2, <3>3 DEF SW!Post, SW!Stay, SW!Failed, SW!Return
    <2> QED BY <2>1, <2>2
  <1>4. /\ Short => m.op = "expedited" /\ m.data = Prefix(me.size)
        /\ ~Short => /\ m.op = "init" /\ m.size = me.size /\ m.data = Prefix(n)
                     /\ Len(Prefix(n)) = n
    BY <1>1, <1>2, SWBytes
  <1> HIDE DEF n, m
  <1>5. /\ me' \in MasterType /\ me'.size = me.size /\ me'.CA = me.CA
        /\ Short => me'.last /\ me'.pos = 0 /\ me'.psize = me.psize
        /\ ~Short => /\ me'.pos = n /\ me'.psize = me.size - n
                     /\ me'.last => n = me.size
    <2>1. CASE Short
      BY <1>1, <1>3, <2>1 DEF MasterType
    <2>2. CASE ~Short
      <3>1. \A z \in BOOLEAN, k \in Nat : 
               me' = [me EXCEPT !.psize = k, !.pos = n, !.last = z]
               => /\ me' \in MasterType /\ me'.size = me.size /\ me'.CA = me.CA
                  /\ me'.pos = n /\ me'.psize = k /\ me'.last = z
        BY <1>1, <1>2 DEF MasterType
      <3>2. me.size - n \in Nat /\ (me.psize <= n) \in BOOLEAN
        BY <1>1, <1>2
      <3> QED BY <1>2, <1>3, <2>2, <3>1, <3>2
    <2> QED BY <2>1, <2>2
  <1>6. me'.pos \in Nat /\ me.pos <= me'.pos
    BY <1>1, <1>2, <1>5
  <1>7. /\ Short' = Short /\ (~Short' => Stored(me.pos)') /\ it' \in SlaveType
        /\ it'.complete => it'.stored = Prefix(me'.size)
    BY <1>1, <1>5, <1>6, DownloadKeeps
  <1>8. DownloadMaster'
    BY <1>1, <1>2, <1>3, <1>5, <1>7 DEF DownloadMaster, MasterType
  <1>9. DownloadSlave'
    <2>1. out \in Seq(SW!Stray \cup Answers)
      BY DEF DownloadInv, DownloadSlave
    <2> QED BY <1>1, <1>3, <1>7, <2>1 DEF DownloadSlave, SlaveType
  <1>10. in' = m => FirstMail'
    BY <1>2, <1>4, <1>5, <1>7 DEF FirstMail
  <1>11. DownloadMail'
    BY <1>3, <1>10 DEF DownloadMail
  <1>12. DownloadFlow'
    <2>1. CASE pc' = "done"
      BY <1>3, <2>1 DEF DownloadFlow
    <2>2. CASE in' = m /\ pc' = "receive" /\ result' = result
      <3>1. CASE out = <<>>
        <4>1. Asked'
          BY <1>1, <1>2, <1>4, <1>5, <2>2, <3>1 DEF Asked
        <4> QED BY <1>1, <2>2, <4>1 DEF DownloadFlow
      <3>2. CASE out # <<>>
        <4> DEFINE S == SW!Stray \cup Answers
        <4>1. out \in Seq(S)
          BY DEF DownloadInv, DownloadSlave
        <4> HIDE DEF S
        <4>2. 1 \in DOMAIN out /\ Head(out) = out[1]
          BY <3>2, <4>1
        <4>3. Strayed'
          BY <1>1, <3>2, <4>2 DEF Strayed
        <4> QED BY <1>1, <2>2, <4>3 DEF DownloadFlow
      <3> QED BY <3>1, <3>2
    <2> QED BY <1>3, <2>1, <2>2
  <1> QED BY <1>3, <1>8, <1>9, <1>11, <1>12 DEF DownloadInv

\* What the master takes out of the queue.
LEMMA DownloadTaken ==
  ASSUME DownloadInv, out # <<>>
  PROVE  /\ Head(out) \in SW!Stray \cup Answers /\ Head(out) = out[1] /\ 1 \in DOMAIN out
         /\ Tail(out) \in Seq(SW!Stray \cup Answers)
         /\ Len(out) = 1 => Tail(out) = <<>>
         /\ \A j \in DOMAIN Tail(out) : j + 1 \in DOMAIN out /\ Tail(out)[j] = out[j + 1]
  <1> DEFINE S == SW!Stray \cup Answers
  <1>1. out \in Seq(S)
    BY DEF DownloadInv, DownloadSlave
  <1> HIDE DEF S
  <1>2. /\ Head(out) \in S /\ Head(out) = out[1] /\ 1 \in DOMAIN out
        /\ Tail(out) \in Seq(S)
        /\ \A j \in DOMAIN Tail(out) : j + 1 \in DOMAIN out /\ Tail(out)[j] = out[j + 1]
    BY <1>1
  <1>3. Len(out) = 1 => Tail(out) = <<>>
    <2>1. Tail(out) \in Seq(S) /\ Len(Tail(out)) = Len(out) - 1
      BY <1>1, HeadTailProperties
    <2>2. \A s \in Seq(S) : s # <<>> => Len(s) \in Nat \ {0}
      BY EmptySeq
    <2>3. Len(out) = 1 => Len(Tail(out)) \notin Nat \ {0}
      BY <2>1
    <2> QED BY <2>1, <2>2, <2>3
  <1> QED BY <1>2, <1>3 DEF S

\* The toggle bit and the note of a failure say nothing of the object.
LEMMA MasterToggles ==
  ASSUME me \in MasterType, NEW t \in BOOLEAN, NEW f \in BOOLEAN,
         me' = me \/ me' = [me EXCEPT !.toggle = t] \/ me' = [me EXCEPT !.toggle = t, !.failed = f]
  PROVE  /\ me' \in MasterType /\ me'.size = me.size /\ me'.CA = me.CA /\ me'.pos = me.pos
         /\ me'.psize = me.psize /\ me'.last = me.last
         /\ me'.failed = me.failed \/ me'.failed = f
  BY DEF MasterType

\* The master goes on after a mail, or is done after the last one.
LEMMA DownloadGoesOn ==
  ASSUME DownloadInv, pc \in {"receive", "segreceive"}, UNCHANGED <<in, it>>,
         out' \in Seq(SW!Stray \cup Answers), it.size = me.size,
         me' \in MasterType, me'.size = me.size, me'.CA = me.CA, me'.pos = me.pos,
         me'.psize = me.psize, me'.last = me.last,
         pc' = (IF me.last THEN "done" ELSE "segment"),
         DownloadFlow'
  PROVE  DownloadInv'
  <1>1. me.pos \in Nat /\ me.pos <= me.pos
    BY DEF DownloadInv, DownloadMaster
  <1>2. /\ Short' = Short /\ (~Short' => Stored(me.pos)') /\ it' \in SlaveType
        /\ it'.complete => it'.stored = Prefix(me'.size)
        /\ FirstMail => FirstMail'
        /\ SegmentMail => SegmentMail'
    BY <1>1, DownloadKeeps
  <1>3. DownloadMaster'
    BY <1>2 DEF DownloadInv, DownloadMaster, MasterType
  <1>4. DownloadSlave'
    BY <1>2 DEF DownloadSlave, SlaveType
  <1>5. DownloadMail'
    <2>1. in = None \/ FirstMail \/ SegmentMail
      BY DEF DownloadInv, DownloadMail
    <2> QED BY <1>2, <2>1 DEF DownloadMail
  <1> QED BY <1>3, <1>4, <1>5 DEF DownloadInv

\* The answer, without a look at its toggle bit.
LEMMA DownloadReplies ==
  ASSUME DownloadInv, SW!RecvInit \/ SW!RecvSegment
  PROVE  DownloadInv'
  <1>1. /\ pc \in {"receive", "segreceive"} /\ UNCHANGED <<in, it>>
        /\ out # <<>> /\ out' = Tail(out) /\ Head(out).op \in {"initres", "segres"}
        /\ me' = me \/ me' = [me EXCEPT !.toggle = ~@]
        /\ IF me.last THEN pc' = "done" /\ result' = "ok"
           ELSE pc' = "segment" /\ result' = result
    BY DEF SW!RecvInit, SW!RecvSegment, SW!Reply, SW!At, SW!Take, SW!Onward, SW!Return,
       SW!Stay
  <1>2. me \in MasterType /\ (~me.toggle) \in BOOLEAN /\ TRUE \in BOOLEAN
    BY DEF DownloadInv, DownloadMaster, MasterType
  <1>3. /\ me' \in MasterType /\ me'.size = me.size /\ me'.CA = me.CA /\ me'.pos = me.pos
        /\ me'.psize = me.psize /\ me'.last = me.last /\ me'.failed = me.failed
    <2>1. me' = me \/ me' = [me EXCEPT !.toggle = ~me.toggle]
      BY <1>1
    <2>2. me'.failed = me.failed
      BY <1>2, <2>1 DEF MasterType
    <2> QED BY <1>2, <2>1, <2>2, MasterToggles
  <1>4. Head(out) \notin SW!Stray
    BY <1>1, StrayOps
  <1>5. it.size = me.size /\ out' \in Seq(SW!Stray \cup Answers)
    BY <1>1, <1>4, DownloadTaken DEF DownloadInv, DownloadSlave
  <1>6. ASSUME ~me.failed
        PROVE  in = None /\ out' = <<>> /\ (me.last => it.complete)
    <2>1. Answered
      BY <1>1, <1>4, <1>6 DEF DownloadInv, DownloadFlow, Strayed, Asked
    <2> QED BY <1>1, <2>1, DownloadTaken DEF Answered
  <1>7. result # "ok"
    BY <1>1 DEF DownloadInv, DownloadFlow
  <1>8. DownloadFlow'
    BY <1>1, <1>3, <1>6, <1>7 DEF DownloadFlow
  <1> QED BY <1>1, <1>3, <1>5, <1>8, DownloadGoesOn

\* A segment is not answered in time: the loop goes on.
LEMMA DownloadTimeout ==
  ASSUME DownloadInv, SW!SegmentTimeout
  PROVE  DownloadInv'
  <1>1. /\ pc = "segreceive" /\ UNCHANGED <<in, it>>
        /\ out' = out \/ (out # <<>> /\ out' = Tail(out))
        /\ me' = [[me EXCEPT !.failed = TRUE] EXCEPT !.toggle = ~@]
        /\ IF [me EXCEPT !.failed = TRUE].last THEN pc' = "done" /\ result' = "failed"
           ELSE pc' = "segment" /\ result' = result
    BY DEF SW!SegmentTimeout, SW!At, SW!Miss, SW!Onward, SW!Return, SW!Stay
  <1>2. me \in MasterType /\ (~me.toggle) \in BOOLEAN /\ TRUE \in BOOLEAN
    BY DEF DownloadInv, DownloadMaster, MasterType
  <1>3. /\ me' = [me EXCEPT !.toggle = ~me.toggle, !.failed = TRUE]
        /\ [me EXCEPT !.failed = TRUE].last = me.last
    BY <1>1, <1>2 DEF MasterType
  <1>4. /\ me' \in MasterType /\ me'.size = me.size /\ me'.CA = me.CA /\ me'.pos = me.pos
        /\ me'.psize = me.psize /\ me'.last = me.last /\ me'.failed
    <2>1. me'.failed
      BY <1>2, <1>3 DEF MasterType
    <2> QED BY <1>2, <1>3, <2>1, MasterToggles
  <1>5. it.size = me.size /\ out' \in Seq(SW!Stray \cup Answers)
    BY <1>1, DownloadTaken DEF DownloadInv, DownloadSlave
  <1>6. result # "ok"
    BY <1>1 DEF DownloadInv, DownloadFlow
  <1>7. DownloadFlow' /\ pc' = (IF me.last THEN "done" ELSE "segment")
    BY <1>1, <1>3, <1>4, <1>6 DEF DownloadFlow
  <1> QED BY <1>1, <1>4, <1>5, <1>7, DownloadGoesOn

\* The call ends without success.
LEMMA DownloadFails ==
  ASSUME DownloadInv, SW!RecvOther \/ SW!RecvTimeout
  PROVE  DownloadInv'
  <1>1. /\ UNCHANGED <<me, in, it>> /\ pc' = "done" /\ result' # "ok"
        /\ out' = out \/ (out # <<>> /\ out' = Tail(out))
    BY DEF SW!RecvOther, SW!RecvTimeout, SW!Reply, SW!Take, SW!Miss, SW!Failed, SW!Return
  <1>2. me.pos \in Nat /\ me.pos <= me.pos
    BY DEF DownloadInv, DownloadMaster
  <1>3. /\ Short' = Short /\ (~Short' => Stored(me.pos)') /\ it' \in SlaveType
        /\ it'.complete => it'.stored = Prefix(me'.size)
        /\ FirstMail => FirstMail'
        /\ SegmentMail => SegmentMail'
    BY <1>1, <1>2, DownloadKeeps
  <1>4. DownloadMaster'
    BY <1>1, <1>3 DEF DownloadInv, DownloadMaster
  <1>5. DownloadSlave'
    <2>1. out \in Seq(SW!Stray \cup Answers)
      BY DEF DownloadInv, DownloadSlave
    <2>2. it.size # me.size => \A j \in DOMAIN out' : out'[j] \in SW!Stray
      <3>1. it.size # me.size => \A j \in DOMAIN out : out[j] \in SW!Stray
        BY DEF DownloadInv, DownloadSlave
      <3>2. CASE out' = out
        BY <3>1, <3>2
      <3>3. CASE out # <<>> /\ out' = Tail(out)
        <4>1. \A j \in DOMAIN out' : j + 1 \in DOMAIN out /\ out'[j] = out[j + 1]
          BY <3>3, DownloadTaken
        <4> QED BY <3>1, <4>1
      <3> QED BY <1>1, <3>2, <3>3
    <2>3. out' \in Seq(SW!Stray \cup Answers)
      BY <1>1, <2>1, DownloadTaken
    <2> QED BY <1>1, <1>3, <2>2, <2>3 DEF DownloadSlave, SlaveType
  <1>6. DownloadMail' /\ DownloadFlow'
    <2>1. in = None \/ FirstMail \/ SegmentMail
      BY DEF DownloadInv, DownloadMail
    <2> QED BY <1>1, <1>3, <2>1 DEF DownloadMail, DownloadFlow
  <1> QED BY <1>1, <1>4, <1>5, <1>6 DEF DownloadInv

\* The next segment, with the last one marked; when it cannot be sent, the loop goes on.
LEMMA DownloadSends ==
  ASSUME SDOAssumption, DownloadInv, SW!SendSegment
  PROVE  DownloadInv'
  <1> DEFINE n == SW!Portion(SDOdata + 7)
             z == (me.psize <= n)
             m == [op |-> "segment", toggle |-> me.toggle, last |-> z,
                   data |-> SW!Bytes(me.pos, n)]
  <1>1. /\ pc = "segment" /\ UNCHANGED <<out, it>> /\ it.size = me.size /\ ~Short
        /\ me \in MasterType /\ me.pos + me.psize = me.size /\ result # "ok"
        /\ ~me.failed => out = <<>>
    BY DEF SW!SendSegment, SW!At, DownloadInv, DownloadMaster, DownloadSlave,
       DownloadFlow, MasterType
  <1>2. n \in Nat /\ n <= me.psize /\ z \in BOOLEAN /\ (z => n = me.psize)
    BY <1>1 DEF SW!Portion, SDOAssumption, MasterType
  <1>3. /\ SW!Advance(n) = [me EXCEPT !.psize = me.psize - n, !.pos = me.pos + n, !.last = z]
        /\ SW!Advance(n).last = z
    BY <1>1 DEF SW!Advance, MasterType
  <1>4. SW!Post([op |-> "segment", toggle |-> me.toggle, last |-> SW!Advance(n).last,
                 data |-> SW!Bytes(me.pos, n)],
                SW!Stay("segreceive") /\ me' = SW!Advance(n),
                SW!Onward([SW!Advance(n) EXCEPT !.failed = TRUE], "failed"))
    BY DEF SW!SendSegment
  <1>5. /\ m.op = "segment" /\ m.last = z /\ m.data = SW!Bytes(me.pos, n)
    OBVIOUS
  <1> HIDE DEF n, z, m
  <1> DEFINE next == SW!Advance(n)
  <1>6. \/ in' = m /\ pc' = "segreceive" /\ result' = result /\ me' = next
        \/ /\ in' \in {in} \cup (IF in = None THEN {m} ELSE {})
           /\ SW!Onward([next EXCEPT !.failed = TRUE], "failed")
    BY <1>3, <1>4 DEF SW!Post, SW!Stay, m
  <1>7. /\ next \in MasterType /\ next.size = me.size /\ next.CA = me.CA
        /\ next.pos = me.pos + n /\ next.psize = me.psize - n /\ next.last = z
        /\ next.failed = me.failed
    <2>1. ASSUME NEW p \in Nat, NEW q \in Nat,
                 next = [me EXCEPT !.psize = p, !.pos = q, !.last = z]
          PROVE  /\ next \in MasterType /\ next.size = me.size /\ next.CA = me.CA
                 /\ next.pos = q /\ next.psize = p /\ next.last = z
                 /\ next.failed = me.failed
      BY <1>1, <1>2, <2>1 DEF MasterType
    <2>2. me.pos + n \in Nat /\ me.psize - n \in Nat
      BY <1>1, <1>2 DEF MasterType
    <2> QED BY <1>3, <2>1, <2>2
  <1> HIDE DEF next
  <1>8. ASSUME in' \in {in} \cup (IF in = None THEN {m} ELSE {}),
               SW!Onward([next EXCEPT !.failed = TRUE], "failed")
        PROVE  /\ me' \in MasterType /\ me'.size = next.size /\ me'.CA = next.CA
               /\ me'.pos = next.pos /\ me'.psize = next.psize /\ me'.last = next.last
               /\ me'.failed /\ pc' \in {"done", "segment"} /\ result' # "ok"
               /\ pc' = "segment" => ~me'.last
    <2>1. /\ me' = [[next EXCEPT !.failed = TRUE] EXCEPT !.toggle = ~@]
          /\ IF [next EXCEPT !.failed = TRUE].last THEN pc' = "done" /\ result' = "failed"
             ELSE pc' = "segment" /\ result' = result
      BY <1>8 DEF SW!Onward, SW!Return, SW!Stay
    <2>2. me' = [next EXCEPT !.failed = TRUE, !.toggle = ~next.toggle]
          /\ [next EXCEPT !.failed = TRUE].last = next.last
      BY <1>7, <2>1 DEF MasterType
    <2>3. (~next.toggle) \in BOOLEAN
      OBVIOUS
    <2>4. /\ me' \in MasterType /\ me'.size = next.size /\ me'.CA = next.CA
          /\ me'.pos = next.pos /\ me'.psize = next.psize /\ me'.last = next.last
          /\ me'.failed
      BY <1>7, <2>2, <2>3 DEF MasterType
    <2> QED BY <1>1, <2>1, <2>2, <2>4
  <1>9. /\ me' \in MasterType /\ me'.size = me.size /\ me'.CA = me.CA
        /\ me'.pos = me.pos + n /\ me'.psize = me.psize - n /\ me'.last = z
        /\ in' = in \/ in' = m
        /\ pc' \in {"segreceive", "done", "segment"}
    BY <1>6, <1>7, <1>8
  <1>10. me.pos \in Nat /\ me.psize \in Nat /\ me'.pos \in Nat /\ me.pos <= me'.pos
         /\ me'.pos <= me'.size /\ me'.psize = me'.size - me'.pos
         /\ (z => me'.pos = me'.size) /\ me.pos + n = me'.pos
    BY <1>1, <1>2, <1>9 DEF MasterType
  <1>11. /\ Short' = Short /\ (~Short' => Stored(me.pos)') /\ it' \in SlaveType
         /\ it'.complete => it'.stored = Prefix(me'.size)
         /\ in' = in /\ FirstMail => FirstMail'
         /\ in' = in /\ SegmentMail => SegmentMail'
    BY <1>1, <1>9, <1>10, DownloadKeeps
  <1>12. DownloadMaster'
    BY <1>1, <1>9, <1>10, <1>11 DEF DownloadMaster, MasterType
  <1>13. DownloadSlave'
    <2>1. out \in Seq(SW!Stray \cup Answers)
      BY DEF DownloadInv, DownloadSlave
    <2> QED BY <1>1, <1>9, <1>11, <2>1 DEF DownloadSlave, SlaveType
  <1>14. in' = m => SegmentMail'
    <2>1. Stored(me.pos)
      BY <1>1 DEF DownloadInv, DownloadSlave
    <2>2. \E p, k \in Nat : /\ p + k <= me'.pos /\ m.data = SW!Bytes(p, k)
                            /\ m.last => p + k = me'.size
                            /\ Len(it'.stored) <= p /\ (Len(it'.stored) = p => it'.stored = Prefix(p))
      BY <1>1, <1>2, <1>5, <1>10, <2>1 DEF Stored
    <2> QED BY <1>1, <1>2, <1>5, <1>9, <2>2 DEF SegmentMail, Stored
  <1>15. DownloadMail'
    <2>1. in = None \/ FirstMail \/ SegmentMail
      BY DEF DownloadInv, DownloadMail
    <2> QED BY <1>9, <1>11, <1>14, <2>1 DEF DownloadMail
  <1>16. DownloadFlow'
    <2>1. CASE in' = m /\ pc' = "segreceive" /\ result' = result /\ me' = next
      <3>1. ~me.failed => Asked'
        BY <1>1, <1>5, <1>9, <2>1 DEF Asked
      <3> QED BY <1>1, <1>7, <2>1, <3>1 DEF DownloadFlow
    <2>2. CASE /\ in' \in {in} \cup (IF in = None THEN {m} ELSE {})
               /\ SW!Onward([next EXCEPT !.failed = TRUE], "failed")
      BY <1>8, <2>2 DEF DownloadFlow
    <2> QED BY <1>6, <2>1, <2>2
  <1> QED BY <1>9, <1>12, <1>13, <1>15, <1>16 DEF DownloadInv

\* What a step of the slave has to keep.
LEMMA DownloadSlaveKeeps ==
  ASSUME DownloadInv, UNCHANGED <<pc, me, result>>, in # None, in' = None,
         NEW m \in SW!Stray \cup Answers, out' = Append(out, m),
         it' \in SlaveType,
         ~Short => Stored(me.pos)',
         it'.complete => it'.stored = Prefix(me.size),
         m \in Answers => it'.size = me.size,
         it.size = me.size => it'.size = me.size,
         m \in Answers /\ Asked => (me.last => it'.complete)
  PROVE  DownloadInv'
  <1>1. pc # "request"
    BY DEF DownloadInv, DownloadMail
  <1>2. out \in Seq(SW!Stray \cup Answers)
    BY DEF DownloadInv, DownloadSlave
  <1>3. Short' = Short
    BY DEF Short
  <1>4. DownloadMaster'
    BY <1>3 DEF DownloadInv, DownloadMaster
  <1>5. DownloadSlave'
    <2>1. out' \in Seq(SW!Stray \cup Answers)
      BY <1>2, AppendProperties
    <2>2. it'.size # me.size => \A j \in DOMAIN out' : out'[j] \in SW!Stray
      <3>1. ASSUME it'.size # me.size PROVE \A j \in DOMAIN out' : out'[j] \in SW!Stray
        <4>1. m \in SW!Stray /\ \A j \in DOMAIN out : out[j] \in SW!Stray
          BY <3>1 DEF DownloadInv, DownloadSlave
        <4> DEFINE S == SW!Stray \cup Answers
        <4>2. out \in Seq(S)
          BY <1>2
        <4> HIDE DEF S
        <4>3. \A j \in DOMAIN out' : out'[j] = m \/ (j \in DOMAIN out /\ out'[j] = out[j])
          BY <4>2
        <4> QED BY <4>1, <4>3
      <3> QED BY <3>1
    <2>3. it'.size # me'.size => pc' \notin {"segment", "segreceive"}
      BY DEF DownloadInv, DownloadSlave
    <2> QED BY <1>1, <1>3, <2>1, <2>2, <2>3 DEF DownloadSlave, SlaveType
  <1>6. DownloadMail'
    BY <1>1 DEF DownloadMail
  <1>7. DownloadFlow'
    <2>1. result = "ok" => me.failed
      BY DEF DownloadInv, DownloadFlow
    <2>2. pc = "segment" => me.failed
      BY DEF DownloadInv, DownloadFlow
    <2>3. ASSUME pc \in {"receive", "segreceive"}, ~me.failed
          PROVE  Strayed' \/ Answered'
      <3> DEFINE S == SW!Stray \cup Answers
      <3>0. out \in Seq(S)
        BY <1>2
      <3> HIDE DEF S
      <3>1. CASE Strayed
        <4>1. out # <<>> => out' # <<>> /\ Head(out') = Head(out)
          BY <3>0
        <4> QED BY <3>1, <4>1 DEF Strayed
      <3>2. CASE Asked
        <4>1. out' = <<m>>
          BY <3>2 DEF Asked
        <4>2. out' # <<>> /\ Head(out') = m /\ Len(out') = 1
          BY <4>1
        <4>3. CASE m \in SW!Stray
          BY <4>2, <4>3 DEF Strayed
        <4>4. CASE m \in Answers
          BY <3>2, <4>2, <4>4 DEF Answered
        <4> QED BY <4>3, <4>4
      <3>3. ~Answered
        BY DEF Answered
      <3> QED BY <2>3, <3>1, <3>2, <3>3 DEF DownloadInv, DownloadFlow
    <2> QED BY <2>1, <2>2, <2>3 DEF DownloadInv, DownloadFlow
  <1> QED BY <1>4, <1>5, <1>6, <1>7 DEF DownloadInv

\* The slave opens a download, stores a segment, or refuses.
LEMMA DownloadAnswers ==
  ASSUME SDOAssumption, DownloadInv, SW!SlaveInit \/ SW!SlaveSegment \/ SW!SlaveAborts
  PROVE  DownloadInv'
  <1>1. /\ it \in SlaveType /\ in # None /\ (FirstMail \/ SegmentMail)
        /\ me.pos \in Nat /\ me.size \in Nat /\ me.pos <= me.size
        /\ it.complete => it.stored = Prefix(me.size)
        /\ ~Short => Stored(me.pos)
    BY DEF SW!SlaveInit, SW!SlaveSegment, SW!SlaveAborts, SW!Asked, DownloadInv,
       DownloadMail, DownloadSlave, DownloadMaster, SlaveType
  <1>2. CASE SW!SlaveInit
    <2> DEFINE size == IF in.op = "init" THEN in.size ELSE Len(in.data)
               z == (Len(in.data) = size)
    <2>1. /\ UNCHANGED <<pc, me, result>> /\ in' = None /\ in.op \in {"expedited", "init"}
          /\ out' = Append(out, [op |-> "initres"])
          /\ it' = [it EXCEPT !.size = size, !.stored = in.data, !.complete = z]
      BY <1>2 DEF SW!SlaveInit, SW!Asked, SW!Answer, SW!master
    <2>2. FirstMail
      BY <1>1, <2>1 DEF SegmentMail
    <2>3. PICK n \in Nat : /\ in.data = Prefix(n) /\ size = me.size
                           /\ in.op = "init" \/ n = me.size
                           /\ ~Short => n <= me.pos
      <3>1. CASE in.op = "expedited" /\ Short /\ in.data = Prefix(me.size)
        <4>1. Len(in.data) = me.size
          BY <1>1, <3>1, SWBytes
        <4> QED BY <1>1, <3>1, <4>1
      <3>2. CASE /\ in.op = "init" /\ in.size = me.size
                 /\ \E n \in Nat : n <= me.pos /\ in.data = Prefix(n)
        BY <3>2
      <3> QED BY <2>2, <3>1, <3>2 DEF FirstMail
    <2>4. Len(in.data) = n /\ in.data \in Seq(Nat) /\ z \in BOOLEAN
          /\ (z <=> n = me.size)
      BY <2>3, SWBytes
    <2> HIDE DEF z
    <2>5. it' \in SlaveType /\ it'.size = me.size /\ it'.stored = Prefix(n) /\ it'.complete = z
      <3>1. it' = [it EXCEPT !.size = me.size, !.stored = in.data, !.complete = z]
        BY <2>1, <2>3
      <3> QED BY <1>1, <2>3, <2>4, <3>1 DEF SlaveType
    <2>6. ~Short => Stored(me.pos)'
      BY <1>1, <2>1, <2>3, <2>4, <2>5 DEF Stored
    <2>7. it'.complete => it'.stored = Prefix(me.size)
      BY <2>4, <2>5
    <2>8. Asked => (me.last => it'.complete)
      <3> SUFFICES ASSUME Asked, me.last PROVE z
        BY <2>5
      <3>1. in.op = "init" => Len(in.data) = in.size /\ in.size = size
        BY DEF Asked
      <3> QED BY <2>3, <2>4, <3>1
    <2> QED BY <1>1, <2>1, <2>5, <2>6, <2>7, <2>8, DownloadSlaveKeeps DEF Answers
  <1>3. CASE SW!SlaveAborts
    <2>1. PICK m \in SW!Stray : /\ UNCHANGED <<pc, me, result, it>> /\ in' = None
                               /\ out' = Append(out, m)
      BY <1>3 DEF SW!SlaveAborts, SW!Answer, SW!master
    <2>2. ~Short => Stored(me.pos)'
      BY <1>1, <2>1 DEF Stored
    <2>3. m \notin Answers
      BY <2>1, StrayOps
    <2> QED BY <1>1, <2>1, <2>2, <2>3, DownloadSlaveKeeps
  <1>4. CASE SW!SlaveSegment
    <2>1. /\ UNCHANGED <<pc, me, result>> /\ in' = None /\ in.op = "segment"
          /\ \/ /\ in.last => Len(it.stored) + Len(in.data) = it.size
                /\ it' = [it EXCEPT !.stored = @ \o in.data, !.toggle = ~@,
                                    !.complete = in.last]
                /\ out' = Append(out, [op |-> "segres"])
             \/ it' = it /\ out' = Append(out, [op |-> "abort"])
      BY <1>4 DEF SW!SlaveSegment, SW!Asked, SW!Answer, SW!master
    <2>2. CASE it' = it /\ out' = Append(out, [op |-> "abort"])
      <3>1. [op |-> "abort"] \in SW!Stray /\ [op |-> "abort"] \notin Answers
        BY StrayOps DEF SW!Stray, Answers
      <3>2. ~Short => Stored(me.pos)'
        BY <1>1, <2>1, <2>2 DEF Stored
      <3> QED BY <1>1, <2>1, <2>2, <3>1, <3>2, DownloadSlaveKeeps
    <2>3. CASE /\ in.last => Len(it.stored) + Len(in.data) = it.size
               /\ it' = [it EXCEPT !.stored = @ \o in.data, !.toggle = ~@,
                                   !.complete = in.last]
               /\ out' = Append(out, [op |-> "segres"])
      <3>1. SegmentMail
        BY <1>1, <2>1 DEF FirstMail
      <3>2. PICK p, n \in Nat : /\ p + n <= me.pos /\ in.data = SW!Bytes(p, n)
                                /\ in.last => p + n = me.size
                                /\ Stored(p)
        BY <3>1 DEF SegmentMail
      <3>3. it.stored \in Seq(Nat) /\ Len(it.stored) \in Nat /\ in.last \in BOOLEAN
            /\ it.size = me.size
        BY <1>1, <3>1 DEF SlaveType, SegmentMail
      <3> DEFINE s == it.stored \o in.data
      <3>4. /\ s \in Seq(Nat) /\ Len(in.data) = n
            /\ Len(s) = Len(it.stored) + n /\ Len(it.stored) + n <= p + n
            /\ Len(it.stored) + n = p + n => s = Prefix(p + n)
        <4>1. s = it.stored \o SW!Bytes(p, n) /\ in.data = SW!Bytes(p, n)
          BY <3>2
        <4>2. Len(it.stored) <= p /\ (Len(it.stored) = p => it.stored = Prefix(p))
          BY <3>2 DEF Stored
        <4> HIDE DEF s
        <4>3. /\ it.stored \o SW!Bytes(p, n) \in Seq(Nat) /\ Len(SW!Bytes(p, n)) = n
              /\ Len(it.stored \o SW!Bytes(p, n)) = Len(it.stored) + n
              /\ Len(it.stored) + n <= p + n
              /\ Len(it.stored) + n = p + n => it.stored \o SW!Bytes(p, n) = Prefix(p + n)
          BY <3>2, <3>3, <4>2, StoredGrows, Zenon
        <4> QED BY <4>1, <4>3
      <3> HIDE DEF s
      <3>5. /\ it' \in SlaveType /\ it'.stored = s /\ it'.size = me.size
            /\ it'.complete = in.last
        <4>1. it' = [it EXCEPT !.stored = s, !.toggle = ~it.toggle, !.complete = in.last]
          BY <1>1, <2>3 DEF s
        <4>2. (~it.toggle) \in BOOLEAN
          OBVIOUS
        <4> QED BY <1>1, <3>3, <3>4, <4>1, <4>2 DEF SlaveType
      <3>6. Len(s) <= p + n /\ (Len(s) = p + n => s = Prefix(p + n)) /\ Len(s) \in Nat
        BY <3>3, <3>4
      <3>7. Stored(me.pos)'
        <4>1. \A q \in Nat : p + n <= q => Len(s) <= q /\ (Len(s) = q => s = Prefix(q))
          BY <3>6
        <4>2. Len(s) <= me.pos /\ (Len(s) = me.pos => s = Prefix(me.pos))
          BY <1>1, <3>2, <4>1
        <4>3. it'.stored = s /\ me'.pos = me.pos
          BY <2>1, <3>5
        <4> QED BY <4>2, <4>3 DEF Stored
      <3>8. it'.complete => it'.stored = Prefix(me.size)
        <4>1. in.last => Len(s) = me.size /\ p + n = me.size
          BY <2>3, <3>2, <3>3, <3>4
        <4> QED BY <3>5, <3>6, <4>1
      <3>9. Asked => (me.last => it'.complete)
        BY <2>1, <3>5 DEF Asked
      <3> QED BY <1>1, <2>1, <2>3, <3>5, <3>7, <3>8, <3>9, DownloadSlaveKeeps DEF Answers
    <2> QED BY <2>1, <2>2, <2>3
  <1> QED BY <1>2, <1>3, <1>4

-------------------------------------------------------------------------------
(* ecx_RxPDO *)

PDO(size) ==
    [op |-> "rxpdo", data |-> SW!Bytes(0, IF size > SW!PDOdata THEN SW!PDOdata ELSE size)]

RxPDOInv ==
    /\ pc \in {"request", "done"}
    /\ me \in [service : {"RxPDO"}, size : Lengths]
    /\ it \in [service : {"RxPDO"}, stored : {it.stored}]
    /\ in = None \/ in = PDO(me.size)
    /\ pc = "request" => in = None /\ result # "ok"
    /\ result = "ok" /\ in = None => it.stored = PDO(me.size).data

LEMMA RxPDOCall ==
  ASSUME SDOAssumption, result # "ok", in = None, SW!CallRxPDO
  PROVE  RxPDOInv'
  BY DEF SW!CallRxPDO, SW!Begin, RxPDOInv

LEMMA RxPDOStep ==
  ASSUME SDOAssumption, NoneAssumption, RxPDOInv, SW!SendRxPDO \/ SW!SlavePDO
  PROVE  RxPDOInv'
  <1>1. CASE SW!SendRxPDO
    <2>1. /\ pc = "request" /\ UNCHANGED <<me, out, it>> /\ pc' = "done" /\ in = None
          /\ \/ in' = PDO(me.size) /\ result' = "ok"
             \/ in' \in {None, PDO(me.size)} /\ result' = "failed"
      BY <1>1 DEF SW!SendRxPDO, SW!At, SW!Post, SW!Failed, SW!Return, RxPDOInv, PDO
    <2>2. PDO(me.size) # None
      <3> DEFINE n == IF me.size > SW!PDOdata THEN SW!PDOdata ELSE me.size
      <3>1. n \in Nat
        BY DEF RxPDOInv, SDOAssumption, SW!PDOdata
      <3>2. SW!Bytes(0, n) \in Seq(Nat)
        BY <3>1, SWBytes
      <3> HIDE DEF n
      <3>3. [op |-> "rxpdo", data |-> SW!Bytes(0, n)] # None
        BY <3>2 DEF NoneAssumption
      <3> QED BY <3>3 DEF PDO, n
    <2> QED BY <2>1, <2>2 DEF RxPDOInv
  <1>2. CASE SW!SlavePDO
    <2>1. /\ in = PDO(me.size) /\ in' = None /\ UNCHANGED <<pc, me, result, out>>
          /\ it' = [it EXCEPT !.stored = in.data] /\ pc # "request"
      BY <1>2 DEF SW!SlavePDO, SW!master, RxPDOInv
    <2> QED BY <2>1 DEF RxPDOInv
  <1> QED BY <1>1, <1>2

-------------------------------------------------------------------------------
(* ecx_readODlist *)

\* The fragment that follows the first p objects, and how many objects it has.
Words(count, p) ==
    SI!Least(IF p = 0 THEN PerFrame - 1 ELSE PerFrame, count - p)
Listed(p, n) == [i \in 1 .. n |-> p + i]
ListPart(count, p) ==
    [op |-> "odlistres", Fragments |-> count - p - Words(count, p),
     words |-> IF p = 0 THEN <<0>> \o Listed(p, Words(count, p))
               ELSE Listed(p, Words(count, p))]
ListLinks(count) ==
    {Link(m, p, p) : m \in SI!Stray, p \in 0 .. count}
    \cup {Link(ListPart(count, p), p, p + Words(count, p)) : p \in 0 .. count}

\* The master has taken x fragments with the first a objects, of which it keeps those
\* that it has room for.
Kept(a) == Prefix(SI!Least(a, EC_MAXODLIST))
ListAt(a) ==
    /\ me.Index = Kept(a) /\ a <= it.count
    /\ \/ me.First /\ me.x = 0 /\ a = 0
       \/ /\ ~me.First /\ me.x >= 1 /\ me.x <= SI!MaxRounds
          /\ a = me.x * PerFrame - 1 /\ a < it.count

ODlistInv ==
    /\ pc \in {"request", "receive", "done"}
    /\ me \in [service : {"ODlist"}, Index : Seq(Nat), First : BOOLEAN, x : Nat]
    /\ it \in [service : {"ODlist"}, count : Nat, sent : Nat, busy : BOOLEAN]
    /\ it.sent <= it.count /\ Len(me.Index) <= EC_MAXODLIST
    /\ result = "ok" => me.Index = Kept(it.count)
    /\ pc # "done" => /\ result # "ok"
                      /\ \E a \in Nat : /\ Chain(ListLinks(it.count), out, a, it.sent)
                                        /\ ListAt(a)

LEMMA WordsAre ==
  ASSUME InfoAssumption, NEW count \in Nat, NEW p \in Nat, p <= count
  PROVE  /\ Words(count, p) \in Nat /\ p + Words(count, p) <= count
         /\ p + Words(count, p) = count \/ Words(count, p) = (IF p = 0 THEN PerFrame - 1 ELSE PerFrame)
  BY DEF Words, SI!Least, InfoAssumption

LEMMA ListLink ==
  ASSUME InfoAssumption, NEW count \in Nat, NEW m, NEW a, NEW c,
         Link(m, a, c) \in ListLinks(count)
  PROVE  /\ a \in Nat /\ c \in Nat /\ a <= count
         /\ m.op = "odlistres" => m = ListPart(count, a) /\ c = a + Words(count, a)
  <1>1. CASE Link(m, a, c) \in {Link(s, p, p) : s \in SI!Stray, p \in 0 .. count}
    <2>1. PICK s \in SI!Stray, p \in 0 .. count : Link(m, a, c) = Link(s, p, p)
      BY <1>1
    <2>2. m = s /\ a = p /\ c = p
      BY <2>1, LinkParts
    <2>3. m.op # "odlistres"
      BY <2>2 DEF SI!Stray
    <2> QED BY <2>2, <2>3
  <1>2. CASE Link(m, a, c) \in {Link(ListPart(count, p), p, p + Words(count, p)) :
                                   p \in 0 .. count}
    <2>1. PICK p \in 0 .. count :
             Link(m, a, c) = Link(ListPart(count, p), p, p + Words(count, p))
      BY <1>2
    <2>2. m = ListPart(count, p) /\ a = p /\ c = p + Words(count, p)
      BY <2>1, LinkParts
    <2>3. Words(count, p) \in Nat
      BY WordsAre
    <2> QED BY <2>2, <2>3
  <1> QED BY <1>1, <1>2 DEF ListLinks

\* The objects of a fragment, without the word before the first one.
LEMMA PartWords ==
  ASSUME InfoAssumption, NEW count \in Nat, NEW p \in Nat, p <= count
  PROVE  /\ p = 0 => Tail(ListPart(count, p).words) = Listed(p, Words(count, p))
         /\ p # 0 => ListPart(count, p).words = Listed(p, Words(count, p))
         /\ ListPart(count, p).Fragments = count - p - Words(count, p)
         /\ Listed(p, Words(count, p)) \in Seq(Nat)
         /\ Len(Listed(p, Words(count, p))) = Words(count, p)
  <1> DEFINE n == Words(count, p)
             w == Listed(p, n)
  <1>1. n \in Nat
    BY WordsAre
  <1>2. w \in Seq(Nat) /\ Len(w) = n
    BY <1>1 DEF Listed
  <1>3. /\ ListPart(count, p).Fragments = count - p - n
        /\ ListPart(count, p).words = IF p = 0 THEN <<0>> \o w ELSE w
    BY DEF ListPart
  <1> HIDE DEF w, n
  <1>4. Tail(<<0>> \o w) = w
    <2>1. <<0>> \in Seq(Nat) /\ Len(<<0>>) = 1
      OBVIOUS
    <2>2. /\ <<0>> \o w \in Seq(Nat) /\ Len(<<0>> \o w) = 1 + Len(w)
          /\ \A j \in 1 .. 1 + Len(w) :
                (<<0>> \o w)[j] = IF j <= 1 THEN <<0>>[j] ELSE w[j - 1]
      BY <1>2, <2>1, ConcatProperties
    <2> DEFINE s == <<0>> \o w
    <2> HIDE DEF s
    <2>3. s \in Seq(Nat) /\ Len(s) = 1 + Len(w) /\ s # <<>>
      BY <1>2, <2>2 DEF s
    <2>4. /\ Tail(s) \in Seq(Nat) /\ Len(Tail(s)) = Len(w)
          /\ \A j \in 1 .. Len(w) : Tail(s)[j] = s[j + 1]
      BY <1>2, <2>3
    <2>5. \A j \in 1 .. Len(w) : Tail(s)[j] = w[j]
      <3>1. \A j \in 1 .. Len(w) : s[j + 1] = w[j]
        BY <1>2, <2>2 DEF s
      <3> QED BY <2>4, <3>1
    <2>6. Tail(s) = w
      BY <1>2, <2>4, <2>5, SeqEqual
    <2> QED BY <2>6 DEF s
  <1> QED BY <1>2, <1>3, <1>4 DEF w, n

\* What the master keeps of a fragment continues what it has kept.
LEMMA KeptGrows ==
  ASSUME InfoAssumption, NEW a \in Nat, NEW n \in Nat
  PROVE  LET k == SI!Least(a, EC_MAXODLIST)
             r == IF k + n > EC_MAXODLIST THEN EC_MAXODLIST - k ELSE n
         IN  /\ Len(Kept(a)) = k /\ Kept(a) \in Seq(Nat) /\ k <= EC_MAXODLIST /\ k \in Nat
             /\ Kept(a) \o SubSeq(Listed(a, n), 1, r) = Kept(a + n)
  <1> DEFINE k == SI!Least(a, EC_MAXODLIST)
             r == IF k + n > EC_MAXODLIST THEN EC_MAXODLIST - k ELSE n
             w == Listed(a, n)
  <1>1. k \in Nat /\ r \in Nat /\ r <= n /\ (a = k \/ r = 0) /\ k <= EC_MAXODLIST
        /\ SI!Least(a + n, EC_MAXODLIST) = k + r
    BY DEF SI!Least, InfoAssumption
  <1>2. w \in Seq(Nat) /\ Len(w) = n /\ \A j \in 1 .. n : w[j] = a + j
    BY DEF Listed
  <1> HIDE DEF w, k, r
  <1>3. /\ Kept(a) = Prefix(k) /\ Kept(a + n) = Prefix(k + r)
        /\ Len(Prefix(k)) = k /\ Prefix(k) \in Seq(Nat)
    BY <1>1 DEF Kept, Prefix, k
  <1>4. SubSeq(w, 1, r) = [j \in 1 .. r |-> k + j]
    <2>1. /\ SubSeq(w, 1, r) \in Seq(Nat) /\ Len(SubSeq(w, 1, r)) = r
          /\ \A j \in 1 .. r : SubSeq(w, 1, r)[j] = w[j]
      <3>1. \A j \in 1 .. r : w[j] \in Nat
        BY <1>1, <1>2
      <3> QED BY <1>1, <1>2, <3>1, SubSeqProperties
    <2> DEFINE v == [j \in 1 .. r |-> k + j]
    <2>2. v \in Seq(Nat) /\ Len(v) = r /\ \A j \in 1 .. r : v[j] = k + j
      BY <1>1
    <2>3. \A j \in 1 .. r : SubSeq(w, 1, r)[j] = v[j]
      BY <1>1, <1>2, <2>1, <2>2
    <2> HIDE DEF v
    <2>4. SubSeq(w, 1, r) = v
      BY <2>1, <2>2, <2>3, SeqEqual
    <2> QED BY <2>4 DEF v
  <1>5. Prefix(k) \o SubSeq(w, 1, r) = Prefix(k + r)
    BY <1>1, <1>4, PrefixGrows
  <1> QED BY <1>1, <1>3, <1>5 DEF k, r, w

LEMMA ListCall ==
  ASSUME InfoAssumption, result # "ok", in = None, SI!CallODlist
  PROVE  ODlistInv'
  <1>1. PICK count \in 0 .. MaxCount :
           SI!Begin([service |-> "ODlist", Index |-> <<>>, First |-> TRUE, x |-> 0],
                    [service |-> "ODlist", count |-> count, sent |-> 0, busy |-> FALSE],
                    SI!Stray)
    BY DEF SI!CallODlist
  <1>2. /\ count \in Nat /\ pc' = "request" /\ result' = result
        /\ me' = [service |-> "ODlist", Index |-> <<>>, First |-> TRUE, x |-> 0]
        /\ it' = [service |-> "ODlist", count |-> count, sent |-> 0, busy |-> FALSE]
        /\ out' = <<>> \/ \E m \in SI!Stray : out' = <<m>>
    BY <1>1 DEF SI!Begin
  <1>3. Chain(ListLinks(count), out', 0, 0)
    <2>1. CASE out' = <<>>
      BY <2>1, ChainEmpty
    <2>2. ASSUME NEW m \in SI!Stray, out' = <<m>>
          PROVE  Chain(ListLinks(count), out', 0, 0)
      <3>1. Link(m, 0, 0) \in ListLinks(count)
        BY <1>2 DEF ListLinks
      <3> QED BY <2>2, <3>1, ChainOne
    <2> QED BY <1>2, <2>1, <2>2
  <1>4. Kept(0) = <<>> /\ Len(<<>>) = 0 /\ 0 <= EC_MAXODLIST
    <2>1. SI!Least(0, EC_MAXODLIST) = 0
      BY DEF SI!Least, InfoAssumption
    <2> QED BY <2>1 DEF Kept, Prefix, InfoAssumption
  <1>5. ListAt(0)'
    <2>1. /\ me'.Index = Kept(0) /\ me'.First /\ me'.x = 0 /\ it'.count = count
          /\ 0 <= count
      BY <1>2, <1>4
    <2> QED BY <2>1 DEF ListAt, Kept
  <1>6. \E a \in Nat : Chain(ListLinks(it'.count), out', a, it'.sent) /\ ListAt(a)'
    <2>1. it'.count = count /\ it'.sent = 0 /\ 0 \in Nat
      BY <1>2
    <2> QED BY <1>3, <1>5, <2>1 DEF ListAt
  <1> QED BY <1>2, <1>4, <1>6 DEF ODlistInv, ListAt

\* A fragment is taken, with what there is room for.
LEMMA ListTakes ==
  ASSUME InfoAssumption, ODlistInv, SI!RecvODlist
  PROVE  ODlistInv'
  <1> DEFINE m == Head(out)
             w == SI!Indexes(m)
             r == SI!Room(Len(w))
             count == it.count
  <1>1. /\ pc = "receive" /\ UNCHANGED <<in, it>>
        /\ out # <<>> /\ out' = Tail(out) /\ m.op = "odlistres"
        /\ me' = [me EXCEPT !.Index = @ \o SubSeq(w, 1, r), !.First = FALSE, !.x = @ + 1]
        /\ IF m.Fragments > 0 /\ me'.x <= SI!MaxRounds
           THEN pc' = "receive" /\ result' = result ELSE pc' = "done" /\ result' = "ok"
    BY DEF SI!RecvODlist, SI!Reply, SI!At, SI!Take, SI!Stay, SI!Return
  <1>2. /\ me \in [service : {"ODlist"}, Index : Seq(Nat), First : BOOLEAN, x : Nat]
        /\ count \in Nat /\ it.sent \in Nat /\ me.x \in Nat
    BY DEF ODlistInv
  <1>3. PICK a \in Nat : Chain(ListLinks(count), out, a, it.sent) /\ ListAt(a)
    BY <1>1 DEF ODlistInv
  <1>4. PICK c : /\ Link(m, a, c) \in ListLinks(count)
                 /\ Chain(ListLinks(count), out', c, it.sent)
    BY <1>1, <1>3, ChainTail
  <1> DEFINE n == Words(count, a)
  <1>5. a <= count /\ m = ListPart(count, a) /\ c = a + n /\ n \in Nat /\ c <= count /\ c \in Nat
    <2>1. a <= count /\ m = ListPart(count, a) /\ c = a + n
      BY <1>1, <1>2, <1>4, ListLink
    <2>2. n \in Nat /\ a + n <= count
      BY <1>2, <2>1, WordsAre
    <2> QED BY <2>1, <2>2
  <1>6. /\ me.First <=> a = 0
        /\ me.First => me.x = 0
        /\ ~me.First => me.x >= 1 /\ me.x <= SI!MaxRounds /\ a = me.x * PerFrame - 1
        /\ me.Index = Kept(a)
    <2>1. /\ me.Index = Kept(a)
          /\ \/ me.First /\ me.x = 0 /\ a = 0
             \/ ~me.First /\ me.x >= 1 /\ me.x <= SI!MaxRounds
                  /\ a = me.x * PerFrame - 1 /\ a < count
      BY <1>3 DEF ListAt
    <2>2. ASSUME NEW k \in Nat, k >= 1 PROVE k * PerFrame - 1 # 0
      <3>1. k * PerFrame >= PerFrame
        BY <2>2 DEF InfoAssumption
      <3> QED BY <3>1 DEF InfoAssumption
    <2> QED BY <1>2, <2>1, <2>2
  <1>7. w = Listed(a, n) /\ m.Fragments = count - c /\ Len(w) = n
    <2>1. /\ a = 0 => Tail(m.words) = Listed(a, n)
          /\ a # 0 => m.words = Listed(a, n)
          /\ m.Fragments = count - a - n
          /\ Len(Listed(a, n)) = n
      BY <1>2, <1>5, PartWords, Zenon
    <2>2. w = IF me.First THEN Tail(m.words) ELSE m.words
      BY DEF SI!Indexes
    <2> HIDE DEF w, n, m
    <2>3. m.Fragments = count - c
      BY <1>2, <1>5, <2>1
    <2> QED BY <1>6, <2>1, <2>2, <2>3
  <1> HIDE DEF w, m, n
  <1>8. me.Index \o SubSeq(w, 1, r) = Kept(c) /\ Len(Kept(c)) <= EC_MAXODLIST
        /\ Kept(c) \in Seq(Nat)
    <2> DEFINE k == SI!Least(a, EC_MAXODLIST)
               q == IF k + n > EC_MAXODLIST THEN EC_MAXODLIST - k ELSE n
    <2>1. /\ Len(Kept(a)) = k
          /\ Kept(a) \o SubSeq(Listed(a, n), 1, q) = Kept(a + n)
      BY <1>5, KeptGrows
    <2>2. r = q
      BY <1>6, <1>7, <2>1 DEF SI!Room
    <2>3. Len(Kept(c)) <= EC_MAXODLIST /\ Kept(c) \in Seq(Nat)
      BY <1>5, KeptGrows
    <2> HIDE DEF r, q
    <2> QED BY <1>5, <1>6, <1>7, <2>1, <2>2, <2>3
  <1> HIDE DEF r
  <1>9. /\ me' \in [service : {"ODlist"}, Index : Seq(Nat), First : BOOLEAN, x : Nat]
        /\ me'.Index = Kept(c) /\ me'.First = FALSE /\ me'.x = me.x + 1
    <2>1. me' = [me EXCEPT !.Index = Kept(c), !.First = FALSE, !.x = me.x + 1]
      BY <1>1, <1>2, <1>8
    <2>2. me.x + 1 \in Nat
      BY <1>2
    <2> QED BY <1>2, <1>8, <2>1, <2>2
  \* The fragments before the last one are full.
  <1>10. c = count \/ c = (me.x + 1) * PerFrame - 1
    <2>1. CASE c # count
      <3>1. n = IF a = 0 THEN PerFrame - 1 ELSE PerFrame
        BY <1>2, <1>5, <2>1, WordsAre DEF n
      <3>2. CASE a = 0
        <4>1. me.x = 0 /\ (0 + 1) * PerFrame = PerFrame
          BY <1>6, <3>2 DEF InfoAssumption
        <4> QED BY <1>5, <3>1, <3>2, <4>1 DEF InfoAssumption
      <3>3. CASE a # 0
        <4>1. \A k \in Nat : (k + 1) * PerFrame = k * PerFrame + PerFrame
          BY DEF InfoAssumption
        <4>2. \A k \in Nat : k * PerFrame \in Nat
          BY DEF InfoAssumption
        <4> DEFINE p == me.x * PerFrame
                   q == (me.x + 1) * PerFrame
        <4>3. q = p + PerFrame /\ p \in Nat /\ a = p - 1
          BY <1>2, <1>6, <3>3, <4>1, <4>2
        <4>4. c = a + PerFrame
          BY <1>5, <3>1, <3>3
        <4> HIDE DEF p, q
        <4>5. c = q - 1
          BY <4>3, <4>4 DEF InfoAssumption
        <4> QED BY <4>5 DEF q
      <3> QED BY <3>2, <3>3
    <2> QED BY <2>1
  <1>11. CASE m.Fragments > 0 /\ me'.x <= SI!MaxRounds
    <2>1. c < count /\ c # count /\ pc' = "receive" /\ result' = result
      BY <1>1, <1>2, <1>5, <1>7, <1>11
    <2>2. ListAt(c)'
      <3>1. me'.x >= 1
        BY <1>2, <1>9
      <3>2. Kept(c)' = Kept(c)
        BY <1>5 DEF Kept
      <3> QED BY <1>1, <1>5, <1>9, <1>10, <1>11, <2>1, <3>1 DEF ListAt, Kept
    <2>3. \E b \in Nat : Chain(ListLinks(it'.count), out', b, it'.sent) /\ ListAt(b)'
      BY <1>1, <1>4, <1>5, <2>2 DEF ListAt
    <2> QED BY <1>1, <1>8, <1>9, <2>1, <2>3 DEF ODlistInv, ListAt
  <1>12. CASE ~(m.Fragments > 0 /\ me'.x <= SI!MaxRounds)
    <2>1. pc' = "done" /\ result' = "ok"
      BY <1>1, <1>12
    <2>2. Kept(c) = Kept(count)
      <3>1. CASE ~(m.Fragments > 0)
        <4>1. c = count
          BY <1>2, <1>5, <1>7, <3>1
        <4> QED BY <4>1
      <3>2. CASE ~(me'.x <= SI!MaxRounds) /\ c # count
        <4>1. me.x = SI!MaxRounds
          <5>1. me.x <= SI!MaxRounds
            BY <1>2, <1>6 DEF SI!MaxRounds
          <5> QED BY <1>2, <1>9, <3>2, <5>1 DEF SI!MaxRounds
        <4>2. c = 129 * PerFrame - 1
          <5>1. me.x + 1 = 129
            BY <4>1 DEF SI!MaxRounds
          <5> QED BY <1>10, <3>2, <5>1
        <4>3. c >= EC_MAXODLIST /\ count >= EC_MAXODLIST
          <5> DEFINE p == 129 * PerFrame
          <5>1. p \in Nat /\ p > EC_MAXODLIST
            BY DEF InfoAssumption
          <5>2. c = p - 1
            BY <4>2
          <5> HIDE DEF p
          <5> QED BY <1>2, <1>5, <5>1, <5>2 DEF InfoAssumption
        <4>4. SI!Least(c, EC_MAXODLIST) = SI!Least(count, EC_MAXODLIST)
          BY <1>2, <1>5, <4>3 DEF SI!Least, InfoAssumption
        <4> QED BY <4>4 DEF Kept
      <3> QED BY <1>12, <3>1, <3>2
    <2> QED BY <1>1, <1>8, <1>9, <2>1, <2>2 DEF ODlistInv, Kept
  <1> QED BY <1>11, <1>12

\* The other steps of the call and of its slave.
LEMMA ListStep ==
  ASSUME InfoAssumption, ODlistInv,
         SI!SendODlist \/ SI!RecvODlistOther \/ SI!ODlistTimeout
  PROVE  ODlistInv'
  <1>1. CASE SI!SendODlist
    <2>1. /\ pc = "request" /\ UNCHANGED <<me, out, it>>
          /\ \/ pc' = "receive" /\ result' = result
             \/ pc' = "done" /\ result' = "failed"
      BY <1>1 DEF SI!SendODlist, SI!At, SI!Post, SI!Stay, SI!Failed, SI!Return
    <2> QED BY <2>1 DEF ODlistInv, ListAt
  <1>2. CASE SI!RecvODlistOther
    <2>1. UNCHANGED <<me, in, it>> /\ pc' = "done" /\ result' = "ERROR"
      BY <1>2 DEF SI!RecvODlistOther, SI!Return
    <2> QED BY <2>1 DEF ODlistInv
  <1>3. CASE SI!ODlistTimeout
    <2>1. UNCHANGED <<me, in, it>> /\ pc' = "done" /\ result' = "failed"
      BY <1>3 DEF SI!ODlistTimeout, SI!Failed, SI!Return
    <2> QED BY <2>1 DEF ODlistInv
  <1> QED BY <1>1, <1>2, <1>3

LEMMA ListSlaveStep ==
  ASSUME InfoAssumption, ODlistInv, it.service = "ODlist",
         SI!SlaveODlist \/ SI!SlaveODlistMore \/ SI!SlaveStray
  PROVE  ODlistInv'
  <1>0. /\ it \in [service : {"ODlist"}, count : Nat, sent : Nat, busy : BOOLEAN]
        /\ it.count \in Nat /\ it.sent \in Nat /\ it.sent <= it.count
    BY DEF ODlistInv
  <1>1. ASSUME NEW m, NEW c \in Nat, c <= it.count, UNCHANGED <<pc, me, result>>,
               out' = Append(out, m), Link(m, it.sent, c) \in ListLinks(it.count),
               it' \in [service : {"ODlist"}, count : {it.count}, sent : {c}, busy : BOOLEAN]
        PROVE  ODlistInv'
    <2>1. it'.count = it.count /\ it'.sent = c
      BY <1>1
    <2>2. ASSUME pc # "done"
          PROVE  \E a \in Nat : Chain(ListLinks(it'.count), out', a, it'.sent) /\ ListAt(a)'
      <3>1. PICK a \in Nat : Chain(ListLinks(it.count), out, a, it.sent) /\ ListAt(a)
        BY <2>2 DEF ODlistInv
      <3>2. Chain(ListLinks(it'.count), out', a, c)
        BY <1>1, <2>1, <3>1, ChainAppend
      <3> QED BY <1>1, <2>1, <3>1, <3>2 DEF ListAt
    <2>3. it' \in [service : {"ODlist"}, count : Nat, sent : Nat, busy : BOOLEAN]
      BY <1>0, <1>1
    <2> QED BY <1>1, <2>1, <2>2, <2>3 DEF ODlistInv, ListAt
  <1>2. CASE SI!SlaveODlist \/ SI!SlaveODlistMore
    <2> DEFINE n == Words(it.count, it.sent)
               c == it.sent + n
    <2>1. SI!Fragment = ListPart(it.count, it.sent)
      BY DEF SI!Fragment, ListPart, Words, Listed
    <2>2. n \in Nat /\ c \in Nat /\ c <= it.count
          /\ SI!Fragment.Fragments = it.count - it.sent - n
      <3>1. n \in Nat /\ it.sent + n <= it.count
        BY <1>0, WordsAre
      <3>2. ListPart(it.count, it.sent).Fragments = it.count - it.sent - n
        BY DEF ListPart
      <3> QED BY <1>0, <2>1, <3>1, <3>2
    <2>3. it.count - SI!Fragment.Fragments = c
      BY <1>0, <2>2
    <2> HIDE DEF n
    <2>4. SI!Sent = [it EXCEPT !.sent = c, !.busy = c < it.count]
      BY <2>3, Zenon DEF SI!Sent
    <2>5. /\ UNCHANGED <<pc, me, result>> /\ it' = [it EXCEPT !.sent = c, !.busy = c < it.count]
          /\ out' = Append(out, ListPart(it.count, it.sent))
      BY <1>2, <2>1, <2>4 DEF SI!SlaveODlist, SI!SlaveODlistMore, SI!Answer, SI!master
    <2>6. Link(ListPart(it.count, it.sent), it.sent, c) \in ListLinks(it.count)
      BY <1>0 DEF ListLinks, n
    <2>7. it' \in [service : {"ODlist"}, count : {it.count}, sent : {c}, busy : BOOLEAN]
      <3>1. (c < it.count) \in BOOLEAN
        OBVIOUS
      <3>2. it \in [service : {"ODlist"}, count : {it.count}, sent : Nat, busy : BOOLEAN]
        BY <1>0
      <3> HIDE DEF c
      <3> QED BY <2>5, <3>1, <3>2
    <2> QED BY <1>1, <2>2, <2>5, <2>6, <2>7
  <1>3. CASE SI!SlaveStray
    <2>1. PICK m \in SI!Stray : /\ UNCHANGED <<pc, me, result, it>>
                               /\ out' = Append(out, m)
      BY <1>3 DEF SI!SlaveStray, SI!Answer, SI!master
    <2>2. Link(m, it.sent, it.sent) \in ListLinks(it.count)
      BY <1>0 DEF ListLinks
    <2>3. it' \in [service : {"ODlist"}, count : {it.count}, sent : {it.sent}, busy : BOOLEAN]
      BY <1>0, <2>1
    <2> QED BY <1>0, <1>1, <2>1, <2>2, <2>3
  <1> QED BY <1>2, <1>3

-------------------------------------------------------------------------------
(* ecx_readOE *)

EntryMails == SI!Stray \cup [op : {"oeres"}, sub : Nat]
EntryType(entries) ==
    [service : {"OE"}, MaxSub : Nat, sub : Nat, Entries : Nat, entry : {entries}]

\* The only mail that answers a request is the last one, and it is that of the
\* subindex which was asked last.
OwnAnswer ==
    \A j \in DOMAIN out :
       \/ out[j] \in SI!Stray
       \/ out[j].op = "oeres" /\ out[j].sub = me.sub /\ in = None /\ j = Len(out)
NoAnswer == in = None /\ \A j \in DOMAIN out : out[j] \in SI!Stray

\* As long as every subindex was answered, the entries are theirs, ...
EntriesRun ==
    /\ me.Entries <= me.sub
    /\ me.Entries = me.sub =>
         /\ \A s \in 0 .. me.sub - 1 : me.entry[s] = s
         /\ pc \in {"request", "drain"} => NoAnswer
         /\ pc = "receive" => OwnAnswer /\ (in = None \/ in.sub = me.sub)
\* ... and they are at the end.
EntriesEnd ==
    me.Entries = me.MaxSub + 1 => \A s \in 0 .. me.MaxSub : me.entry[s] = s

EntryInv ==
    /\ pc \in {"drain", "request", "receive", "done"}
    /\ me \in EntryType(me.entry) /\ me.sub <= me.MaxSub
    /\ me.entry = [s \in 0 .. me.MaxSub |-> me.entry[s]]
    /\ it.service = "OE"
    /\ in = None \/ in \in [op : {"oe"}, sub : Nat]
    /\ out \in Seq(EntryMails)
    /\ IF pc = "done" THEN EntriesEnd ELSE EntriesRun

LEMMA EntryCall ==
  ASSUME in = None, SI!CallOE
  PROVE  EntryInv'
  <1>1. PICK MaxSub \in 0 .. MaxSubs :
           SI!Begin([service |-> "OE", MaxSub |-> MaxSub, sub |-> 0, Entries |-> 0,
                     entry |-> [s \in 0 .. MaxSub |-> None]],
                    [service |-> "OE"], SI!Stray)
    BY DEF SI!CallOE
  <1>2. /\ MaxSub \in Nat /\ pc' = "request" /\ in' = None
        /\ me' = [service |-> "OE", MaxSub |-> MaxSub, sub |-> 0, Entries |-> 0,
                  entry |-> [s \in 0 .. MaxSub |-> None]]
        /\ it' = [service |-> "OE"]
        /\ out' = <<>> \/ \E m \in SI!Stray : out' = <<m>>
    BY <1>1 DEF SI!Begin
  <1>3. out' \in Seq(EntryMails) /\ \A j \in DOMAIN out' : out'[j] \in SI!Stray
    <2>1. CASE out' = <<>>
      BY <2>1
    <2>2. ASSUME NEW S, NEW T, NEW m \in S, out' = <<m>>
          PROVE  out' \in Seq(S \cup T) /\ \A j \in DOMAIN out' : out'[j] \in S
      BY <2>2
    <2> QED BY <1>2, <2>1, <2>2 DEF EntryMails
  <1>4. me' \in EntryType(me'.entry) /\ me'.sub = 0 /\ me'.Entries = 0 /\ me'.MaxSub = MaxSub
        /\ me'.entry = [s \in 0 .. MaxSub |-> None]
    BY <1>2 DEF EntryType
  <1>5. me'.entry = [s \in 0 .. MaxSub |-> me'.entry[s]]
    BY <1>4
  <1>6. EntriesRun'
    BY <1>2, <1>3, <1>4 DEF EntriesRun, NoAnswer
  <1>7. me'.sub <= me'.MaxSub
    BY <1>2, <1>4
  <1> QED BY <1>2, <1>3, <1>4, <1>5, <1>6, <1>7 DEF EntryInv

\* What the master takes out of the queue.
LEMMA EntryTaken ==
  ASSUME out \in Seq(EntryMails), out # <<>>
  PROVE  /\ Head(out) \in EntryMails /\ Head(out) = out[1] /\ 1 \in DOMAIN out
         /\ Tail(out) \in Seq(EntryMails)
         /\ Len(out) = 1 => Tail(out) = <<>>
         /\ \A j \in DOMAIN Tail(out) : j + 1 \in DOMAIN out /\ Tail(out)[j] = out[j + 1]
  <1> DEFINE S == EntryMails
  <1>1. out \in Seq(S)
    OBVIOUS
  <1> HIDE DEF S
  <1>2. /\ Head(out) \in S /\ Head(out) = out[1] /\ 1 \in DOMAIN out
        /\ Tail(out) \in Seq(S)
        /\ \A j \in DOMAIN Tail(out) : j + 1 \in DOMAIN out /\ Tail(out)[j] = out[j + 1]
    BY <1>1
  <1>3. Len(out) = 1 => Tail(out) = <<>>
    <2>1. Tail(out) \in Seq(S) /\ Len(Tail(out)) = Len(out) - 1
      BY <1>1, HeadTailProperties
    <2>2. \A s \in Seq(S) : s # <<>> => Len(s) \in Nat \ {0}
      BY EmptySeq
    <2>3. Len(out) = 1 => Len(Tail(out)) \notin Nat \ {0}
      BY <2>1
    <2> QED BY <2>1, <2>2, <2>3
  <1> QED BY <1>2, <1>3 DEF S

\* A subindex that was not answered: there will not be an entry for each.
LEMMA EntryMissed ==
  ASSUME EntryInv, pc # "done", it' = it, SI!NextSub(me, "failed") \/ SI!NextSub(me, "ERROR"),
         in' = None \/ in' \in [op : {"oe"}, sub : Nat], out' \in Seq(EntryMails)
  PROVE  EntryInv'
  <1>1. /\ me \in EntryType(me.entry) /\ me.sub \in Nat /\ me.MaxSub \in Nat
        /\ me.Entries \in Nat /\ me.Entries <= me.sub /\ me.sub <= me.MaxSub
        /\ me.entry = [s \in 0 .. me.MaxSub |-> me.entry[s]]
    BY DEF EntryInv, EntriesRun, EntryType
  <1>2. CASE me.sub < me.MaxSub
    <2>1. me' = [me EXCEPT !.sub = @ + 1] /\ pc' = "drain"
      BY <1>2 DEF SI!NextSub, SI!Stay
    <2>2. /\ me' \in EntryType(me.entry) /\ me'.sub = me.sub + 1 /\ me'.Entries = me.Entries
          /\ me'.MaxSub = me.MaxSub /\ me'.entry = me.entry
      <3>1. ASSUME NEW e, NEW x \in EntryType(e)
            PROVE  LET y == [x EXCEPT !.sub = @ + 1]
                   IN  /\ y \in EntryType(e) /\ y.sub = x.sub + 1 /\ y.Entries = x.Entries
                       /\ y.MaxSub = x.MaxSub /\ y.entry = x.entry
        BY DEF EntryType
      <3>2. me \in EntryType(me.entry)
        BY <1>1
      <3> QED BY <2>1, <3>1, <3>2, Zenon
    <2>3. me'.Entries < me'.sub /\ me'.sub <= me'.MaxSub
      BY <1>1, <1>2, <2>2
    <2>4. EntriesRun'
      BY <1>1, <2>2, <2>3 DEF EntriesRun
    <2> QED BY <1>1, <2>1, <2>2, <2>3, <2>4 DEF EntryInv
  <1>3. CASE ~(me.sub < me.MaxSub)
    <2>1. me' = me /\ pc' = "done"
      BY <1>3 DEF SI!NextSub, SI!Return
    <2>2. me.Entries # me.MaxSub + 1
      BY <1>1
    <2>3. EntriesEnd'
      BY <2>1, <2>2 DEF EntriesEnd
    <2> QED BY <1>1, <2>1, <2>3 DEF EntryInv
  <1> QED BY <1>2, <1>3

\* The entry of a subindex comes.
LEMMA EntryComes ==
  ASSUME EntryInv, SI!RecvOE
  PROVE  EntryInv'
  <1> DEFINE m == Head(out)
             f == [me.entry EXCEPT ![me.sub] = m.sub]
             got == [me EXCEPT !.Entries = @ + 1, !.entry[me.sub] = m.sub]
  <1>1. /\ pc = "receive" /\ UNCHANGED <<in, it>> /\ out # <<>> /\ out' = Tail(out)
        /\ m.op = "oeres" /\ SI!NextSub(got, "ok")
    BY DEF SI!RecvOE, SI!Reply, SI!At, SI!Take
  <1>2. /\ me \in EntryType(me.entry) /\ me.sub \in Nat /\ me.MaxSub \in Nat
        /\ me.Entries \in Nat /\ me.Entries <= me.sub /\ me.sub <= me.MaxSub
        /\ me.entry = [s \in 0 .. me.MaxSub |-> me.entry[s]]
        /\ out \in Seq(EntryMails) /\ EntriesRun
    BY <1>1 DEF EntryInv, EntriesRun, EntryType
  <1>3. /\ Tail(out) \in Seq(EntryMails) /\ m = out[1] /\ 1 \in DOMAIN out
        /\ Len(out) = 1 => Tail(out) = <<>>
    BY <1>1, <1>2, EntryTaken
  <1>4. m \notin SI!Stray
    BY <1>1 DEF SI!Stray
  <1>5. me.Entries = me.sub =>
           m.sub = me.sub /\ in = None /\ Tail(out) = <<>>
    <2>1. ASSUME me.Entries = me.sub PROVE m.sub = me.sub /\ in = None /\ 1 = Len(out)
      <3>1. OwnAnswer
        BY <1>1, <1>2, <2>1 DEF EntriesRun
      <3> QED BY <1>3, <1>4, <3>1 DEF OwnAnswer
    <2> QED BY <1>3, <2>1
  <1>6. /\ f = [s \in 0 .. me.MaxSub |-> IF s = me.sub THEN m.sub ELSE me.entry[s]]
        /\ got = [me EXCEPT !.Entries = me.Entries + 1, !.entry = f]
    BY <1>2 DEF EntryType
  <1> HIDE DEF f, got, m
  <1>7. /\ got \in EntryType(f) /\ got.sub = me.sub /\ got.MaxSub = me.MaxSub
        /\ got.Entries = me.Entries + 1 /\ got.entry = f
        /\ me.Entries + 1 \in Nat
    BY <1>2, <1>6 DEF EntryType
  <1>8. me.Entries = me.sub => \A s \in 0 .. me.sub : f[s] = s
    <2>1. ASSUME me.Entries = me.sub, NEW s \in 0 .. me.sub
          PROVE  f[s] = s
      <3>1. s \in 0 .. me.MaxSub /\ (s = me.sub \/ s \in 0 .. me.sub - 1)
        BY <1>2
      <3>2. m.sub = me.sub /\ \A t \in 0 .. me.sub - 1 : me.entry[t] = t
        BY <1>2, <1>5, <2>1 DEF EntriesRun
      <3>3. f[s] = IF s = me.sub THEN m.sub ELSE me.entry[s]
        BY <1>6, <3>1
      <3> QED BY <3>1, <3>2, <3>3
    <2> QED BY <2>1
  <1>9. f = [s \in 0 .. me.MaxSub |-> f[s]]
    BY <1>6
  <1>10. CASE me.sub < me.MaxSub
    <2>1. me' = [got EXCEPT !.sub = me.sub + 1] /\ pc' = "drain"
      BY <1>1, <1>7, <1>10 DEF SI!NextSub, SI!Stay
    <2>2. /\ me' \in EntryType(f) /\ me'.sub = me.sub + 1 /\ me'.Entries = me.Entries + 1
          /\ me'.MaxSub = me.MaxSub /\ me'.entry = f
      BY <1>2, <1>7, <2>1 DEF EntryType
    <2>3. /\ me'.Entries <= me'.sub /\ me'.sub <= me'.MaxSub
          /\ (me'.Entries = me'.sub => me.Entries = me.sub)
          /\ \A s \in 0 .. me'.sub - 1 : s \in 0 .. me.sub
      BY <1>2, <1>10, <2>2
    <2>4. me'.Entries = me'.sub => NoAnswer'
      BY <1>1, <1>5, <2>3 DEF NoAnswer
    <2>5. me'.Entries = me'.sub => \A s \in 0 .. me'.sub - 1 : me'.entry[s] = s
      <3>1. me'.Entries = me'.sub => \A s \in 0 .. me'.sub - 1 : f[s] = s
        BY <1>8, <2>3
      <3> QED BY <2>2, <3>1
    <2>6. pc' # "receive"
      BY <2>1
    <2>7. EntriesRun'
      BY <2>3, <2>4, <2>5, <2>6 DEF EntriesRun
    <2>8. /\ me' \in EntryType(me'.entry) /\ me'.sub <= me'.MaxSub
          /\ me'.entry = [s \in 0 .. me'.MaxSub |-> me'.entry[s]]
      BY <1>9, <2>2, <2>3
    <2>9. /\ it.service = "OE" /\ (in = None \/ in \in [op : {"oe"}, sub : Nat])
      BY DEF EntryInv
    <2> QED BY <1>1, <1>3, <2>1, <2>7, <2>8, <2>9 DEF EntryInv
  <1>11. CASE ~(me.sub < me.MaxSub)
    <2>1. me' = got /\ pc' = "done"
      BY <1>1, <1>7, <1>11 DEF SI!NextSub, SI!Return
    <2>2. me.sub = me.MaxSub
      BY <1>2, <1>11
    <2>3. me.Entries + 1 = me.MaxSub + 1 => me.Entries = me.sub
      BY <1>2, <2>2
    <2>4. EntriesEnd'
      BY <1>7, <1>8, <2>1, <2>2, <2>3 DEF EntriesEnd
    <2> QED BY <1>1, <1>2, <1>3, <1>7, <1>9, <2>1, <2>4 DEF EntryInv
  <1> QED BY <1>10, <1>11

\* The other steps of the call and of its slave.
LEMMA EntryStep ==
  ASSUME EntryInv, SI!DrainOE \/ SI!SendOE \/ SI!RecvOEOther \/ SI!OETimeout
  PROVE  EntryInv'
  <1>0. /\ me \in EntryType(me.entry) /\ me.sub \in Nat
        /\ in = None \/ in \in [op : {"oe"}, sub : Nat]
        /\ out \in Seq(EntryMails)
    BY DEF EntryInv, EntryType
  <1>1. out # <<>> => Tail(out) \in Seq(EntryMails)
    BY <1>0, EntryTaken
  <1>2. CASE SI!DrainOE
    <2>1. /\ pc = "drain" /\ pc' = "request" /\ UNCHANGED <<me, in, it>>
          /\ out' = out \/ (out # <<>> /\ out' = Tail(out))
      BY <1>2 DEF SI!DrainOE, SI!At, SI!Stay
    <2>2. out' \in Seq(EntryMails)
      BY <1>0, <1>1, <2>1
    <2>3. NoAnswer => NoAnswer'
      <3>1. CASE out' = out
        BY <2>1, <3>1 DEF NoAnswer
      <3>2. CASE out # <<>> /\ out' = Tail(out)
        <4>1. \A j \in DOMAIN Tail(out) : j + 1 \in DOMAIN out /\ Tail(out)[j] = out[j + 1]
          BY <1>0, <3>2, EntryTaken
        <4> QED BY <2>1, <3>2, <4>1 DEF NoAnswer
      <3> QED BY <2>1, <3>1, <3>2
    <2>4. EntriesRun'
      <3>1. EntriesRun
        BY <2>1 DEF EntryInv
      <3> QED BY <2>1, <2>3, <3>1 DEF EntriesRun
    <2> QED BY <2>1, <2>2, <2>4 DEF EntryInv
  <1>3. CASE SI!SendOE
    <2> DEFINE m == [op |-> "oe", sub |-> me.sub]
    <2>1. /\ pc = "request" /\ UNCHANGED <<out, it>>
          /\ \/ /\ in = None /\ in' = m /\ pc' = "receive" /\ UNCHANGED <<me, result>>
             \/ /\ in' \in {in} \cup (IF in = None THEN {m} ELSE {})
                /\ SI!NextSub(me, "failed")
      BY <1>3 DEF SI!SendOE, SI!At, SI!Post, SI!Stay
    <2>2. m \in [op : {"oe"}, sub : Nat] /\ m.sub = me.sub
      BY <1>0
    <2> HIDE DEF m
    <2>3. CASE in = None /\ in' = m /\ pc' = "receive" /\ UNCHANGED <<me, result>>
      <3>1. EntriesRun
        BY <2>1 DEF EntryInv
      <3>2. NoAnswer => OwnAnswer'
        BY <2>1 DEF NoAnswer, OwnAnswer
      <3>3. EntriesRun'
        BY <2>1, <2>2, <2>3, <3>1, <3>2 DEF EntriesRun
      <3> QED BY <2>1, <2>2, <2>3, <3>3 DEF EntryInv
    <2>4. CASE /\ in' \in {in} \cup (IF in = None THEN {m} ELSE {})
               /\ SI!NextSub(me, "failed")
      <3>1. in' = None \/ in' \in [op : {"oe"}, sub : Nat]
        BY <1>0, <2>2, <2>4
      <3> QED BY <1>0, <2>1, <2>4, <3>1, EntryMissed
    <2> QED BY <2>1, <2>3, <2>4
  <1>4. CASE SI!RecvOEOther
    <2>1. /\ pc = "receive" /\ UNCHANGED <<in, it>> /\ out # <<>> /\ out' = Tail(out)
          /\ SI!NextSub(me, "ERROR")
      BY <1>4 DEF SI!RecvOEOther, SI!Reply, SI!At, SI!Take
    <2> QED BY <1>0, <1>1, <2>1, EntryMissed
  <1>5. CASE SI!OETimeout
    <2>1. /\ pc = "receive" /\ UNCHANGED <<in, it>> /\ SI!NextSub(me, "failed")
          /\ out' = out \/ (out # <<>> /\ out' = Tail(out))
      BY <1>5 DEF SI!OETimeout, SI!At, SI!Miss
    <2>2. out' \in Seq(EntryMails)
      BY <1>0, <1>1, <2>1
    <2> QED BY <1>0, <2>1, <2>2, EntryMissed
  <1> QED BY <1>2, <1>3, <1>4, <1>5

LEMMA EntrySlaveStep ==
  ASSUME EntryInv, it.service = "OE", SI!SlaveInfo \/ SI!SlaveStray
  PROVE  EntryInv'
  <1>1. PICK m : /\ UNCHANGED <<pc, me, result, it>> /\ in # None /\ in' = None
                 /\ out' = Append(out, m)
                 /\ m \in SI!Stray \/ m = [op |-> "oeres", sub |-> in.sub]
    BY DEF SI!SlaveInfo, SI!SlaveStray, SI!Asked, SI!Answer, SI!master
  <1>2. out \in Seq(EntryMails) /\ in.sub \in Nat
    BY <1>1 DEF EntryInv
  <1>3. m \in EntryMails
    BY <1>1, <1>2 DEF EntryMails
  <1> DEFINE S == EntryMails
  <1>4. out \in Seq(S) /\ m \in S
    BY <1>2, <1>3
  <1> HIDE DEF S
  <1>5. /\ out' \in Seq(S) /\ Len(out') = Len(out) + 1 /\ Len(out) \in Nat
        /\ DOMAIN out = 1 .. Len(out) /\ DOMAIN out' = 1 .. Len(out) + 1
        /\ \A j \in 1 .. Len(out) : out'[j] = out[j]
        /\ out'[Len(out) + 1] = m
    BY <1>1, <1>4
  <1>6. EntriesRun => EntriesRun'
    <2> SUFFICES ASSUME EntriesRun, me.Entries = me.sub, pc \in {"request", "drain", "receive"}
                 PROVE  pc = "receive" /\ OwnAnswer'
      BY <1>1 DEF EntriesRun
    <2>1. pc = "receive" /\ OwnAnswer /\ in.sub = me.sub
      BY <1>1 DEF EntriesRun, NoAnswer
    <2>2. \A j \in DOMAIN out : out[j] \in SI!Stray
      BY <1>1, <2>1 DEF OwnAnswer
    <2>3. ASSUME NEW j \in DOMAIN out'
          PROVE  \/ out'[j] \in SI!Stray
                 \/ /\ out'[j].op = "oeres" /\ out'[j].sub = me.sub
                    /\ j = Len(out')
      <3>1. CASE j \in 1 .. Len(out)
        BY <1>5, <2>2, <3>1
      <3>2. CASE j = Len(out) + 1
        BY <1>1, <1>5, <2>1, <3>2
      <3> QED BY <1>5, <3>1, <3>2
    <2> QED BY <1>1, <2>1, <2>3 DEF OwnAnswer
  <1>7. EntriesEnd => EntriesEnd'
    BY <1>1 DEF EntriesEnd
  <1> QED BY <1>1, <1>5, <1>6, <1>7 DEF EntryInv, S
===============================================================================
