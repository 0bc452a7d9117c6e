---------------------------- MODULE Transfer_proofs ---------------------------
(* The transfers of IDN values and of Ethernet frames keep their invariants;    *)
(* with those of Objects_proofs they make the invariant of MCTransfer, whatever *)
(* call the application makes after which.                                      *)
EXTENDS Objects_proofs

-------------------------------------------------------------------------------
(* ecx_SoEread *)

\* How much of the fragment behind the first p bytes, and the fragment.
IdnPiece(size, p) == SE!Least(SoEdata, size - p)
IdnPart(size, p) ==
    [op |-> "readres", data |-> SE!Bytes(p, IdnPiece(size, p)),
     incomplete |-> p + IdnPiece(size, p) < size]
IdnLinks(size) ==
    {Link(m, p, p) : m \in SE!Stray, p \in 0 .. size}
    \cup {Link(IdnPart(size, p), p, p + IdnPiece(size, p)) : p \in 0 .. size}

\* What a buffer holds of the first p bytes.
Held(p) == Prefix(SE!Least(p, me.bufsize))

IdnReadInv ==
    /\ pc \in {"request", "receive", "done"}
    /\ me \in [service : {"SoEread"}, bufsize : Nat, buffer : Seq(Nat)]
    /\ it \in [service : {"SoEread"}, size : Nat, sent : Nat, busy : BOOLEAN]
    /\ it.sent <= it.size /\ Len(me.buffer) <= me.bufsize
    /\ result = "ok" => me.buffer = Held(it.size)
    /\ pc # "done" => /\ result # "ok"
                      /\ \E a \in Nat : /\ Chain(IdnLinks(it.size), out, a, it.sent)
                                        /\ a <= it.size /\ me.buffer = Held(a)

LEMMA IdnPieceIs ==
  ASSUME SoEAssumption, NEW size \in Nat, NEW p \in Nat, p <= size
  PROVE  IdnPiece(size, p) \in Nat /\ p + IdnPiece(size, p) <= size
  BY DEF IdnPiece, SE!Least, SoEAssumption

LEMMA IdnLink ==
  ASSUME SoEAssumption, NEW size \in Nat, NEW m, NEW a, NEW c,
         Link(m, a, c) \in IdnLinks(size)
  PROVE  /\ a \in Nat /\ c \in Nat /\ a <= size
         /\ m.op = "readres" => m = IdnPart(size, a) /\ c = a + IdnPiece(size, a)
  <1>1. CASE Link(m, a, c) \in {Link(s, p, p) : s \in SE!Stray, p \in 0 .. size}
    <2>1. PICK s \in SE!Stray, p \in 0 .. size : Link(m, a, c) = Link(s, p, p)
      BY <1>1
    <2>2. m = s /\ a = p /\ c = p
      BY <2>1, LinkParts
    <2>3. m.op # "readres"
      BY <2>2 DEF SE!Stray
    <2> QED BY <2>2, <2>3
  <1>2. CASE Link(m, a, c) \in {Link(IdnPart(size, p), p, p + IdnPiece(size, p)) :
                                   p \in 0 .. size}
    <2>1. PICK p \in 0 .. size :
             Link(m, a, c) = Link(IdnPart(size, p), p, p + IdnPiece(size, p))
      BY <1>2
    <2>2. m = IdnPart(size, p) /\ a = p /\ c = p + IdnPiece(size, p)
      BY <2>1, LinkParts
    <2>3. IdnPiece(size, p) \in Nat
      BY IdnPieceIs
    <2> QED BY <2>2, <2>3
  <1> QED BY <1>1, <1>2 DEF IdnLinks

\* What is cut off at the end of the buffer stays cut off.
LEMMA HeldGrows ==
  ASSUME NEW a \in Nat, NEW n \in Nat, NEW b \in Nat
  PROVE  LET h == Prefix(SE!Least(a, b))
             t == SE!Bytes(a, n)
         IN  /\ h \in Seq(Nat) /\ Len(h) <= b /\ Len(t) = n
             /\ SubSeq(h \o t, 1, SE!Least(b, Len(h) + n)) = Prefix(SE!Least(a + n, b))
  <1> DEFINE k == SE!Least(a, b)
             h == Prefix(k)
             t == SE!Bytes(a, n)
             q == SE!Least(b, k + n)
  <1>1. /\ k \in Nat /\ k <= b /\ q \in Nat /\ q <= k + n /\ q = SE!Least(a + n, b)
        /\ (a = k \/ q = k)
    BY DEF SE!Least
  <1>2. t \in Seq(Nat) /\ Len(t) = n /\ t = [j \in 1 .. n |-> a + j]
    BY DEF SE!Bytes
  <1> HIDE DEF k, t, q
  <1>3. h \in Seq(Nat) /\ Len(h) = k
    BY <1>1 DEF Prefix
  <1>4. CASE a = k
    <2>1. h \o t = Prefix(k + n)
      BY <1>1, <1>2, <1>4, PrefixGrows
    <2>2. SubSeq(Prefix(k + n), 1, q) = Prefix(q)
      <3>1. k + n \in Nat
        BY <1>1
      <3> QED BY <1>1, <3>1, PrefixOfPrefix
    <2> QED BY <1>1, <1>2, <1>3, <2>1, <2>2 DEF k, t, q
  <1>5. CASE q = k
    <2>1. /\ h \o t \in Seq(Nat) /\ Len(h \o t) = k + n
          /\ \A j \in 1 .. k : (h \o t)[j] = h[j]
      <3>1. /\ h \o t \in Seq(Nat) /\ Len(h \o t) = Len(h) + Len(t)
            /\ \A j \in 1 .. Len(h) + Len(t) :
                  (h \o t)[j] = IF j <= Len(h) THEN h[j] ELSE t[j - Len(h)]
        BY <1>2, <1>3, ConcatProperties, Zenon
      <3> HIDE DEF h
      <3> QED BY <1>1, <1>2, <1>3, <3>1
    <2> DEFINE u == h \o t
    <2>2. u \in Seq(Nat) /\ Len(u) = k + n /\ \A j \in 1 .. k : u[j] = h[j] /\ h[j] \in Nat
      BY <1>3, <2>1
    <2> HIDE DEF u, h
    <2>3. /\ SubSeq(u, 1, k) \in Seq(Nat) /\ Len(SubSeq(u, 1, k)) = k
          /\ \A j \in 1 .. k : SubSeq(u, 1, k)[j] = h[j]
      <3>1. \A j \in 1 .. k : u[j] \in Nat
        BY <2>2
      <3> QED BY <1>1, <2>2, <3>1, SubSeqProperties
    <2>4. SubSeq(u, 1, k) = h
      BY <1>3, <2>3, SeqEqual
    <2> QED BY <1>1, <1>2, <1>3, <1>5, <2>4 DEF u, k, t, q, h
  <1> QED BY <1>1, <1>4, <1>5

LEMMA IdnReadCall ==
  ASSUME SoEAssumption, result # "ok", SE!CallRead
  PROVE  IdnReadInv'
  <1>1. PICK size \in SoELengths, bufsize \in SoELengths :
           SE!Begin([service |-> "SoEread", bufsize |-> bufsize, buffer |-> <<>>],
                    [service |-> "SoEread", size |-> size, sent |-> 0, busy |-> FALSE],
                    SE!Stray)
    BY DEF SE!CallRead
  <1>2. /\ size \in Nat /\ bufsize \in Nat /\ pc' = "request" /\ result' = result
        /\ me' = [service |-> "SoEread", bufsize |-> bufsize, buffer |-> <<>>]
        /\ it' = [service |-> "SoEread", size |-> size, sent |-> 0, busy |-> FALSE]
        /\ out' = <<>> \/ \E m \in SE!Stray : out' = <<m>>
    BY <1>1 DEF SE!Begin, SoEAssumption
  <1>3. Chain(IdnLinks(size), out', 0, 0)
    <2>1. CASE out' = <<>>
      BY <2>1, ChainEmpty
    <2>2. ASSUME NEW m \in SE!Stray, out' = <<m>>
          PROVE  Chain(IdnLinks(size), out', 0, 0)
      <3>1. Link(m, 0, 0) \in IdnLinks(size)
        BY <1>2 DEF IdnLinks
      <3> QED BY <2>2, <3>1, ChainOne
    <2> QED BY <1>2, <2>1, <2>2
  <1>4. SE!Least(0, bufsize) = 0 /\ Prefix(0) = <<>> /\ Len(<<>>) = 0
    BY <1>2 DEF SE!Least, Prefix
  <1>5. me'.buffer = Held(0)' /\ it'.size = size /\ it'.sent = 0
        /\ Len(me'.buffer) <= me'.bufsize
    BY <1>2, <1>4 DEF Held
  <1>6. \E a \in Nat : /\ Chain(IdnLinks(it'.size), out', a, it'.sent)
                       /\ a <= it'.size /\ me'.buffer = Held(a)'
    BY <1>2, <1>3, <1>5
  <1> QED BY <1>2, <1>5, <1>6 DEF IdnReadInv

\* A fragment is taken, with what there is room for.
LEMMA IdnReadTakes ==
  ASSUME SoEAssumption, IdnReadInv, SE!RecvRead
  PROVE  IdnReadInv'
  <1> DEFINE m == Head(out)
             size == it.size
             b == me.bufsize
  <1>1. /\ pc = "receive" /\ UNCHANGED <<in, it>>
        /\ out # <<>> /\ out' = Tail(out) /\ m.op = "readres"
        /\ me' = [me EXCEPT !.buffer = SE!Copied(m)]
        /\ IF m.incomplete THEN pc' = "receive" /\ result' = result
                           ELSE pc' = "done" /\ result' = "ok"
    BY DEF SE!RecvRead, SE!Reply, SE!At, SE!Take, SE!Stay, SE!Return
  <1>2. /\ me \in [service : {"SoEread"}, bufsize : Nat, buffer : Seq(Nat)]
        /\ it \in [service : {"SoEread"}, size : Nat, sent : Nat, busy : BOOLEAN]
        /\ it.sent <= size /\ size \in Nat /\ b \in Nat /\ it.sent \in Nat /\ result # "ok"
    BY <1>1 DEF IdnReadInv
  <1>3. PICK a \in Nat : /\ Chain(IdnLinks(size), out, a, it.sent)
                         /\ a <= size /\ me.buffer = Held(a)
    BY <1>1 DEF IdnReadInv
  <1>4. PICK c : /\ Link(m, a, c) \in IdnLinks(size)
                 /\ Chain(IdnLinks(size), out', c, it.sent)
    BY <1>1, <1>3, ChainTail
  <1> DEFINE n == IdnPiece(size, a)
  <1>5. /\ m = IdnPart(size, a) /\ c = a + n /\ n \in Nat /\ c \in Nat /\ c <= size
    <2>1. m = IdnPart(size, a) /\ c = a + n
      BY <1>1, <1>2, <1>4, IdnLink
    <2>2. n \in Nat /\ a + n <= size
      BY <1>2, <1>3, IdnPieceIs
    <2> QED BY <2>1, <2>2
  <1>6. m.data = SE!Bytes(a, n) /\ (m.incomplete <=> c < size)
    <2>1. ASSUME NEW d, NEW z \in BOOLEAN, NEW r,
                 r = [op |-> "readres", data |-> d, incomplete |-> z]
          PROVE  r.data = d /\ (r.incomplete <=> z)
      BY <2>1
    <2> DEFINE z == a + n < size
    <2>2. z \in BOOLEAN
      OBVIOUS
    <2>3. m = [op |-> "readres", data |-> SE!Bytes(a, n), incomplete |-> z]
      BY <1>5 DEF IdnPart
    <2> HIDE DEF z, m, n
    <2>4. m.data = SE!Bytes(a, n) /\ (m.incomplete <=> z)
      BY <2>1, <2>2, <2>3
    <2> QED BY <1>5, <2>4 DEF z
  <1> HIDE DEF m, n
  <1>7. /\ SE!Copied(m) = Held(c) /\ Held(c) \in Seq(Nat) /\ Len(Held(c)) <= b
    <2> DEFINE h == Prefix(SE!Least(a, b))
    <2>1. /\ Len(h) <= b /\ Len(SE!Bytes(a, n)) = n
          /\ SubSeq(h \o SE!Bytes(a, n), 1, SE!Least(b, Len(h) + n))
               = Prefix(SE!Least(a + n, b))
      BY <1>2, <1>5, HeldGrows, Zenon
    <2>2. me.buffer = h
      BY <1>3 DEF Held
    <2>3. Prefix(SE!Least(c, b)) \in Seq(Nat) /\ Len(Prefix(SE!Least(c, b))) <= b
      BY <1>2, <1>5, HeldGrows
    <2> HIDE DEF h
    <2>4. SE!Copied(m) = SubSeq(h \o SE!Bytes(a, n), 1, SE!Least(b, Len(h) + n))
      BY <1>6, <2>1, <2>2 DEF SE!Copied
    <2> QED BY <1>5, <2>1, <2>3, <2>4 DEF Held
  <1>8. /\ me' \in [service : {"SoEread"}, bufsize : Nat, buffer : Seq(Nat)]
        /\ me'.buffer = Held(c) /\ me'.bufsize = b
    <2>1. me' = [me EXCEPT !.buffer = Held(c)]
      BY <1>1, <1>7
    <2> QED BY <1>2, <1>7, <2>1
  <1>9. \A k : Held(k)' = Held(k)
    BY <1>8 DEF Held
  <1>10. CASE c < size
    <2>1. pc' = "receive" /\ result' = result
      BY <1>1, <1>6, <1>10
    <2>2. \E k \in Nat : /\ Chain(IdnLinks(it'.size), out', k, it'.sent)
                         /\ k <= it'.size /\ me'.buffer = Held(k)'
      BY <1>1, <1>4, <1>5, <1>8, <1>9
    <2> QED BY <1>1, <1>2, <1>7, <1>8, <2>1, <2>2 DEF IdnReadInv
  <1>11. CASE ~(c < size)
    <2>1. pc' = "done" /\ c = size
      BY <1>1, <1>2, <1>5, <1>6, <1>11
    <2> QED BY <1>1, <1>2, <1>7, <1>8, <1>9, <2>1 DEF IdnReadInv
  <1> QED BY <1>10, <1>11

\* The other steps of the call and of its slave.
LEMMA IdnReadStep ==
  ASSUME IdnReadInv, SE!SendRead \/ SE!RecvReadOther \/ SE!ReadTimeout
  PROVE  IdnReadInv'
  <1>1. CASE SE!SendRead
    <2>1. /\ pc = "request" /\ UNCHANGED <<me, out, it>>
          /\ \/ pc' = "receive" /\ result' = result
             \/ pc' = "done" /\ result' = "failed"
      BY <1>1 DEF SE!SendRead, SE!At, SE!Post, SE!Stay, SE!Failed, SE!Return
    <2> QED BY <2>1 DEF IdnReadInv, Held
  <1>2. CASE SE!RecvReadOther
    <2>1. UNCHANGED <<me, in, it>> /\ pc' = "done" /\ result' = "ERROR"
      BY <1>2 DEF SE!RecvReadOther, SE!Return
    <2> QED BY <2>1 DEF IdnReadInv
  <1>3. CASE SE!ReadTimeout
    <2>1. UNCHANGED <<me, in, it>> /\ pc' = "done" /\ result' = "failed"
      BY <1>3 DEF SE!ReadTimeout, SE!Failed, SE!Return
    <2> QED BY <2>1 DEF IdnReadInv
  <1> QED BY <1>1, <1>2, <1>3

LEMMA IdnReadSlaveStep ==
  ASSUME SoEAssumption, IdnReadInv, SE!SlaveRead \/ SE!SlaveReadMore \/ SE!SlaveStray
  PROVE  IdnReadInv'
  <1>0. /\ it \in [service : {"SoEread"}, size : Nat, sent : Nat, busy : BOOLEAN]
        /\ it.size \in Nat /\ it.sent \in Nat /\ it.sent <= it.size
    BY DEF IdnReadInv
  <1>1. ASSUME NEW m, NEW c \in Nat, c <= it.size, UNCHANGED <<pc, me, result>>,
               out' = Append(out, m), Link(m, it.sent, c) \in IdnLinks(it.size),
               it' \in [service : {"SoEread"}, size : {it.size}, sent : {c}, busy : BOOLEAN]
        PROVE  IdnReadInv'
    <2>1. it'.size = it.size /\ it'.sent = c
      BY <1>1
    <2>2. ASSUME pc # "done"
          PROVE  \E a \in Nat : /\ Chain(IdnLinks(it'.size), out', a, it'.sent)
                                /\ a <= it'.size /\ me'.buffer = Held(a)'
      <3>1. PICK a \in Nat : /\ Chain(IdnLinks(it.size), out, a, it.sent)
                             /\ a <= it.size /\ me.buffer = Held(a)
        BY <2>2 DEF IdnReadInv
      <3>2. Chain(IdnLinks(it'.size), out', a, c)
        BY <1>1, <2>1, <3>1, ChainAppend
      <3> QED BY <1>1, <2>1, <3>1, <3>2 DEF Held
    <2>3. it' \in [service : {"SoEread"}, size : Nat, sent : Nat, busy : BOOLEAN]
      BY <1>0, <1>1
    <2> QED BY <1>1, <2>1, <2>2, <2>3 DEF IdnReadInv, Held
  <1>2. CASE SE!SlaveRead \/ SE!SlaveReadMore
    <2> DEFINE n == IdnPiece(it.size, it.sent)
               c == it.sent + n
               part == IdnPart(it.size, it.sent)
    <2>1. SE!Fragment = part
      BY DEF SE!Fragment, IdnPart, IdnPiece
    <2>2. n \in Nat /\ c \in Nat /\ c <= it.size
      <3>1. n \in Nat /\ it.sent + n <= it.size
        BY <1>0, IdnPieceIs
      <3> QED BY <1>0, <3>1
    <2>3. Len(part.data) = n /\ part.incomplete \in BOOLEAN
      BY <2>2 DEF IdnPart, SE!Bytes
    <2>4. Link(part, it.sent, c) \in IdnLinks(it.size)
      BY <1>0 DEF IdnLinks
    <2>5. /\ UNCHANGED <<pc, me, result>> /\ out' = Append(out, part)
          /\ it' = [it EXCEPT !.sent = c, !.busy = part.incomplete]
      <3>1. SE!Sent = [it EXCEPT !.sent = it.sent + Len(part.data), !.busy = part.incomplete]
        BY <2>1 DEF SE!Sent
      <3> QED BY <1>2, <2>1, <2>3, <3>1
              DEF SE!SlaveRead, SE!SlaveReadMore, SE!Answer, SE!master
    <2> HIDE DEF c, part
    <2>6. it' \in [service : {"SoEread"}, size : {it.size}, sent : {c}, busy : BOOLEAN]
      <3>1. it \in [service : {"SoEread"}, size : {it.size}, sent : Nat, busy : BOOLEAN]
        BY <1>0
      <3> QED BY <2>3, <2>5, <3>1
    <2> QED BY <1>1, <2>2, <2>4, <2>5, <2>6
  <1>3. CASE SE!SlaveStray
    <2>1. PICK m \in SE!Stray : /\ UNCHANGED <<pc, me, result, it>>
                                /\ out' = Append(out, m)
      BY <1>3 DEF SE!SlaveStray, SE!Answer, SE!master
    <2>2. Link(m, it.sent, it.sent) \in IdnLinks(it.size)
      BY <1>0 DEF IdnLinks
    <2>3. it' \in [service : {"SoEread"}, size : {it.size}, sent : {it.sent}, busy : BOOLEAN]
      BY <1>0, <2>1
    <2> QED BY <1>0, <1>1, <2>1, <2>2, <2>3
  <1> QED BY <1>2, <1>3

-------------------------------------------------------------------------------
(* ecx_SoEwrite *)

IdnCallType == [service : {"SoEwrite"}, size : Nat, psize : Nat, pos : Nat,
                more : BOOLEAN, failed : BOOLEAN]
IdnSlaveType == [service : {"SoEwrite"}, stored : Seq(Nat), complete : BOOLEAN]
IdnMails == [op : {"writereq"}, data : Seq(Nat), incomplete : BOOLEAN]
IdnAnswers == SE!Stray \cup {[op |-> "writeres"]}

\* As long as no fragment has failed, a stray mail is the next that the master gets,
\* or the slave has stored what it has taken, and the fragment it has not taken yet is
\* the next one; it answers the last.
IdnStrayed == out # <<>> /\ Head(out) \in SE!Stray
IdnSent ==
    /\ pc = (IF me.more THEN "empty" ELSE "receive")
    /\ out = <<>> /\ in # None /\ (in.incomplete <=> me.more)
    /\ \E p, n \in Nat : /\ p + n = me.pos /\ in.data = SE!Bytes(p, n)
                         /\ it.stored = Prefix(p)
IdnTaken ==
    /\ pc \in {"request", "empty"} /\ me.more /\ in = None /\ out = <<>>
    /\ it.stored = Prefix(me.pos)
IdnAnswered ==
    /\ pc = "receive" /\ in = None /\ out = <<[op |-> "writeres"]>>
    /\ it.complete /\ it.stored = Prefix(me.size)

IdnWriteInv ==
    /\ pc \in {"request", "empty", "receive", "done"}
    /\ me \in IdnCallType /\ it \in IdnSlaveType
    /\ in = None \/ in \in IdnMails
    /\ out \in Seq(IdnAnswers)
    /\ me.pos + me.psize = me.size
    /\ ~me.more => me.pos = me.size
    /\ pc # "done" => /\ result # "ok"
                      /\ me.failed \/ IdnStrayed \/ IdnSent \/ IdnTaken \/ IdnAnswered
    /\ result = "ok" /\ ~me.failed =>
         in = None /\ it.complete /\ it.stored = Prefix(me.size)

\* A sequence with the answers of the slave.
LEMMA IdnQueue ==
  ASSUME out \in Seq(IdnAnswers)
  PROVE  /\ out # <<>> => Tail(out) \in Seq(IdnAnswers)
         /\ \A m \in IdnAnswers :
               /\ Append(out, m) \in Seq(IdnAnswers)
               /\ out = <<>> => Append(out, m) = <<m>> /\ Head(Append(out, m)) = m
               /\ Append(out, m) # <<>>
               /\ out # <<>> => Head(Append(out, m)) = Head(out)
  <1> DEFINE S == IdnAnswers
  <1>1. out \in Seq(S)
    OBVIOUS
  <1> HIDE DEF S
  <1>2. out # <<>> => Tail(out) \in Seq(S)
    BY <1>1
  <1>3. ASSUME NEW m \in S
        PROVE  /\ Append(out, m) \in Seq(S)
               /\ out = <<>> => Append(out, m) = <<m>> /\ Head(Append(out, m)) = m
               /\ Append(out, m) # <<>>
               /\ out # <<>> => Head(Append(out, m)) = Head(out)
    <2> DEFINE q == Append(out, m)
    <2>1. /\ q \in Seq(S) /\ Len(q) = Len(out) + 1 /\ Len(out) \in Nat
          /\ q[Len(out) + 1] = m
          /\ \A j \in 1 .. Len(out) : q[j] = out[j]
      BY <1>1
    <2>3. out = <<>> => q = <<m>>
      OBVIOUS
    <2> HIDE DEF q
    <2>2. q # <<>>
      <3>1. Len(q) # 0 /\ Len(<<>>) = 0
        BY <2>1
      <3> QED BY <3>1
    <2>4. Head(q) = q[1]
      BY <2>1, <2>2
    <2>5. out # <<>> => Head(out) = out[1] /\ Len(out) >= 1
      BY <1>1
    <2>6. out # <<>> => q[1] = out[1]
      BY <2>1, <2>5
    <2>7. out = <<>> => Head(q) = m
      BY <2>3
    <2> QED BY <2>1, <2>2, <2>3, <2>4, <2>5, <2>6, <2>7 DEF q
  <1> QED BY <1>2, <1>3 DEF S

LEMMA IdnWriteCall ==
  ASSUME SoEAssumption, result # "ok", in = None, SE!CallWrite
  PROVE  IdnWriteInv'
  <1>1. PICK size \in SoELengths :
           SE!Begin([service |-> "SoEwrite", size |-> size, psize |-> size, pos |-> 0,
                     more |-> TRUE, failed |-> FALSE],
                    [service |-> "SoEwrite", stored |-> <<>>, complete |-> FALSE],
                    SE!Stray)
    BY DEF SE!CallWrite
  <1>2. /\ size \in Nat /\ pc' = "request" /\ result' = result /\ in' = None
        /\ me' = [service |-> "SoEwrite", size |-> size, psize |-> size, pos |-> 0,
                  more |-> TRUE, failed |-> FALSE]
        /\ it' = [service |-> "SoEwrite", stored |-> <<>>, complete |-> FALSE]
        /\ out' = <<>> \/ \E m \in SE!Stray : out' = <<m>>
    BY <1>1 DEF SE!Begin, SoEAssumption
  <1>3. out' \in Seq(IdnAnswers) /\ (out' = <<>> \/ (out' # <<>> /\ Head(out') \in SE!Stray))
    <2>1. CASE out' = <<>>
      BY <2>1
    <2>2. ASSUME NEW S, NEW T, NEW m \in S, out' = <<m>>
          PROVE  out' \in Seq(S \cup T) /\ out' # <<>> /\ Head(out') \in S
      BY <2>2
    <2> QED BY <1>2, <2>1, <2>2 DEF IdnAnswers
  <1>4. me' \in IdnCallType /\ me'.pos = 0 /\ me'.psize = size /\ me'.size = size /\ me'.more
    BY <1>2 DEF IdnCallType
  <1>5. it' \in IdnSlaveType /\ it'.stored = Prefix(0)
    BY <1>2 DEF IdnSlaveType, Prefix
  <1>6. (IdnStrayed \/ IdnTaken)'
    BY <1>2, <1>3, <1>4, <1>5 DEF IdnStrayed, IdnTaken
  <1> QED BY <1>2, <1>3, <1>4, <1>5, <1>6 DEF IdnWriteInv

\* A fragment that was not sent or not taken: the call goes on, or ends.
LEMMA IdnWriteMissed ==
  ASSUME IdnWriteInv, it' = it, in' = None \/ in' \in IdnMails, out' \in Seq(IdnAnswers),
         me' \in IdnCallType, me'.pos + me'.psize = me'.size,
         ~me'.more => me'.pos = me'.size, me'.failed = TRUE,
         \/ pc' \in {"request", "receive"} /\ result' = result /\ pc # "done"
         \/ pc' = "done"
  PROVE  IdnWriteInv'
  BY DEF IdnWriteInv

LEMMA IdnFails ==
  ASSUME me \in IdnCallType
  PROVE  LET m == [me EXCEPT !.failed = TRUE]
         IN  /\ m \in IdnCallType /\ m.pos = me.pos /\ m.psize = me.psize
             /\ m.size = me.size /\ m.more = me.more /\ m.failed = TRUE
  BY DEF IdnCallType

LEMMA IdnWriteSends ==
  ASSUME SoEAssumption, NoneAssumption, IdnWriteInv, SE!SendWrite
  PROVE  IdnWriteInv'
  <1> DEFINE n == SE!Least(me.psize, SoEdata)
             z == me.psize > SoEdata
             next == [me EXCEPT !.psize = me.psize - n, !.pos = me.pos + n, !.more = z]
             m == [op |-> "writereq", data |-> SE!Bytes(me.pos, n), incomplete |-> next.more]
             lost == [next EXCEPT !.failed = TRUE]
  <1>1. /\ pc = "request" /\ UNCHANGED <<out, it>>
        /\ \/ /\ in = None /\ in' = m /\ me' = next /\ result' = result
              /\ pc' = (IF next.more THEN "empty" ELSE "receive")
           \/ /\ in' \in {in} \cup (IF in = None THEN {m} ELSE {})
              /\ me' = lost
              /\ IF lost.more THEN pc' = "request" /\ result' = result ELSE pc' = "done"
    BY DEF SE!SendWrite, SE!At, SE!Post, SE!Stay, SE!Onward, SE!Return
  <1>2. /\ me \in IdnCallType /\ it \in IdnSlaveType /\ result # "ok"
        /\ me.pos \in Nat /\ me.psize \in Nat /\ me.size \in Nat /\ me.pos + me.psize = me.size
        /\ in = None \/ in \in IdnMails
        /\ out \in Seq(IdnAnswers)
        /\ me.failed \/ IdnStrayed \/ IdnTaken
    BY <1>1 DEF IdnWriteInv, IdnCallType, IdnSent, IdnAnswered
  <1>3. /\ n \in Nat /\ me.psize - n \in Nat /\ me.pos + n \in Nat /\ z \in BOOLEAN
        /\ (me.pos + n) + (me.psize - n) = me.size
        /\ ~z => me.pos + n = me.size
    BY <1>2 DEF SE!Least, SoEAssumption
  <1> HIDE DEF n, z
  <1>4. /\ next \in IdnCallType /\ next.pos = me.pos + n /\ next.psize = me.psize - n
        /\ next.size = me.size /\ (next.more <=> z) /\ next.more \in BOOLEAN
        /\ (next.failed <=> me.failed)
    BY <1>2, <1>3 DEF IdnCallType
  <1>5. /\ lost \in IdnCallType /\ lost.pos = me.pos + n /\ lost.psize = me.psize - n
        /\ lost.size = me.size /\ (lost.more <=> z) /\ lost.failed = TRUE
    BY <1>4 DEF IdnCallType
  <1> HIDE DEF next, lost
  <1>6. /\ m \in IdnMails /\ m # None /\ m.data = SE!Bytes(me.pos, n)
        /\ (m.incomplete <=> next.more)
    <2>1. SE!Bytes(me.pos, n) \in Seq(Nat)
      BY <1>2, <1>3 DEF SE!Bytes
    <2>2. m \in IdnMails
      BY <1>4, <2>1 DEF IdnMails
    <2>3. m # None
      BY <2>2 DEF NoneAssumption, IdnMails
    <2> QED BY <1>4, <2>2, <2>3
  <1> HIDE DEF m
  <1>7. CASE /\ in = None /\ in' = m /\ me' = next /\ result' = result
             /\ pc' = (IF next.more THEN "empty" ELSE "receive")
    <2>1. IdnStrayed => IdnStrayed'
      BY <1>1 DEF IdnStrayed
    <2>2. IdnTaken => IdnSent'
      BY <1>1, <1>2, <1>3, <1>4, <1>6, <1>7 DEF IdnTaken, IdnSent
    <2>3. me'.failed \/ IdnStrayed' \/ IdnSent'
      BY <1>2, <1>4, <1>7, <2>1, <2>2
    <2>4. /\ pc' \in {"empty", "receive"} /\ result' # "ok"
          /\ me' \in IdnCallType /\ me'.pos + me'.psize = me'.size
          /\ ~me'.more => me'.pos = me'.size
      BY <1>2, <1>3, <1>4, <1>7
    <2> QED BY <1>1, <1>2, <1>6, <1>7, <2>3, <2>4 DEF IdnWriteInv
  <1>8. CASE /\ in' \in {in} \cup (IF in = None THEN {m} ELSE {})
             /\ me' = lost
             /\ IF lost.more THEN pc' = "request" /\ result' = result ELSE pc' = "done"
    <2>1. in' = None \/ in' \in IdnMails
      BY <1>2, <1>6, <1>8
    <2>2. \/ pc' \in {"request", "receive"} /\ result' = result /\ pc # "done"
          \/ pc' = "done"
      BY <1>1, <1>8
    <2> QED BY <1>1, <1>2, <1>3, <1>5, <1>8, <2>1, <2>2, IdnWriteMissed
  <1> QED BY <1>1, <1>7, <1>8

\* The other steps of the call and of its slave.
LEMMA IdnWriteStep ==
  ASSUME IdnWriteInv,
         \/ SE!Emptied \/ SE!NotEmptied \/ SE!RecvWrite \/ SE!RecvWriteOther
         \/ SE!WriteTimeout
  PROVE  IdnWriteInv'
  <1>0. /\ me \in IdnCallType /\ out \in Seq(IdnAnswers) /\ (in = None \/ in \in IdnMails)
        /\ me.pos + me.psize = me.size /\ (~me.more => me.pos = me.size)
        /\ me.more \in BOOLEAN
        /\ out # <<>> => Tail(out) \in Seq(IdnAnswers)
    BY IdnQueue DEF IdnWriteInv, IdnCallType
  <1> DEFINE lost == [me EXCEPT !.failed = TRUE]
  <1>1. /\ lost \in IdnCallType /\ lost.pos + lost.psize = lost.size
        /\ ~lost.more => lost.pos = lost.size
        /\ lost.failed = TRUE /\ lost.more = me.more
    BY <1>0, IdnFails
  <1> HIDE DEF lost
  <1>2. CASE SE!Emptied
    <2>1. /\ pc = "empty" /\ in = None /\ pc' = "request"
          /\ UNCHANGED <<me, in, out, it, result>>
      BY <1>2 DEF SE!Emptied, SE!At, SE!Stay, SE!slave
    <2>2. me.failed \/ IdnStrayed \/ IdnTaken
      BY <2>1 DEF IdnWriteInv, IdnSent, IdnAnswered
    <2>3. (IdnStrayed => IdnStrayed') /\ (IdnTaken => IdnTaken')
      BY <2>1 DEF IdnStrayed, IdnTaken
    <2> QED BY <2>1, <2>2, <2>3 DEF IdnWriteInv
  <1>3. CASE SE!NotEmptied
    <2>1. pc = "empty" /\ me' = lost /\ pc' = "receive" /\ UNCHANGED <<in, out, it, result>>
      BY <1>3 DEF SE!NotEmptied, SE!At, SE!Stay, SE!slave, lost
    <2> QED BY <1>0, <1>1, <2>1, IdnWriteMissed
  <1>4. CASE SE!RecvWrite
    <2>1. /\ pc = "receive" /\ out # <<>> /\ out' = Tail(out) /\ Head(out).op = "writeres"
          /\ pc' = "done" /\ result' = "ok" /\ UNCHANGED <<me, in, it>>
      BY <1>4 DEF SE!RecvWrite, SE!Reply, SE!At, SE!Take, SE!Return
    <2>2. me.failed \/ IdnAnswered
      BY <2>1 DEF IdnWriteInv, IdnStrayed, IdnSent, IdnTaken, SE!Stray
    <2> QED BY <1>0, <2>1, <2>2 DEF IdnWriteInv, IdnAnswered
  <1>5. CASE SE!RecvWriteOther
    <2>1. /\ out # <<>> /\ out' = Tail(out) /\ pc' = "done" /\ result' = "ERROR"
          /\ UNCHANGED <<me, in, it>>
      BY <1>5 DEF SE!RecvWriteOther, SE!Reply, SE!Take, SE!Return
    <2> QED BY <1>0, <2>1 DEF IdnWriteInv
  <1>6. CASE SE!WriteTimeout
    <2>1. /\ pc = "receive" /\ UNCHANGED <<in, it>> /\ me' = lost
          /\ out' = out \/ (out # <<>> /\ out' = Tail(out))
          /\ \/ pc' = "request" /\ result' = result
             \/ pc' = "done"
      BY <1>6 DEF SE!WriteTimeout, SE!At, SE!Miss, SE!Onward, SE!Stay, SE!Return, lost
    <2>2. out' \in Seq(IdnAnswers)
      BY <1>0, <2>1
    <2> QED BY <1>0, <1>1, <2>1, <2>2, IdnWriteMissed
  <1> QED BY <1>2, <1>3, <1>4, <1>5, <1>6

LEMMA IdnWriteSlaveStep ==
  ASSUME IdnWriteInv, it.service = "SoEwrite", SE!SlaveWrite \/ SE!SlaveStray
  PROVE  IdnWriteInv'
  <1>0. /\ me \in IdnCallType /\ it \in IdnSlaveType /\ it.stored \in Seq(Nat)
        /\ out \in Seq(IdnAnswers) /\ me.pos \in Nat /\ me.more \in BOOLEAN
        /\ me.failed \in BOOLEAN
    BY DEF IdnWriteInv, IdnSlaveType, IdnCallType
  <1>1. CASE SE!SlaveStray
    <2>1. PICK m \in SE!Stray : /\ UNCHANGED <<pc, me, result, it>> /\ in # None /\ in' = None
                                /\ out' = Append(out, m)
      BY <1>1 DEF SE!SlaveStray, SE!Asked, SE!Answer, SE!master
    <2>2. /\ out' \in Seq(IdnAnswers) /\ out' # <<>>
          /\ out = <<>> => Head(out') = m
          /\ out # <<>> => Head(out') = Head(out)
      BY <1>0, <2>1, IdnQueue DEF IdnAnswers
    <2>3. IdnStrayed \/ IdnSent => IdnStrayed'
      BY <2>1, <2>2 DEF IdnStrayed, IdnSent
    <2>4. ~IdnTaken /\ ~IdnAnswered
      BY <2>1 DEF IdnTaken, IdnAnswered
    <2> QED BY <2>1, <2>2, <2>3, <2>4 DEF IdnWriteInv
  <1>2. CASE SE!SlaveWrite
    <2> DEFINE d == it.stored \o in.data
               z == ~in.incomplete
               m == [op |-> "writeres"]
    <2>1. /\ UNCHANGED <<pc, me, result>> /\ in # None /\ in' = None
          /\ it' = [it EXCEPT !.stored = d, !.complete = z]
          /\ \/ in.incomplete /\ out' = out
             \/ ~in.incomplete /\ out' = Append(out, m)
      BY <1>2 DEF SE!SlaveWrite, SE!Asked, SE!Answer, SE!master
    <2>2. in \in IdnMails
      BY <2>1 DEF IdnWriteInv
    <2>3. in.data \in Seq(Nat) /\ in.incomplete \in BOOLEAN /\ z \in BOOLEAN
      BY <2>2 DEF IdnMails
    <2>4. d \in Seq(Nat)
      BY <1>0, <2>3
    <2> HIDE DEF d, z
    <2>5. it' \in IdnSlaveType /\ it'.stored = d /\ (it'.complete <=> z)
      BY <1>0, <2>1, <2>3, <2>4 DEF IdnSlaveType
    <2>6. /\ out' \in Seq(IdnAnswers)
          /\ ~in.incomplete /\ out = <<>> => out' = <<m>>
          /\ out # <<>> => out' # <<>> /\ Head(out') = Head(out)
      <3>1. m \in IdnAnswers
        BY DEF IdnAnswers
      <3> QED BY <1>0, <2>1, <3>1, IdnQueue
    <2>7. IdnStrayed => IdnStrayed'
      BY <2>6 DEF IdnStrayed
    <2>8. ASSUME IdnSent PROVE (IdnTaken \/ IdnAnswered)'
      <3>1. PICK p \in Nat, n \in Nat : /\ p + n = me.pos /\ in.data = SE!Bytes(p, n)
                                        /\ it.stored = Prefix(p)
        BY <2>8 DEF IdnSent
      <3>2. d = Prefix(me.pos)
        <4>1. Prefix(p) \o [j \in 1 .. n |-> p + j] = Prefix(p + n)
          BY PrefixGrows
        <4> QED BY <3>1, <4>1 DEF SE!Bytes, d
      <3>3. CASE in.incomplete
        <4>1. me.more /\ pc = "empty" /\ out' = <<>>
          BY <1>0, <2>1, <2>8, <3>3 DEF IdnSent
        <4> QED BY <2>1, <2>5, <3>2, <4>1 DEF IdnTaken
      <3>4. CASE ~in.incomplete
        <4>1. ~me.more /\ pc = "receive" /\ out' = <<m>>
          BY <1>0, <2>1, <2>6, <2>8, <3>4 DEF IdnSent
        <4>2. me.pos = me.size
          BY <4>1 DEF IdnWriteInv
        <4>3. it'.complete
          BY <2>5, <3>4 DEF z
        <4> QED BY <2>1, <2>5, <3>2, <4>1, <4>2, <4>3 DEF IdnAnswered
      <3> QED BY <3>3, <3>4
    <2>9. ~IdnTaken /\ ~IdnAnswered
      BY <2>1 DEF IdnTaken, IdnAnswered
    <2> QED BY <2>1, <2>5, <2>6, <2>7, <2>8, <2>9 DEF IdnWriteInv
  <1> QED BY <1>1, <1>2

-------------------------------------------------------------------------------
(* Fragments of an Ethernet frame *)

Octets == (Nat \cup {"time"}) \X Nat
InBlocks(n) == \E k \in Nat : n = k * Block

LEMMA Division ==
  ASSUME EoEAssumption, NEW n \in Nat
  PROVE  /\ n \div Block \in Nat /\ (n \div Block) * Block <= n
         /\ EE!Blocks(n) \in Nat /\ EE!Blocks(n) * Block >= n
         /\ EE!Blocks(n) * Block \in Nat
         /\ InBlocks(n) => (n \div Block) * Block = n
  <1>1. ASSUME NEW a \in Nat, NEW b \in Nat \ {0}
        PROVE  /\ a \div b \in Nat /\ (a \div b) * b <= a /\ a < (a \div b) * b + b
               /\ (a \div b) * b \in Nat
    OBVIOUS
  <1>2. ASSUME NEW k \in Nat, NEW b \in Nat \ {0}
        PROVE  (k * b) \div b = k
    OBVIOUS
  <1>3. Block \in Nat \ {0} /\ n + Block - 1 \in Nat
    BY DEF EoEAssumption
  <1>4. n \div Block \in Nat /\ (n \div Block) * Block <= n
    BY <1>1, <1>3
  <1>5. /\ EE!Blocks(n) \in Nat /\ EE!Blocks(n) * Block \in Nat
        /\ n + Block - 1 < EE!Blocks(n) * Block + Block
    BY <1>1, <1>3 DEF EE!Blocks
  <1>6. EE!Blocks(n) * Block >= n
    <2> DEFINE p == EE!Blocks(n) * Block
    <2>1. p \in Nat /\ n + Block - 1 < p + Block
      BY <1>5
    <2> HIDE DEF p
    <2>2. p >= n
      BY <1>3, <2>1
    <2> QED BY <2>2 DEF p
  <1>7. InBlocks(n) => (n \div Block) * Block = n
    BY <1>2, <1>3 DEF InBlocks
  <1> QED BY <1>4, <1>5, <1>6, <1>7

\* A fragment that is not the last ends at a block.
LEMMA CutIs ==
  ASSUME EoEAssumption, NEW size \in Nat, NEW off \in Nat, off <= size, InBlocks(off)
  PROVE  LET n == EE!Cut(size - off)
         IN  /\ n \in Nat /\ off + n <= size
             /\ n = size - off <=> off + n = size
             /\ off + n # size => InBlocks(off + n)
  <1> DEFINE left == size - off
             n == EE!Cut(left)
             q == EoEdata \div Block
  <1>1. left \in Nat
    OBVIOUS
  <1>2. q \in Nat /\ q * Block <= EoEdata /\ q * Block \in Nat
    <2>1. EoEdata \in Nat
      BY DEF EoEAssumption
    <2>2. \A k \in Nat : k * Block \in Nat
      BY DEF EoEAssumption
    <2> QED BY <2>1, <2>2, Division
  <1>3. PICK k \in Nat : off = k * Block
    BY DEF InBlocks
  <1>4. (k + q) * Block = k * Block + q * Block
    <2>1. \A a, b \in Nat : (a + b) * Block = a * Block + b * Block
      BY DEF EoEAssumption
    <2> QED BY <1>2, <2>1
  <1>5. n = IF left > EoEdata THEN q * Block ELSE left
    BY DEF EE!Cut
  <1> HIDE DEF q, n
  <1>6. CASE left > EoEdata
    <2> DEFINE p == q * Block
    <2>1. n = p /\ p \in Nat /\ p <= EoEdata /\ EoEdata \in Nat
      BY <1>2, <1>5, <1>6 DEF EoEAssumption
    <2>2. InBlocks(off + p)
      BY <1>2, <1>3, <1>4 DEF InBlocks
    <2> HIDE DEF p
    <2> QED BY <1>1, <1>6, <2>1, <2>2 DEF n
  <1>7. CASE ~(left > EoEdata)
    <2>1. n = left
      BY <1>5, <1>7
    <2> QED BY <1>1, <2>1 DEF n
  <1> QED BY <1>6, <1>7

\* The fragment that follows byte o of a frame; the first one has number 0.
Place(size, o, k) ==
    o \in Nat /\ k \in Nat /\ o <= size /\ InBlocks(o) /\ (k = 0 => o = 0)
Stamps == [i \in 1 .. Stamp |-> <<"time", i>>]
IsPart(m, f, size, o, k, s) ==
    LET n == EE!Cut(size - o)
    IN  /\ n \in Nat /\ o + n <= size /\ (o + n # size => InBlocks(o + n))
        /\ m.op = "fragment" /\ m.frame = f /\ m.no = k
        /\ m.last \in BOOLEAN /\ (m.last <=> o + n = size)
        /\ m.stamp \in BOOLEAN /\ (m.stamp <=> s)
        /\ m.offset \in Nat
        /\ k > 0 => m.offset * Block = o
        /\ k = 0 => m.offset = EE!Blocks(size)
        /\ ~(m.last /\ m.stamp) => m.data = EE!Bytes(f, o, n)
        /\ m.last /\ m.stamp => m.data = EE!Bytes(f, o, n) \o Stamps

LEMMA FragmentIs ==
  ASSUME EoEAssumption, NEW f \in Nat, NEW size \in Nat, NEW o, NEW k, Place(size, o, k),
         NEW s \in BOOLEAN
  PROVE  IsPart(EE!FragmentOf(f, size, o, k, s), f, size, o, k, s)
  <1> DEFINE n == EE!Cut(size - o)
             z == n = size - o
             d == EE!Bytes(f, o, n) \o (IF z /\ s THEN Stamps ELSE <<>>)
             p == IF k > 0 THEN o \div Block ELSE EE!Blocks(size)
             m == EE!FragmentOf(f, size, o, k, s)
  <1>7. o \in Nat /\ k \in Nat /\ o <= size /\ InBlocks(o)
    BY DEF Place
  <1>1. /\ n \in Nat /\ o + n <= size /\ (z <=> o + n = size) /\ z \in BOOLEAN
        /\ o + n # size => InBlocks(o + n)
    BY <1>7, CutIs
  <1>2. p \in Nat /\ (k > 0 => p * Block = o) /\ (k = 0 => p = EE!Blocks(size))
    <2>1. o \div Block \in Nat /\ (o \div Block) * Block = o /\ EE!Blocks(size) \in Nat
      BY <1>7, Division
    <2> QED BY <1>7, <2>1
  <1>3. ~(z /\ s) => d = EE!Bytes(f, o, n)
    <2>1. EE!Bytes(f, o, n) \in Seq(Octets)
      BY <1>1, <1>7 DEF EE!Bytes, Octets
    <2>2. \A q \in Seq(Octets) : q \o <<>> = q
      OBVIOUS
    <2> QED BY <2>1, <2>2
  <1>4. z /\ s => d = EE!Bytes(f, o, n) \o Stamps
    OBVIOUS
  <1>5. m = [op |-> "fragment", frame |-> f, no |-> k, last |-> z, offset |-> p,
             stamp |-> s, data |-> d]
    BY DEF EE!FragmentOf, Stamps
  <1> HIDE DEF n, z, d, p, m
  <1>6. /\ m.op = "fragment" /\ m.frame = f /\ m.no = k /\ m.offset = p /\ m.data = d
        /\ m.last \in BOOLEAN /\ (m.last <=> z) /\ m.stamp \in BOOLEAN /\ (m.stamp <=> s)
    BY <1>1, <1>5
  <1> QED BY <1>1, <1>2, <1>3, <1>4, <1>6 DEF n, m, IsPart

\* The bytes of a frame, one fragment after the other.
LEMMA FrameBytes ==
  ASSUME NEW f \in Nat, NEW a \in Nat, NEW n \in Nat
  PROVE  /\ EE!Bytes(f, a, n) \in Seq(Octets) /\ Len(EE!Bytes(f, a, n)) = n
         /\ \A j \in 1 .. n : EE!Bytes(f, a, n)[j] = <<f, a + j>>
  BY DEF EE!Bytes, Octets

LEMMA FrameGrows ==
  ASSUME NEW f \in Nat, NEW a \in Nat, NEW n \in Nat
  PROVE  EE!Bytes(f, 0, a) \o EE!Bytes(f, a, n) = EE!Bytes(f, 0, a + n)
  <1> DEFINE s == EE!Bytes(f, 0, a)
             t == EE!Bytes(f, a, n)
             u == s \o t
             v == EE!Bytes(f, 0, a + n)
             e == [k \in Nat |-> <<f, k>>]
  <1>1. /\ s \in Seq(Octets) /\ Len(s) = a /\ \A j \in 1 .. a : s[j] = e[j]
        /\ t \in Seq(Octets) /\ Len(t) = n /\ \A j \in 1 .. n : t[j] = e[a + j]
        /\ v \in Seq(Octets) /\ Len(v) = a + n /\ \A j \in 1 .. a + n : v[j] = e[j]
    <2>1. ASSUME NEW b \in Nat, NEW k \in Nat
          PROVE  /\ EE!Bytes(f, b, k) \in Seq(Octets) /\ Len(EE!Bytes(f, b, k)) = k
                 /\ \A j \in 1 .. k : EE!Bytes(f, b, k)[j] = e[b + j]
      <3>1. \A j \in 1 .. k : b + j \in Nat
        OBVIOUS
      <3>2. \A j \in 1 .. k : e[b + j] = <<f, b + j>>
        BY <3>1
      <3> DEFINE w == EE!Bytes(f, b, k)
      <3>3. /\ w \in Seq(Octets) /\ Len(w) = k
            /\ \A j \in 1 .. k : w[j] = <<f, b + j>>
        BY FrameBytes
      <3> HIDE DEF w, e
      <3>4. \A j \in 1 .. k : w[j] = e[b + j]
        BY <3>2, <3>3
      <3> QED BY <3>3, <3>4 DEF w
    <2>2. a + n \in Nat /\ 0 \in Nat
      OBVIOUS
    <2> HIDE DEF e
    <2>6. ASSUME NEW k \in Nat
          PROVE  /\ EE!Bytes(f, 0, k) \in Seq(Octets) /\ Len(EE!Bytes(f, 0, k)) = k
                 /\ \A j \in 1 .. k : EE!Bytes(f, 0, k)[j] = e[j]
      <3>1. /\ EE!Bytes(f, 0, k) \in Seq(Octets) /\ Len(EE!Bytes(f, 0, k)) = k
            /\ \A j \in 1 .. k : EE!Bytes(f, 0, k)[j] = e[0 + j]
        BY <2>1, <2>2
      <3>2. \A j \in 1 .. k : 0 + j = j
        OBVIOUS
      <3> DEFINE w == EE!Bytes(f, 0, k)
      <3> HIDE DEF w
      <3>3. ASSUME NEW j \in 1 .. k PROVE w[j] = e[j]
        <4>1. 0 + j = j
          OBVIOUS
        <4>2. w[j] = e[0 + j]
          BY <3>1 DEF w
        <4> QED BY <4>1, <4>2
      <3> QED BY <3>1, <3>3 DEF w
    <2>3. s \in Seq(Octets) /\ Len(s) = a /\ \A j \in 1 .. a : s[j] = e[j]
      BY <2>6
    <2>4. t \in Seq(Octets) /\ Len(t) = n /\ \A j \in 1 .. n : t[j] = e[a + j]
      BY <2>1
    <2>5. v \in Seq(Octets) /\ Len(v) = a + n /\ \A j \in 1 .. a + n : v[j] = e[j]
      BY <2>2, <2>6
    <2> QED BY <2>3, <2>4, <2>5
  <1> HIDE DEF s, t, v, e
  <1>2. /\ u \in Seq(Octets) /\ Len(u) = Len(s) + Len(t)
        /\ \A j \in 1 .. Len(s) + Len(t) :
              u[j] = IF j <= Len(s) THEN s[j] ELSE t[j - Len(s)]
    BY <1>1, ConcatProperties, Zenon
  <1> HIDE DEF u
  <1>3. ASSUME NEW j \in 1 .. a + n PROVE u[j] = v[j]
    <2>1. CASE j <= a
      <3>1. j \in 1 .. a /\ j \in 1 .. Len(s) + Len(t) /\ j <= Len(s)
        BY <1>1, <2>1
      <3>2. u[j] = s[j] /\ s[j] = e[j] /\ v[j] = e[j]
        BY <1>1, <1>2, <3>1
      <3> QED BY <3>2
    <2>2. CASE j > a
      <3>1. j - a \in 1 .. n /\ a + (j - a) = j
        BY <2>2
      <3>2. t[j - a] = e[a + (j - a)]
        BY <1>1, <3>1
      <3> QED BY <1>1, <1>2, <2>2, <3>1, <3>2
    <2> QED BY <2>1, <2>2
  <1>4. u = v
    BY <1>1, <1>2, <1>3, SeqEqual
  <1> QED BY <1>4 DEF u, s, t, v

\* What is behind the first bytes does not matter.
LEMMA FrameCut ==
  ASSUME NEW f \in Nat, NEW a \in Nat, NEW t \in Seq(Octets)
  PROVE  /\ SubSeq(EE!Bytes(f, 0, a) \o t, 1, a) = EE!Bytes(f, 0, a)
         /\ SubSeq(EE!Bytes(f, 0, a), 1, a) = EE!Bytes(f, 0, a)
         /\ EE!Bytes(f, 0, a) \o t \in Seq(Octets)
         /\ Len(EE!Bytes(f, 0, a) \o t) = a + Len(t)
  <1> DEFINE s == EE!Bytes(f, 0, a)
  <1>1. s \in Seq(Octets) /\ Len(s) = a
    BY FrameBytes
  <1> HIDE DEF s
  <1> DEFINE u == s \o t
  <1>2. /\ u \in Seq(Octets) /\ Len(u) = Len(s) + Len(t)
        /\ \A j \in 1 .. Len(s) + Len(t) :
              u[j] = IF j <= Len(s) THEN s[j] ELSE t[j - Len(s)]
    BY <1>1, ConcatProperties, Zenon
  <1> HIDE DEF u
  <1>3. Len(t) \in Nat
    OBVIOUS
  <1>4. ASSUME NEW w \in Seq(Octets), Len(w) >= a, \A j \in 1 .. a : w[j] = s[j]
        PROVE  SubSeq(w, 1, a) = s
    <2>1. \A j \in 1 .. a : w[j] \in Octets
      BY <1>4
    <2>2. /\ SubSeq(w, 1, a) \in Seq(Octets) /\ Len(SubSeq(w, 1, a)) = a
          /\ \A j \in 1 .. a : SubSeq(w, 1, a)[j] = w[j]
      BY <1>4, <2>1, SubSeqProperties
    <2> QED BY <1>1, <1>4, <2>2, SeqEqual
  <1>5. SubSeq(u, 1, a) = s
    BY <1>1, <1>2, <1>3, <1>4
  <1>6. SubSeq(s, 1, a) = s
    BY <1>1, <1>4
  <1> QED BY <1>1, <1>2, <1>5, <1>6 DEF s, u

\* A receiver that has the frame up to byte o takes the fragment that follows.
RxType == [no : Nat, size : Nat, off : Int, frame : Nat, buffer : Seq(Octets)]
RxHas(rx, f, o, k) ==
    /\ rx \in RxType /\ rx.no = k
    /\ k > 0 => rx.off = o /\ rx.buffer = EE!Bytes(f, 0, o)

\* The variables are those of the frame.
OpenedIs(r, rx, f, size, o, k) ==
    /\ r \in RxType /\ r.no = k /\ r.off = o /\ r.buffer = EE!Bytes(f, 0, o)
    /\ k > 0 => r = rx
    /\ k = 0 => r.frame = f /\ r.size = EE!Blocks(size) * Block
\* The fragment is taken; behind the last one may be its time, which is taken off.
TakenIs(t, r, m, f, size, o, k) ==
    LET g == EE!Stripped(t, m)
    IN  /\ Len(m.data) \in Nat
        /\ RxHas(t, f, o + Len(m.data), k + 1) \/ (m.last /\ m.stamp)
        /\ t \in RxType /\ t.frame = r.frame /\ t.no = k + 1
        /\ t.off = o + Len(m.data) /\ Len(t.buffer) = o + Len(m.data)
        /\ ~(m.last /\ m.stamp) => Len(m.data) = EE!Cut(size - o)
        /\ g \in RxType /\ g.buffer = t.buffer
        /\ m.last => SubSeq(t.buffer, 1, g.off) = EE!Bytes(f, 0, size)
        /\ m.last /\ ~m.stamp => t.buffer = EE!Bytes(f, 0, size)

LEMMA FragmentOpens ==
  ASSUME EoEAssumption, NEW f \in Nat, NEW size \in Nat, NEW o, NEW k, Place(size, o, k),
         NEW s \in BOOLEAN, NEW rx, RxHas(rx, f, o, k)
  PROVE  OpenedIs(EE!Opened(rx, EE!FragmentOf(f, size, o, k, s)), rx, f, size, o, k)
  <1> DEFINE m == EE!FragmentOf(f, size, o, k, s)
             r == EE!Opened(rx, m)
  <1>1. (k = 0 => m.offset = EE!Blocks(size)) /\ m.frame = f
    <2>1. IsPart(m, f, size, o, k, s)
      BY FragmentIs
    <2> QED BY <2>1 DEF IsPart
  <1>2. rx \in RxType /\ rx.no = k /\ k \in Nat /\ EE!Blocks(size) * Block \in Nat
    BY Division DEF RxHas, Place
  <1>3. CASE k = 0
    <2> DEFINE p == EE!Blocks(size) * Block
    <2>1. r = [rx EXCEPT !.size = p, !.off = 0, !.frame = f, !.buffer = <<>>]
      BY <1>1, <1>2, <1>3 DEF EE!Opened
    <2>2. EE!Bytes(f, 0, 0) = <<>> /\ o = 0
      BY <1>3 DEF EE!Bytes, Place
    <2>3. p \in Nat
      BY <1>2
    <2> HIDE DEF p, r, m
    <2>5. <<>> \in Seq(Octets) /\ 0 \in Int
      OBVIOUS
    <2>4. /\ r \in RxType /\ r.no = k /\ r.off = 0 /\ r.buffer = <<>> /\ r.frame = f
          /\ r.size = p
      BY <1>2, <2>1, <2>3, <2>5 DEF RxType
    <2> QED BY <1>3, <2>2, <2>4 DEF p, m, r, OpenedIs
  <1>4. CASE k > 0
    <2>1. r = rx
      BY <1>2, <1>4 DEF EE!Opened
    <2> HIDE DEF r, m
    <2> QED BY <1>2, <1>4, <2>1 DEF RxHas, r, m, OpenedIs
  <1> QED BY <1>2, <1>3, <1>4

LEMMA FragmentTaken ==
  ASSUME EoEAssumption, NEW f \in Nat, NEW size \in Nat, NEW o, NEW k, Place(size, o, k),
         NEW s \in BOOLEAN, NEW rx, RxHas(rx, f, o, k)
  PROVE  LET m == EE!FragmentOf(f, size, o, k, s)
             r == EE!Opened(rx, m)
         IN  TakenIs(EE!Taken(r, m, TRUE), r, m, f, size, o, k)
  <1> DEFINE m == EE!FragmentOf(f, size, o, k, s)
             n == EE!Cut(size - o)
             r == EE!Opened(rx, m)
             t == EE!Taken(r, m, TRUE)
             g == EE!Stripped(t, m)
             late == Stamps
             b == EE!Bytes(f, 0, o)
             d == EE!Bytes(f, o, n)
  <1>1. r \in RxType /\ r.no = k /\ r.off = o /\ r.buffer = b
    BY FragmentOpens DEF OpenedIs
  <1>2. /\ n \in Nat /\ o + n <= size /\ m.last \in BOOLEAN /\ (m.last <=> o + n = size)
        /\ m.stamp \in BOOLEAN /\ o \in Nat /\ k \in Nat
        /\ ~(m.last /\ m.stamp) => m.data = d
        /\ m.last /\ m.stamp => m.data = d \o late
    <2>1. IsPart(m, f, size, o, k, s)
      BY FragmentIs
    <2> QED BY <2>1 DEF IsPart, Place
  <1>3. late \in Seq(Octets) /\ Len(late) = Stamp /\ Stamp \in Nat
    BY DEF EoEAssumption, Octets, Stamps
  <1>4. d \in Seq(Octets) /\ Len(d) = n
    BY <1>2, FrameBytes
  <1>5. b \o d = EE!Bytes(f, 0, o + n)
    BY <1>2, FrameGrows
  <1>6. SubSeq(b, 1, o) = b
    <2>1. <<>> \in Seq(Octets)
      OBVIOUS
    <2> QED BY <1>2, <2>1, FrameCut
  <1>7. b \in Seq(Octets) /\ Len(b) = o
    BY <1>2, FrameBytes
  <1> HIDE DEF b, d, late, n, m, r
  <1>8. t = [r EXCEPT !.buffer = b \o m.data, !.off = o + Len(m.data), !.no = k + 1]
    BY <1>1, <1>6 DEF EE!Taken, RxType
  <1>9. /\ m.data \in Seq(Octets) /\ Len(m.data) \in Nat
        /\ ~(m.last /\ m.stamp) => Len(m.data) = n
        /\ m.last /\ m.stamp => Len(m.data) = n + Stamp
    <2>1. d \o late \in Seq(Octets) /\ Len(d \o late) = Len(d) + Len(late)
      BY <1>3, <1>4, ConcatProperties
    <2>2. CASE m.last /\ m.stamp
      <3>1. m.data = d \o late
        BY <1>2, <2>2, Zenon
      <3>2. m.data \in Seq(Octets) /\ Len(m.data) = n + Stamp /\ n + Stamp \in Nat
        BY <1>2, <1>3, <1>4, <2>1, <3>1
      <3> QED BY <2>2, <3>2, Zenon
    <2>3. CASE ~(m.last /\ m.stamp)
      BY <1>2, <1>4, <2>3
    <2> QED BY <2>2, <2>3
  <1>10. b \o m.data \in Seq(Octets) /\ Len(b \o m.data) = o + Len(m.data)
    BY <1>7, <1>9, ConcatProperties
  <1> HIDE DEF t
  <1>11. /\ t \in RxType /\ t.frame = r.frame /\ t.no = k + 1 /\ t.off = o + Len(m.data)
         /\ t.buffer = b \o m.data
    <2>1. o + Len(m.data) \in Int /\ k + 1 \in Nat
      BY <1>2, <1>9
    <2> QED BY <1>1, <1>8, <1>10, <2>1 DEF RxType
  <1>12. /\ g \in RxType /\ g.buffer = t.buffer
         /\ m.stamp => g.off = t.off - Stamp
         /\ ~m.stamp => g.off = t.off
    <2>1. t.off - Stamp \in Int
      BY <1>3, <1>11 DEF RxType
    <2> QED BY <1>2, <1>11, <2>1 DEF EE!Stripped, RxType
  <1> HIDE DEF g
  <1>13. ~(m.last /\ m.stamp) => t.buffer = EE!Bytes(f, 0, o + n)
    BY <1>2, <1>5, <1>11
  <1>14. ASSUME m.last PROVE SubSeq(t.buffer, 1, g.off) = EE!Bytes(f, 0, size)
    <2>1. o + n = size /\ size \in Nat
      BY <1>2, <1>14
    <2>2. CASE m.stamp
      <3>1. g.off = size
        <4>1. Len(m.data) = n + Stamp
          BY <1>9, <1>14, <2>2
        <4>2. g.off = o + Len(m.data) - Stamp
          <5>1. g.off = t.off - Stamp
            BY <1>12, <2>2, Zenon
          <5> QED BY <1>2, <1>3, <1>9, <1>11, <5>1 DEF RxType
        <4> QED BY <1>2, <1>3, <2>1, <4>1, <4>2
      <3>2. t.buffer = EE!Bytes(f, 0, size) \o late
        <4>1. b \o (d \o late) = (b \o d) \o late
          <5>1. ASSUME NEW S, NEW x \in Seq(S), NEW y \in Seq(S), NEW w \in Seq(S)
                PROVE  x \o (y \o w) = (x \o y) \o w
            BY ConcatAssociative
          <5> QED BY <1>3, <1>4, <1>7, <5>1
        <4> QED BY <1>2, <1>5, <1>11, <1>14, <2>1, <2>2, <4>1
      <3> QED BY <1>3, <3>1, <3>2, FrameCut
    <2>3. CASE ~m.stamp
      <3>1. g.off = size /\ t.buffer = EE!Bytes(f, 0, size)
        BY <1>2, <1>9, <1>11, <1>12, <1>13, <2>1, <2>3
      <3>2. <<>> \in Seq(Octets)
        OBVIOUS
      <3> QED BY <3>1, <3>2, FrameCut
    <2> QED BY <1>2, <2>2, <2>3
  <1>15. RxHas(t, f, o + Len(m.data), k + 1) \/ (m.last /\ m.stamp)
    BY <1>9, <1>11, <1>13 DEF RxHas
  <1>16. m.last /\ ~m.stamp => t.buffer = EE!Bytes(f, 0, size)
    BY <1>2, <1>13
  <1>17. Len(t.buffer) = o + Len(m.data)
    BY <1>10, <1>11
  <1>18. TakenIs(t, r, m, f, size, o, k)
    BY <1>9, <1>11, <1>12, <1>14, <1>15, <1>16, <1>17, Zenon DEF TakenIs, n, g
  <1> QED BY <1>18 DEF m, r, t

-------------------------------------------------------------------------------
(* ecx_EOEsend *)

SessionType(s, rx) ==
    [service : {s}, size : Nat, frame : Nat, off : Nat, no : Nat, stamp : BOOLEAN,
     rx : {rx}, sizes : Seq(EoELengths)]

SendPart(o, k) == EE!FragmentOf(1, me.size, o, k, FALSE)
\* A fragment that the slave has not taken follows what it has.
Waiting(o, k) ==
    Place(me.size, o, k) /\ in = SendPart(o, k) /\ RxHas(it.rx, 1, o, k)
After(o) == o + EE!Cut(me.size - o)

SendInv ==
    /\ pc \in {"request", "done"}
    /\ me \in [service : {"EOEsend"}, size : Nat, off : Nat, no : Nat]
    /\ it \in SessionType("EOEsend", it.rx)
    /\ pc = "request" =>
         /\ result # "ok" /\ Place(me.size, me.off, me.no)
         /\ \/ in = None /\ RxHas(it.rx, 1, me.off, me.no)
            \/ \E o, k \in Nat : Waiting(o, k) /\ me.off = After(o) /\ me.no = k + 1
    /\ result = "ok" =>
         \/ in = None /\ it.rx.buffer = EE!Bytes(1, 0, me.size)
         \/ \E o, k \in Nat : Waiting(o, k) /\ After(o) = me.size

LEMMA SendPartIs ==
  ASSUME EoEAssumption, NoneAssumption, me.size \in Nat, NEW o, NEW k, Place(me.size, o, k)
  PROVE  SendPart(o, k) # None
  <1> DEFINE m == SendPart(o, k)
             n == EE!Cut(me.size - o)
  <1>1. /\ n \in Nat /\ o \in Nat /\ k \in Nat /\ InBlocks(o) /\ o <= me.size
        /\ 1 \in Nat
    BY CutIs DEF Place
  <1> DEFINE z == n = me.size - o
             p == IF k > 0 THEN o \div Block ELSE EE!Blocks(me.size)
             d == EE!Bytes(1, o, n) \o <<>>
  <1>2. m = [op |-> "fragment", frame |-> 1, no |-> k, last |-> z, offset |-> p,
             stamp |-> FALSE, data |-> d]
    BY DEF EE!FragmentOf, SendPart
  <1>3. d \in Seq(Octets)
    <2>1. EE!Bytes(1, o, n) \in Seq(Octets) /\ <<>> \in Seq(Octets)
      BY <1>1, FrameBytes
    <2> QED BY <2>1, ConcatProperties
  <1>4. p \in Nat
    BY <1>1, Division
  <1>5. z \in BOOLEAN
    OBVIOUS
  <1> HIDE DEF m, z, p, d
  <1>6. m \in [op : {"fragment"}, frame : Nat, no : Nat, last : BOOLEAN, offset : Nat,
               stamp : BOOLEAN, data : Seq(Octets)]
    BY <1>1, <1>2, <1>3, <1>4, <1>5
  <1> QED BY <1>6 DEF NoneAssumption, Octets, m

LEMMA SendCall ==
  ASSUME EoEAssumption, result # "ok", in = None, EE!CallSend
  PROVE  SendInv'
  <1>1. PICK size \in EoELengths :
           EE!Begin([service |-> "EOEsend", size |-> size, off |-> 0, no |-> 0],
                    EE!Session("EOEsend"), {})
    BY DEF EE!CallSend
  <1>2. /\ size \in Nat /\ pc' = "request" /\ result' = result /\ in' = None
        /\ me' = [service |-> "EOEsend", size |-> size, off |-> 0, no |-> 0]
        /\ it' = EE!Session("EOEsend")
    BY <1>1 DEF EE!Begin, EoEAssumption
  <1>3. EE!NoFrame \in RxType /\ EE!NoFrame.no = 0
    BY DEF EE!NoFrame, RxType
  <1>4. it' \in SessionType("EOEsend", it'.rx) /\ it'.rx = EE!NoFrame
    BY <1>2 DEF EE!Session, SessionType
  <1>5. InBlocks(0)
    <2>1. 0 = 0 * Block
      BY DEF EoEAssumption
    <2> QED BY <2>1 DEF InBlocks
  <1>6. Place(me'.size, me'.off, me'.no) /\ RxHas(it'.rx, 1, me'.off, me'.no)
    BY <1>2, <1>3, <1>4, <1>5 DEF Place, RxHas
  <1> QED BY <1>2, <1>4, <1>6 DEF SendInv

LEMMA SendFragmentStep ==
  ASSUME EoEAssumption, NoneAssumption, SendInv, EE!SendFragment
  PROVE  SendInv'
  <1> DEFINE f == SendPart(me.off, me.no)
             next == [me EXCEPT !.off = @ + Len(f.data), !.no = @ + 1]
  <1>1. /\ pc = "request" /\ UNCHANGED <<out, it>>
        /\ \/ /\ in = None /\ in' = f
              /\ IF f.last THEN pc' = "done" /\ result' = "ok" /\ me' = me
                           ELSE pc' = "request" /\ result' = result /\ me' = next
           \/ pc' = "done" /\ result' = "failed" /\ me' = me
    BY DEF EE!SendFragment, EE!At, EE!Post, EE!Stay, EE!Failed, EE!Return, SendPart
  <1>2. /\ me \in [service : {"EOEsend"}, size : Nat, off : Nat, no : Nat]
        /\ me.size \in Nat /\ me.off \in Nat /\ me.no \in Nat
        /\ it \in SessionType("EOEsend", it.rx)
        /\ Place(me.size, me.off, me.no) /\ result # "ok"
    BY <1>1 DEF SendInv
  <1>3. CASE pc' = "done" /\ result' = "failed" /\ me' = me
    BY <1>1, <1>2, <1>3 DEF SendInv, SessionType
  <1>4. CASE /\ in = None /\ in' = f
             /\ IF f.last THEN pc' = "done" /\ result' = "ok" /\ me' = me
                          ELSE pc' = "request" /\ result' = result /\ me' = next
    <2>1. RxHas(it.rx, 1, me.off, me.no)
      <3>1. \A o, k \in Nat : ~Waiting(o, k)
        BY <1>2, <1>4, SendPartIs DEF Waiting
      <3> QED BY <1>1, <3>1 DEF SendInv
    <2>2. /\ f.last \in BOOLEAN /\ (f.last <=> After(me.off) = me.size)
          /\ EE!Cut(me.size - me.off) \in Nat /\ After(me.off) <= me.size
          /\ ~f.last => Len(f.data) = EE!Cut(me.size - me.off)
          /\ ~f.last => InBlocks(After(me.off))
      <3>1. /\ f.last \in BOOLEAN /\ (f.last <=> After(me.off) = me.size)
            /\ After(me.off) <= me.size
        <4>1. 1 \in Nat /\ FALSE \in BOOLEAN
          OBVIOUS
        <4>2. IsPart(f, 1, me.size, me.off, me.no, FALSE)
          BY <1>2, <4>1, FragmentIs DEF SendPart
        <4> QED BY <4>2 DEF IsPart, After
      <3>2. ~f.last => Len(f.data) = EE!Cut(me.size - me.off)
        <4>1. 1 \in Nat /\ FALSE \in BOOLEAN
          OBVIOUS
        <4> DEFINE r == EE!Opened(it.rx, f)
        <4>2. TakenIs(EE!Taken(r, f, TRUE), r, f, 1, me.size, me.off, me.no)
          BY <1>2, <2>1, <4>1, FragmentTaken DEF SendPart
        <4>3. IsPart(f, 1, me.size, me.off, me.no, FALSE)
          BY <1>2, <4>1, FragmentIs DEF SendPart
        <4> HIDE DEF f, r
        <4>4. f.stamp \in BOOLEAN /\ ~f.stamp
          BY <4>3 DEF IsPart
        <4> QED BY <4>2, <4>4 DEF TakenIs
      <3>3. /\ EE!Cut(me.size - me.off) \in Nat
            /\ After(me.off) # me.size => InBlocks(After(me.off))
        BY <1>2, CutIs DEF Place, After
      <3> QED BY <3>1, <3>2, <3>3
    <2>3. it' \in SessionType("EOEsend", it'.rx)
      BY <1>1, <1>2 DEF SessionType
    <2> HIDE DEF f
    <2>4. CASE f.last
      <3>1. pc' = "done" /\ result' = "ok" /\ me' = me
        BY <1>4, <2>4
      <3>2. Waiting(me.off, me.no)' /\ After(me.off)' = me'.size
        BY <1>1, <1>2, <1>4, <2>1, <2>2, <2>4, <3>1 DEF Waiting, SendPart, After, f
      <3>3. \E o, k \in Nat : Waiting(o, k)' /\ After(o)' = me'.size
        BY <1>2, <3>1, <3>2 DEF Waiting, After, SendPart
      <3> QED BY <1>2, <2>3, <3>1, <3>3 DEF SendInv
    <2>5. CASE ~f.last
      <3>1. pc' = "request" /\ result' = result /\ me' = next
        BY <1>4, <2>5
      <3> DEFINE c == EE!Cut(me.size - me.off)
      <3>2. next = [me EXCEPT !.off = me.off + c, !.no = me.no + 1]
        BY <2>2, <2>5
      <3>3. me.off + c \in Nat /\ After(me.off) = me.off + c /\ me.no + 1 \in Nat
        BY <1>2, <2>2 DEF After
      <3> HIDE DEF c, next
      <3>4. /\ me' \in [service : {"EOEsend"}, size : Nat, off : Nat, no : Nat]
            /\ me'.size = me.size /\ me'.off = After(me.off) /\ me'.no = me.no + 1
        BY <1>2, <3>1, <3>2, <3>3
      <3>5. Place(me'.size, me'.off, me'.no)
        BY <1>2, <2>2, <2>5, <3>3, <3>4 DEF Place
      <3>6. \E o, k \in Nat : Waiting(o, k)' /\ me'.off = After(o)' /\ me'.no = k + 1
        <4>1. \A o, k : SendPart(o, k)' = SendPart(o, k) /\ After(o)' = After(o)
          BY <3>4 DEF SendPart, After
        <4>2. \A o, k : Waiting(o, k)' <=> /\ Place(me.size, o, k) /\ in' = SendPart(o, k)
                                           /\ RxHas(it.rx, 1, o, k)
          BY <1>1, <3>4, <4>1 DEF Waiting
        <4> QED BY <1>2, <1>4, <2>1, <3>4, <4>1, <4>2 DEF f
      <3> QED BY <1>2, <2>3, <3>1, <3>4, <3>5, <3>6 DEF SendInv
    <2> QED BY <2>2, <2>4, <2>5
  <1> QED BY <1>1, <1>3, <1>4

LEMMA SendSlaveStep ==
  ASSUME EoEAssumption, SendInv, EE!SlaveTakes
  PROVE  SendInv'
  <1> DEFINE rx == EE!Opened(it.rx, in)
             next == IF in.no = rx.no /\ (in.no > 0 => rx.off = in.offset * Block)
                     THEN EE!Taken(rx, in, TRUE) ELSE rx
  <1>1. /\ in # None /\ in' = None /\ UNCHANGED <<pc, me, result, out>>
        /\ it' = [it EXCEPT !.rx = next]
    BY DEF EE!SlaveTakes, EE!master
  <1>2. it \in SessionType("EOEsend", it.rx) /\ me.size \in Nat
    BY DEF SendInv
  <1>3. ASSUME NEW o \in Nat, NEW k \in Nat, Waiting(o, k)
        PROVE  /\ After(o) # me.size => RxHas(next, 1, After(o), k + 1)
               /\ After(o) = me.size => /\ next.buffer = EE!Bytes(1, 0, me.size)
                                        /\ RxHas(next, 1, After(o), k + 1)
    <2> DEFINE m == EE!FragmentOf(1, me.size, o, k, FALSE)
    <2>1. in = m /\ Place(me.size, o, k) /\ RxHas(it.rx, 1, o, k)
      BY <1>3 DEF Waiting, SendPart
    <2>2. /\ m.no = k /\ (k > 0 => m.offset * Block = o) /\ ~m.stamp
          /\ m.last \in BOOLEAN /\ (m.last <=> After(o) = me.size)
      <3>1. 1 \in Nat /\ FALSE \in BOOLEAN
        OBVIOUS
      <3>2. IsPart(m, 1, me.size, o, k, FALSE)
        BY <1>2, <2>1, <3>1, FragmentIs
      <3> QED BY <3>2 DEF IsPart, After
    <2>3. rx.no = k /\ rx.off = o
      <3>1. 1 \in Nat /\ FALSE \in BOOLEAN
        OBVIOUS
      <3>2. OpenedIs(EE!Opened(it.rx, m), it.rx, 1, me.size, o, k)
        BY <1>2, <2>1, <3>1, FragmentOpens
      <3> QED BY <2>1, <3>2 DEF OpenedIs
    <2>4. next = EE!Taken(EE!Opened(it.rx, m), m, TRUE)
      BY <2>1, <2>2, <2>3
    <2> HIDE DEF next, m
    <2>5. RxHas(next, 1, o + Len(m.data), k + 1) /\ Len(m.data) = EE!Cut(me.size - o)
          /\ (m.last => next.buffer = EE!Bytes(1, 0, me.size))
      <3>1. 1 \in Nat /\ FALSE \in BOOLEAN
        OBVIOUS
      <3>2. /\ RxHas(next, 1, o + Len(m.data), k + 1) \/ (m.last /\ m.stamp)
            /\ ~(m.last /\ m.stamp) => Len(m.data) = EE!Cut(me.size - o)
            /\ m.last /\ ~m.stamp => next.buffer = EE!Bytes(1, 0, me.size)
        <4> DEFINE r == EE!Opened(it.rx, m)
        <4>1. TakenIs(EE!Taken(r, m, TRUE), r, m, 1, me.size, o, k)
          BY <1>2, <2>1, <3>1, FragmentTaken DEF m
        <4>2. TakenIs(next, r, m, 1, me.size, o, k)
          BY <2>4, <4>1
        <4> HIDE DEF r
        <4> QED BY <4>2 DEF TakenIs
      <3> QED BY <2>2, <3>2
    <2> QED BY <2>2, <2>5 DEF After
  <1> HIDE DEF next, rx
  <1>4. it' \in SessionType("EOEsend", it'.rx) /\ it'.rx = next
    BY <1>1, <1>2 DEF SessionType
  <1>5. pc = "request" => RxHas(it'.rx, 1, me.off, me.no)
    <2> SUFFICES ASSUME pc = "request" PROVE RxHas(it'.rx, 1, me.off, me.no)
      OBVIOUS
    <2>1. PICK o \in Nat, k \in Nat : Waiting(o, k) /\ me.off = After(o) /\ me.no = k + 1
      BY <1>1 DEF SendInv
    <2> QED BY <1>3, <1>4, <2>1
  <1>6. result = "ok" => it'.rx.buffer = EE!Bytes(1, 0, me.size)
    <2> SUFFICES ASSUME result = "ok" PROVE it'.rx.buffer = EE!Bytes(1, 0, me.size)
      OBVIOUS
    <2>1. PICK o \in Nat, k \in Nat : Waiting(o, k) /\ After(o) = me.size
      BY <1>1 DEF SendInv
    <2> QED BY <1>3, <1>4, <2>1
  <1> QED BY <1>1, <1>4, <1>5, <1>6 DEF SendInv

-------------------------------------------------------------------------------
(* The frames of the slave *)

\* A mail is a fragment of a frame, or of one that an earlier call left behind, or no
\* fragment.
Places(sizes) ==
    {p \in [f : DOMAIN sizes, o : Nat, k : Nat, s : BOOLEAN] : Place(sizes[p.f], p.o, p.k)}
Parts(sizes) == {EE!FragmentOf(p.f, sizes[p.f], p.o, p.k, p.s) : p \in Places(sizes)}
LateParts == {EE!FragmentOf(0, size, EE!Cut(size), 1, FALSE) : size \in EoELengths}
OtherMail(service) == IF service = "EOErecv" THEN {[op |-> "mail"]} ELSE {}
EoEMails(service, sizes) == Parts(sizes) \cup LateParts \cup OtherMail(service)

LEMMA PartIs ==
  ASSUME NEW sizes, NEW m \in Parts(sizes)
  PROVE  \E f \in DOMAIN sizes, o, k \in Nat, s \in BOOLEAN :
            Place(sizes[f], o, k) /\ m = EE!FragmentOf(f, sizes[f], o, k, s)
  <1>1. PICK p \in Places(sizes) : m = EE!FragmentOf(p.f, sizes[p.f], p.o, p.k, p.s)
    BY DEF Parts
  <1>2. /\ p.f \in DOMAIN sizes /\ p.o \in Nat /\ p.k \in Nat /\ p.s \in BOOLEAN
        /\ Place(sizes[p.f], p.o, p.k)
    BY DEF Places
  <1> QED BY <1>1, <1>2

LEMMA PartIn ==
  ASSUME NEW sizes, NEW f \in DOMAIN sizes, NEW o \in Nat, NEW k \in Nat,
         NEW s \in BOOLEAN, Place(sizes[f], o, k)
  PROVE  EE!FragmentOf(f, sizes[f], o, k, s) \in Parts(sizes)
  <1> DEFINE p == [f |-> f, o |-> o, k |-> k, s |-> s]
  <1>1. p \in [f : DOMAIN sizes, o : Nat, k : Nat, s : BOOLEAN]
    OBVIOUS
  <1>2. p.f = f /\ p.o = o /\ p.k = k /\ p.s = s
    OBVIOUS
  <1> HIDE DEF p
  <1>3. p \in Places(sizes)
    BY <1>1, <1>2 DEF Places
  <1>4. EE!FragmentOf(p.f, sizes[p.f], p.o, p.k, p.s) = EE!FragmentOf(f, sizes[f], o, k, s)
    BY <1>2
  <1> QED BY <1>3, <1>4 DEF Parts

LEMMA SizesGrow ==
  ASSUME NEW sizes \in Seq(EoELengths), NEW size \in EoELengths
  PROVE  LET q == Append(sizes, size)
         IN  /\ q \in Seq(EoELengths) /\ Len(q) = Len(sizes) + 1
             /\ \A j \in DOMAIN sizes : j \in DOMAIN q /\ q[j] = sizes[j]
             /\ Len(q) \in DOMAIN q /\ q[Len(q)] = size
             /\ Parts(sizes) \subseteq Parts(q)
  <1> DEFINE q == Append(sizes, size)
  <1>1. /\ q \in Seq(EoELengths) /\ Len(q) = Len(sizes) + 1
        /\ DOMAIN q = 1 .. Len(q) /\ DOMAIN sizes = 1 .. Len(sizes) /\ Len(sizes) \in Nat
        /\ \A j \in 1 .. Len(sizes) : q[j] = sizes[j]
        /\ q[Len(sizes) + 1] = size
    BY AppendProperties
  <1> HIDE DEF q
  <1>2. /\ \A j \in DOMAIN sizes : j \in DOMAIN q /\ q[j] = sizes[j]
        /\ Len(q) \in DOMAIN q /\ q[Len(q)] = size
    BY <1>1
  <1>3. ASSUME NEW m \in Parts(sizes) PROVE m \in Parts(q)
    <2>1. PICK f \in DOMAIN sizes, o \in Nat, k \in Nat, s \in BOOLEAN :
             Place(sizes[f], o, k) /\ m = EE!FragmentOf(f, sizes[f], o, k, s)
      BY PartIs
    <2>2. f \in DOMAIN q /\ q[f] = sizes[f]
      BY <1>2
    <2>3. EE!FragmentOf(f, q[f], o, k, s) \in Parts(q)
      BY <2>1, <2>2, PartIn
    <2> QED BY <2>1, <2>2, <2>3
  <1> QED BY <1>1, <1>2, <1>3 DEF q

\* What the slave sends of its frames.
FramesSlave(service) ==
    /\ it \in SessionType(service, it.rx)
    /\ it.frame = Len(it.sizes)
    /\ it.frame > 0 => /\ it.size = it.sizes[it.frame]
                       /\ it.off <= it.size /\ it.no > 0
                       /\ it.off = it.size \/ InBlocks(it.off)
    /\ out \in Seq(EoEMails(service, it.sizes))
\* Its frames get more, and stay what they are.
FramesStay ==
    \A f \in DOMAIN it.sizes : f \in DOMAIN it'.sizes /\ it'.sizes[f] = it.sizes[f]

LEMMA MailAppended ==
  ASSUME NEW S, NEW T, S \subseteq T, NEW q \in Seq(S), NEW m \in T
  PROVE  Append(q, m) \in Seq(T)
  <1>1. q \in Seq(T)
    OBVIOUS
  <1> QED BY <1>1

LEMMA FramesSlaveStep ==
  ASSUME EoEAssumption, NEW service, FramesSlave(service), EE!SlaveSends
  PROVE  FramesSlave(service)' /\ FramesStay /\ UNCHANGED <<pc, me, result, in>>
  <1>1. /\ it \in SessionType(service, it.rx) /\ it.size \in Nat /\ it.off \in Nat
        /\ it.no \in Nat /\ it.frame \in Nat /\ it.stamp \in BOOLEAN
        /\ it.sizes \in Seq(EoELengths) /\ it.frame = Len(it.sizes)
        /\ out \in Seq(EoEMails(service, it.sizes)) /\ EoELengths \subseteq Nat
    BY DEF FramesSlave, SessionType, EoEAssumption
  <1> DEFINE n == EE!Cut(it.size - it.off)
             f == EE!FragmentOf(it.frame, it.size, it.off, it.no, it.stamp)
  <1>2. CASE /\ it.frame > 0 /\ it.off < it.size
             /\ out' = Append(out, f)
             /\ it' = [it EXCEPT !.off = @ + n, !.no = @ + 1]
             /\ UNCHANGED <<pc, me, result, in>>
    <2>1. /\ it.frame \in DOMAIN it.sizes /\ it.sizes[it.frame] = it.size
          /\ Place(it.size, it.off, it.no)
      BY <1>1, <1>2 DEF FramesSlave, Place
    <2>2. f \in Parts(it.sizes)
      <3>1. EE!FragmentOf(it.frame, it.sizes[it.frame], it.off, it.no, it.stamp)
              \in Parts(it.sizes)
        BY <1>1, <2>1, PartIn
      <3> QED BY <2>1, <3>1
    <2>3. /\ n \in Nat /\ it.off + n <= it.size
          /\ it.off + n = it.size \/ InBlocks(it.off + n)
      BY <1>1, <2>1, CutIs DEF Place
    <2> HIDE DEF f, n
    <2>4. it.off + n \in Nat /\ it.no + 1 \in Nat /\ it.no + 1 > 0
      BY <1>1, <2>3
    <2>5. /\ it' \in SessionType(service, it'.rx)
          /\ it'.off = it.off + n /\ it'.no = it.no + 1 /\ it'.size = it.size
          /\ it'.frame = it.frame /\ it'.sizes = it.sizes
      BY <1>1, <1>2, <2>4 DEF SessionType
    <2>6. out' \in Seq(EoEMails(service, it.sizes))
      <3>1. f \in EoEMails(service, it.sizes)
        BY <2>2 DEF EoEMails
      <3> QED BY <1>1, <1>2, <3>1, MailAppended
    <2>7. FramesStay
      BY <2>5 DEF FramesStay
    <2>8. /\ it'.frame = Len(it'.sizes) /\ it'.size = it'.sizes[it'.frame]
          /\ it'.off <= it'.size /\ it'.no > 0
          /\ it'.off = it'.size \/ InBlocks(it'.off)
      BY <1>1, <2>1, <2>3, <2>4, <2>5
    <2>9. InBlocks(it.off + n) => InBlocks(it.off)'
      BY <2>5 DEF InBlocks
    <2> QED BY <1>2, <2>5, <2>6, <2>7, <2>8, <2>9 DEF FramesSlave
  <1>3. ASSUME NEW size \in EoELengths, NEW stamp \in BOOLEAN,
               out' = Append(out, EE!FragmentOf(it.frame + 1, size, 0, 0, stamp)),
               it' = [it EXCEPT !.frame = @ + 1, !.size = size, !.no = 1,
                                !.off = EE!Cut(size), !.stamp = stamp,
                                !.sizes = Append(@, size)],
               UNCHANGED <<pc, me, result, in>>
        PROVE  FramesSlave(service)' /\ FramesStay
    <2> DEFINE q == Append(it.sizes, size)
               c == EE!Cut(size)
               p == EE!FragmentOf(it.frame + 1, size, 0, 0, stamp)
    <2>1. /\ q \in Seq(EoELengths) /\ Len(q) = it.frame + 1
          /\ \A j \in DOMAIN it.sizes : j \in DOMAIN q /\ q[j] = it.sizes[j]
          /\ it.frame + 1 \in DOMAIN q /\ q[it.frame + 1] = size
          /\ Parts(it.sizes) \subseteq Parts(q)
      BY <1>1, SizesGrow
    <2>2. InBlocks(0)
      <3>1. 0 = 0 * Block
        BY DEF EoEAssumption
      <3> QED BY <3>1 DEF InBlocks
    <2>3. size \in Nat /\ Place(size, 0, 0)
      BY <1>1, <2>2 DEF Place
    <2> HIDE DEF q
    <2>4. p \in Parts(q)
      <3>1. 0 \in Nat
        OBVIOUS
      <3>2. EE!FragmentOf(it.frame + 1, q[it.frame + 1], 0, 0, stamp) \in Parts(q)
        BY <2>1, <2>3, <3>1, PartIn
      <3> QED BY <2>1, <3>2
    <2>5. c \in Nat /\ c <= size /\ (c = size \/ InBlocks(c))
      <3>1. 0 \in Nat /\ 0 <= size /\ size - 0 = size
        BY <2>3
      <3> DEFINE w == EE!Cut(size - 0)
      <3>2. w \in Nat /\ 0 + w <= size /\ (0 + w # size => InBlocks(0 + w))
        BY <2>2, <2>3, <3>1, CutIs
      <3>3. w = c
        BY <3>1
      <3> HIDE DEF w, c
      <3>4. 0 + w = c
        BY <3>2, <3>3
      <3> QED BY <3>2, <3>4
    <2> HIDE DEF p, c
    <2>6. /\ it' \in SessionType(service, it'.rx)
          /\ it'.off = c /\ it'.no = 1 /\ it'.size = size
          /\ it'.frame = it.frame + 1 /\ it'.sizes = q
      <3>1. it' = [it EXCEPT !.frame = it.frame + 1, !.size = size, !.no = 1,
                             !.off = c, !.stamp = stamp, !.sizes = q]
        BY <1>3 DEF c, q
      <3>2. it.frame + 1 \in Nat /\ 1 \in Nat
        BY <1>1
      <3> QED BY <1>1, <2>1, <2>3, <2>5, <3>1, <3>2 DEF SessionType
    <2>7. out' \in Seq(EoEMails(service, q))
      <3>1. p \in EoEMails(service, q) /\ EoEMails(service, it.sizes) \subseteq EoEMails(service, q)
        BY <2>1, <2>4 DEF EoEMails
      <3>2. out' = Append(out, p)
        BY <1>3 DEF p
      <3> QED BY <1>1, <3>1, <3>2, MailAppended
    <2>8. FramesStay
      BY <2>1, <2>6 DEF FramesStay
    <2>9. InBlocks(c) => InBlocks(it.off)'
      BY <2>6 DEF InBlocks
    <2> QED BY <2>1, <2>5, <2>6, <2>7, <2>8, <2>9 DEF FramesSlave
  <1>4. UNCHANGED <<pc, me, result, in>>
    BY DEF EE!SlaveSends, EE!master
  <1>5. \/ /\ it.frame > 0 /\ it.off < it.size
           /\ out' = Append(out, f)
           /\ it' = [it EXCEPT !.off = @ + n, !.no = @ + 1]
        \/ \E size \in EoELengths, stamp \in BOOLEAN :
             /\ out' = Append(out, EE!FragmentOf(it.frame + 1, size, 0, 0, stamp))
             /\ it' = [it EXCEPT !.frame = @ + 1, !.size = size, !.no = 1,
                                 !.off = EE!Cut(size), !.stamp = stamp,
                                 !.sizes = Append(@, size)]
    BY DEF EE!SlaveSends
  <1> QED BY <1>2, <1>3, <1>4, <1>5

\* A mail that is taken or lost.
LEMMA FramesTaken ==
  ASSUME NEW service, FramesSlave(service), UNCHANGED it,
         out' = out \/ (out # <<>> /\ out' = Tail(out))
  PROVE  /\ FramesSlave(service)' /\ FramesStay
         /\ out # <<>> => Head(out) \in EoEMails(service, it.sizes)
  <1>1. out \in Seq(EoEMails(service, it.sizes))
    BY DEF FramesSlave
  <1>2. out # <<>> => /\ Head(out) \in EoEMails(service, it.sizes)
                      /\ Tail(out) \in Seq(EoEMails(service, it.sizes))
    BY <1>1
  <1>3. out' \in Seq(EoEMails(service, it.sizes))
    BY <1>1, <1>2
  <1> QED BY <1>2, <1>3 DEF FramesSlave, FramesStay, SessionType, InBlocks

\* A call begins.
LEMMA FramesBegin ==
  ASSUME NEW service, NEW late, late \subseteq LateParts \cup OtherMail(service),
         it' = EE!Session(service), out' \in {<<>>} \cup {<<m>> : m \in late}
  PROVE  FramesSlave(service)'
  <1>1. EE!Session(service) = [service |-> service, size |-> 0, frame |-> 0, off |-> 0,
             no |-> 0, stamp |-> FALSE, rx |-> EE!NoFrame, sizes |-> <<>>]
    BY DEF EE!Session
  <1>2. <<>> \in Seq(EoELengths) /\ Len(<<>>) = 0 /\ 0 \in Nat /\ FALSE \in BOOLEAN
    OBVIOUS
  <1>3. /\ it' \in SessionType(service, it'.rx) /\ it'.frame = 0 /\ it'.sizes = <<>>
    BY <1>1, <1>2 DEF SessionType
  <1>4. late \subseteq EoEMails(service, <<>>)
    BY DEF EoEMails
  <1>5. out' \in Seq(EoEMails(service, it'.sizes))
    <2>1. CASE out' = <<>>
      BY <2>1
    <2>2. ASSUME NEW m \in late, out' = <<m>>
          PROVE  out' \in Seq(EoEMails(service, it'.sizes))
      <3>1. ASSUME NEW S, NEW x \in S
            PROVE  <<x>> \in Seq(S)
        OBVIOUS
      <3> QED BY <1>3, <1>4, <2>2, <3>1
    <2> QED BY <2>1, <2>2
  <1> QED BY <1>2, <1>3, <1>5 DEF FramesSlave

-------------------------------------------------------------------------------
(* ecx_EOErecv and ecx_EOEreadfragment *)

\* What is in the buffer is the beginning of one of the slave's frames.
RxFrame(rx) ==
    rx.no > 0 => /\ rx.frame \in DOMAIN it.sizes
                 /\ Place(it.sizes[rx.frame], rx.off, rx.no)
                 /\ rx.off < it.sizes[rx.frame]
                 /\ rx.buffer = EE!Bytes(rx.frame, 0, rx.off)
\* The fragment that comes next.
Follows(rx, m, f, o, k, s) ==
    /\ f \in DOMAIN it.sizes /\ o \in Nat /\ k \in Nat /\ s \in BOOLEAN
    /\ it.sizes[f] \in Nat /\ f \in Nat
    /\ Place(it.sizes[f], o, k) /\ m = EE!FragmentOf(f, it.sizes[f], o, k, s)
    /\ RxHas(rx, f, o, k) /\ (k > 0 => rx.frame = f)

LEMMA FramesAre ==
  ASSUME EoEAssumption, NEW service, FramesSlave(service), NEW f \in DOMAIN it.sizes
  PROVE  it.sizes[f] \in EoELengths /\ it.sizes[f] \in Nat /\ f \in Nat /\ f > 0
  <1>1. it.sizes \in Seq(EoELengths) /\ EoELengths \subseteq Nat
    BY DEF FramesSlave, SessionType, EoEAssumption
  <1>2. ASSUME NEW S, NEW q \in Seq(S), NEW j \in DOMAIN q
        PROVE  q[j] \in S /\ j \in Nat /\ j > 0
    OBVIOUS
  <1>3. it.sizes[f] \in EoELengths /\ f \in Nat /\ f > 0
    BY <1>1, <1>2
  <1> QED BY <1>1, <1>3

LEMMA FrameStays ==
  ASSUME FramesStay, NEW rx, RxFrame(rx)
  PROVE  rx.no > 0 => /\ rx.frame \in DOMAIN it'.sizes
                      /\ Place(it'.sizes[rx.frame], rx.off, rx.no)
                      /\ rx.off < it'.sizes[rx.frame]
                      /\ rx.buffer = EE!Bytes(rx.frame, 0, rx.off)
                      /\ it'.sizes[rx.frame] = it.sizes[rx.frame]
  BY DEF FramesStay, RxFrame

LEMMA OneFrameStays ==
  ASSUME FramesStay, NEW b, EE!OneFrame(b)
  PROVE  \E f \in DOMAIN it'.sizes : b = EE!Bytes(f, 0, it'.sizes[f])
  <1>1. PICK f \in DOMAIN it.sizes : b = EE!Bytes(f, 0, it.sizes[f])
    BY DEF EE!OneFrame
  <1>2. f \in DOMAIN it'.sizes /\ it'.sizes[f] = it.sizes[f]
    BY DEF FramesStay
  <1> QED BY <1>1, <1>2

\* A late fragment, and any other mail, is none of a frame that is received.
LEMMA LatePart ==
  ASSUME EoEAssumption, NEW service, FramesSlave(service), NEW m \in EoEMails(service, it.sizes)
  PROVE  \/ m.op = "mail" /\ service = "EOErecv"
         \/ m.op = "fragment" /\ m.frame = 0 /\ m.no = 1
         \/ \E f \in DOMAIN it.sizes, o, k \in Nat, s \in BOOLEAN :
              Place(it.sizes[f], o, k) /\ m = EE!FragmentOf(f, it.sizes[f], o, k, s)
  <1>1. CASE m \in Parts(it.sizes)
    BY <1>1, PartIs
  <1>2. CASE m \in LateParts
    <2>1. PICK size \in EoELengths : m = EE!FragmentOf(0, size, EE!Cut(size), 1, FALSE)
      BY <1>2 DEF LateParts
    <2> QED BY <2>1 DEF EE!FragmentOf
  <1>3. CASE m \in OtherMail(service)
    BY <1>3 DEF OtherMail
  <1> QED BY <1>1, <1>2, <1>3 DEF EoEMails

\* The offset of a first fragment is the size of its frame.
LEMMA PartSays ==
  ASSUME EoEAssumption, NEW service, FramesSlave(service), NEW f \in DOMAIN it.sizes,
         NEW o \in Nat, NEW k \in Nat, NEW s \in BOOLEAN, Place(it.sizes[f], o, k)
  PROVE  LET m == EE!FragmentOf(f, it.sizes[f], o, k, s)
         IN  /\ m.op = "fragment" /\ m.frame = f /\ m.no = k
             /\ k > 0 => m.offset * Block = o
             /\ k = 0 => /\ m.offset * Block = EE!Blocks(it.sizes[f]) * Block
                         /\ m.offset * Block \in Nat /\ m.offset * Block >= it.sizes[f]
  <1> DEFINE m == EE!FragmentOf(f, it.sizes[f], o, k, s)
             size == it.sizes[f]
  <1>1. size \in Nat /\ f \in Nat
    BY FramesAre
  <1>2. IsPart(m, f, size, o, k, s)
    BY <1>1, FragmentIs
  <1>3. /\ EE!Blocks(size) * Block \in Nat /\ EE!Blocks(size) * Block >= size
    BY <1>1, Division
  <1> HIDE DEF m
  <1>4. /\ m.op = "fragment" /\ m.frame = f /\ m.no = k
        /\ k > 0 => m.offset * Block = o
        /\ k = 0 => m.offset = EE!Blocks(size)
    BY <1>2 DEF IsPart
  <1>5. k = 0 => m.offset * Block = EE!Blocks(size) * Block
    BY <1>4
  <1> QED BY <1>3, <1>4, <1>5 DEF m

\* A fragment that is not the last is taken, and more of the frame is there.
LEMMA FrameGrowsBy ==
  ASSUME EoEAssumption, NEW rx, NEW m, NEW f, NEW o, NEW k, NEW s,
         Follows(rx, m, f, o, k, s)
  PROVE  LET r == EE!Opened(rx, m)
             t == EE!Taken(r, m, TRUE)
             n == EE!Cut(it.sizes[f] - o)
         IN  /\ m.last \in BOOLEAN /\ m.stamp \in BOOLEAN
             /\ n \in Nat /\ o + n <= it.sizes[f]
             /\ OpenedIs(r, rx, f, it.sizes[f], o, k) /\ TakenIs(t, r, m, f, it.sizes[f], o, k)
             /\ r.frame = f
             /\ ~m.last => RxFrame(t) /\ Len(m.data) = n /\ t \in RxType /\ t.frame = f
  <1> DEFINE size == it.sizes[f]
             r == EE!Opened(rx, m)
             t == EE!Taken(r, m, TRUE)
             n == EE!Cut(size - o)
  <1>1. /\ f \in DOMAIN it.sizes /\ f \in Nat /\ size \in Nat /\ o \in Nat /\ k \in Nat
        /\ s \in BOOLEAN /\ Place(size, o, k) /\ m = EE!FragmentOf(f, size, o, k, s)
        /\ RxHas(rx, f, o, k) /\ (k > 0 => rx.frame = f)
    BY DEF Follows
  <1>2. IsPart(m, f, size, o, k, s)
    BY <1>1, FragmentIs
  <1>3. OpenedIs(r, rx, f, size, o, k)
    BY <1>1, FragmentOpens
  <1>4. TakenIs(t, r, m, f, size, o, k)
    BY <1>1, FragmentTaken
  <1> HIDE DEF r, t, n, size
  <1>5. /\ m.last \in BOOLEAN /\ m.stamp \in BOOLEAN /\ n \in Nat /\ o + n <= size
        /\ (m.last <=> o + n = size) /\ (o + n # size => InBlocks(o + n))
    BY <1>2 DEF IsPart, n
  <1>6. r.frame = f
    <2>1. (k > 0 => r = rx) /\ (k = 0 => r.frame = f)
      BY <1>3, Zenon DEF OpenedIs
    <2> QED BY <1>1, <2>1
  <1>7. ASSUME ~m.last
        PROVE  RxFrame(t) /\ Len(m.data) = n /\ t \in RxType /\ t.frame = f
    <2>1. /\ Len(m.data) = n /\ t \in RxType /\ t.frame = f /\ t.off = o + n
          /\ t.no = k + 1 /\ RxHas(t, f, o + n, k + 1)
      <3>1. ~(m.last /\ m.stamp)
        BY <1>7
      <3>2. /\ Len(m.data) = n /\ t \in RxType /\ t.frame = r.frame
            /\ t.off = o + Len(m.data) /\ t.no = k + 1
            /\ RxHas(t, f, o + Len(m.data), k + 1)
        BY <1>4, <3>1, Zenon DEF TakenIs, n
      <3> QED BY <1>6, <3>2
    <2>2. o + n \in Nat /\ o + n < size /\ InBlocks(o + n) /\ k + 1 \in Nat /\ k + 1 > 0
      BY <1>1, <1>5, <1>7
    <2>3. Place(size, o + n, k + 1)
      BY <1>1, <2>2 DEF Place
    <2>4. t.buffer = EE!Bytes(f, 0, o + n)
      BY <2>1, <2>2 DEF RxHas
    <2> QED BY <1>1, <2>1, <2>2, <2>3, <2>4 DEF RxFrame, size
  <1> QED BY <1>3, <1>4, <1>5, <1>6, <1>7 DEF r, t, n, size

RecvType == [service : {"EOErecv"}, bufsize : Nat, rx : RxType, cut : {"none", "stamp"}]
\* There is room for the frame that is received.
HasRoom(rx) == rx.no > 0 => EE!Blocks(it.sizes[rx.frame]) * Block <= me.bufsize
RecvEnds ==
    /\ Len(me.rx.buffer) <= me.bufsize
    /\ me.cut = "none" => EE!OneFrame(EE!Received)

RecvInv ==
    /\ pc \in {"request", "receive", "done"}
    /\ me \in RecvType
    /\ FramesSlave("EOErecv")
    /\ pc # "done" => result # "ok" /\ RxFrame(me.rx) /\ HasRoom(me.rx)
    /\ result = "ok" => RecvEnds

LEMMA RecvCall ==
  ASSUME EoEAssumption, result # "ok", EE!CallRecv
  PROVE  RecvInv'
  <1> DEFINE late == {[op |-> "mail"]} \cup
                     {EE!FragmentOf(0, size, EE!Cut(size), 1, FALSE) : size \in EoELengths}
  <1>1. PICK bufsize \in Buffers :
           EE!Begin([service |-> "EOErecv", bufsize |-> bufsize, rx |-> EE!NoFrame,
                     cut |-> "none"], EE!Session("EOErecv"), late)
    BY DEF EE!CallRecv
  <1>2. late \subseteq LateParts \cup OtherMail("EOErecv")
    BY DEF LateParts, OtherMail
  <1> HIDE DEF late
  <1>3. /\ pc' = "request" /\ result' = result /\ it' = EE!Session("EOErecv")
        /\ me' = [service |-> "EOErecv", bufsize |-> bufsize, rx |-> EE!NoFrame,
                  cut |-> "none"]
        /\ out' \in {<<>>} \cup {<<m>> : m \in late}
    BY <1>1 DEF EE!Begin
  <1>4. FramesSlave("EOErecv")'
    BY <1>2, <1>3, FramesBegin
  <1>5. EE!NoFrame \in RxType /\ EE!NoFrame.no = 0
    BY DEF EE!NoFrame, RxType
  <1>6. me' \in RecvType /\ me'.rx.no = 0
    <2>1. bufsize \in Nat
      BY DEF EoEAssumption
    <2> QED BY <1>3, <1>5, <2>1 DEF RecvType
  <1>7. RxFrame(me.rx)' /\ HasRoom(me.rx)'
    BY <1>6 DEF RxFrame, HasRoom
  <1> QED BY <1>3, <1>4, <1>6, <1>7 DEF RecvInv

\* What is not refused continues the frame, and there is room for it.
LEMMA RecvFollows ==
  ASSUME EoEAssumption, RecvInv, pc = "receive", out # <<>>, Head(out).op = "fragment",
         ~EE!Refused(Head(out))
  PROVE  \E f, o, k, s : /\ Follows(me.rx, Head(out), f, o, k, s)
                         /\ EE!Blocks(it.sizes[f]) * Block <= me.bufsize
  <1> DEFINE m == Head(out)
             rx == me.rx
  <1>1. /\ rx \in RxType /\ rx.no \in Nat /\ rx.off \in Int /\ me.bufsize \in Nat
        /\ RxFrame(rx) /\ HasRoom(rx) /\ FramesSlave("EOErecv")
    BY DEF RecvInv, RecvType, RxType
  <1>2. m \in EoEMails("EOErecv", it.sizes)
    <2>1. out \in Seq(EoEMails("EOErecv", it.sizes))
      BY <1>1 DEF FramesSlave
    <2>2. ASSUME NEW S, NEW q \in Seq(S), q # <<>> PROVE Head(q) \in S
      BY <2>2
    <2> QED BY <2>1, <2>2
  <1>3. /\ ~(rx.no # m.no /\ m.no > 0)
        /\ ~(rx.no = 0 /\ m.offset * Block > me.bufsize)
        /\ ~(rx.no > 0 /\ (rx.frame # m.frame \/ rx.off # m.offset * Block))
    BY DEF EE!Refused
  <1> HIDE DEF m, rx
  <1>4. ~(m.frame = 0 /\ m.no = 1)
    <2> SUFFICES ASSUME m.frame = 0, m.no = 1 PROVE FALSE
      OBVIOUS
    <2>1. rx.no = 1 /\ rx.frame = 0
      BY <1>1, <1>3
    <2>2. rx.frame \in DOMAIN it.sizes
      BY <2>1, <1>1 DEF RxFrame
    <2> QED BY <1>1, <2>1, <2>2, FramesAre
  <1>5. m.op = "fragment"
    BY DEF m
  <1>6. PICK f \in DOMAIN it.sizes, o \in Nat, k \in Nat, s \in BOOLEAN :
           Place(it.sizes[f], o, k) /\ m = EE!FragmentOf(f, it.sizes[f], o, k, s)
    <2>1. m.op # "mail"
      BY <1>5
    <2> QED BY <1>1, <1>2, <1>4, <2>1, LatePart
  <1> DEFINE p == EE!Blocks(it.sizes[f]) * Block
             w == m.offset * Block
  <1>7. /\ m.frame = f /\ m.no = k /\ (k > 0 => w = o)
        /\ k = 0 => w = p /\ w \in Nat /\ w >= it.sizes[f]
    <2> DEFINE x == EE!FragmentOf(f, it.sizes[f], o, k, s)
    <2>1. /\ x.frame = f /\ x.no = k /\ (k > 0 => x.offset * Block = o)
          /\ k = 0 => /\ x.offset * Block = EE!Blocks(it.sizes[f]) * Block
                      /\ x.offset * Block \in Nat /\ x.offset * Block >= it.sizes[f]
      BY <1>1, <1>6, PartSays
    <2>2. m = x
      BY <1>6
    <2> HIDE DEF x
    <2> QED BY <2>1, <2>2
  <1>8. f \in Nat /\ it.sizes[f] \in Nat
    BY <1>1, FramesAre
  <1> HIDE DEF w, p
  <1>9. /\ ~(rx.no # k /\ k > 0) /\ ~(rx.no = 0 /\ w > me.bufsize)
        /\ ~(rx.no > 0 /\ (rx.frame # f \/ rx.off # w))
    BY <1>3, <1>7 DEF w
  <1>10. CASE rx.no > 0
    <2>1. rx.frame = f /\ rx.off = w
      BY <1>9, <1>10
    <2>2. /\ Place(it.sizes[f], rx.off, rx.no) /\ rx.off < it.sizes[f]
          /\ rx.buffer = EE!Bytes(f, 0, rx.off)
      BY <1>1, <1>10, <2>1 DEF RxFrame
    <2>3. k > 0
      <3>1. ~(rx.off >= it.sizes[f])
        BY <1>1, <1>8, <2>2
      <3> QED BY <1>6, <1>7, <2>1, <3>1
    <2>4. rx.no = k /\ rx.off = o
      BY <1>7, <1>9, <2>1, <2>3
    <2>5. RxHas(rx, f, o, k)
      BY <1>1, <2>2, <2>4 DEF RxHas
    <2>6. p <= me.bufsize
      BY <1>1, <1>10, <2>1 DEF HasRoom, p, rx
    <2>7. Follows(rx, m, f, o, k, s)
      BY <1>6, <1>8, <2>1, <2>5 DEF Follows
    <2> QED BY <2>6, <2>7 DEF p, rx, m
  <1>11. CASE rx.no = 0
    <2>1. k = 0
      BY <1>6, <1>9, <1>11
    <2>2. RxHas(rx, f, o, k)
      BY <1>1, <1>11, <2>1 DEF RxHas
    <2>3. w = p /\ w \in Nat /\ ~(w > me.bufsize)
      BY <1>7, <1>9, <1>11, <2>1
    <2>4. p <= me.bufsize
      BY <1>1, <2>3
    <2>5. Follows(rx, m, f, o, k, s)
      BY <1>6, <1>8, <2>1, <2>2 DEF Follows
    <2> QED BY <2>4, <2>5 DEF p, rx, m
  <1> QED BY <1>1, <1>10, <1>11

\* The last fragment ends the frame, or it does not fit for its time stamp.
LEMMA RecvLast ==
  ASSUME EoEAssumption, NEW bufsize \in Nat, NEW rx, NEW m, NEW f, NEW o, NEW k, NEW s,
         Follows(rx, m, f, o, k, s), EE!Blocks(it.sizes[f]) * Block <= bufsize, m.last
  PROVE  LET r == EE!Opened(rx, m)
             fits == r.off + Len(m.data) <= bufsize
             g == EE!Stripped(EE!Taken(r, m, fits), m)
         IN  /\ g \in RxType /\ Len(g.buffer) <= bufsize
             /\ EE!Cutoff(m, fits) \in {"none", "stamp"}
             /\ EE!Cutoff(m, fits) = "none" => EE!OneFrame(SubSeq(g.buffer, 1, g.off))
  <1> DEFINE size == it.sizes[f]
             r == EE!Opened(rx, m)
             fits == r.off + Len(m.data) <= bufsize
             t == EE!Taken(r, m, TRUE)
             h == EE!Stripped(t, m)
             n == EE!Cut(size - o)
             c == EE!Cutoff(m, fits)
             g == EE!Stripped(EE!Taken(r, m, fits), m)
  <1>1. /\ f \in DOMAIN it.sizes /\ size \in Nat /\ o \in Nat /\ f \in Nat /\ k \in Nat
    BY DEF Follows
  <1>2. /\ m.last \in BOOLEAN /\ m.stamp \in BOOLEAN /\ n \in Nat /\ o + n <= size
        /\ OpenedIs(r, rx, f, size, o, k) /\ TakenIs(t, r, m, f, size, o, k)
    BY FrameGrowsBy
  <1>3. size <= bufsize
    <2> DEFINE p == EE!Blocks(size) * Block
    <2>1. p \in Nat /\ p >= size
      BY <1>1, Division
    <2>2. p <= bufsize
      OBVIOUS
    <2> HIDE DEF p, size
    <2> QED BY <1>1, <2>1, <2>2
  <1> HIDE DEF r, t, h, n, size
  <1>4. r \in RxType /\ r.off = o /\ r.buffer = EE!Bytes(f, 0, o)
    BY <1>2, Zenon DEF OpenedIs
  <1>5. /\ Len(m.data) \in Nat /\ h \in RxType /\ h.buffer = t.buffer
        /\ Len(t.buffer) = o + Len(m.data)
        /\ SubSeq(t.buffer, 1, h.off) = EE!Bytes(f, 0, size)
        /\ ~(m.last /\ m.stamp) => Len(m.data) = n
    BY <1>2, Zenon DEF TakenIs, h, n
  <1>6. c = IF fits THEN "none" ELSE IF m.stamp THEN "stamp" ELSE "size"
    BY DEF EE!Cutoff
  <1>7. CASE fits
    <2>1. c = "none"
      BY <1>6, <1>7
    <2>2. g = h
      BY <1>7 DEF h, t, EE!Taken
    <2>3. o + Len(m.data) <= bufsize
      BY <1>4, <1>7
    <2> HIDE DEF fits, c, g
    <2>4. Len(g.buffer) <= bufsize /\ g \in RxType
      BY <1>5, <2>2, <2>3
    <2>5. SubSeq(g.buffer, 1, g.off) = EE!Bytes(f, 0, size)
      BY <1>5, <2>2
    <2>6. EE!OneFrame(SubSeq(g.buffer, 1, g.off))
      BY <1>1, <2>5 DEF EE!OneFrame, size
    <2> QED BY <2>1, <2>4, <2>6 DEF c, g, fits, r
  <1>8. CASE ~fits
    <2>1. m.stamp
      <3>1. SUFFICES ASSUME ~m.stamp PROVE FALSE
        BY <1>2
      <3>2. Len(m.data) = n
        BY <1>5, <3>1, Zenon
      <3> QED BY <1>1, <1>2, <1>3, <1>4, <1>8, <3>2
    <2>2. c = "stamp"
      BY <1>6, <1>8, <2>1
    <2>3. g = EE!Stripped(r, m)
      BY <1>8 DEF EE!Taken
    <2> HIDE DEF fits, c, g
    <2>4. g = [r EXCEPT !.off = r.off - Stamp]
      <3>1. EE!Stripped(r, m) = [r EXCEPT !.off = @ - Stamp]
        BY <2>1 DEF EE!Stripped
      <3> QED BY <2>3, <3>1
    <2>5. r.off - Stamp \in Int
      BY <1>1, <1>4 DEF EoEAssumption
    <2>6. g \in RxType /\ g.buffer = EE!Bytes(f, 0, o)
      BY <1>4, <2>4, <2>5 DEF RxType
    <2>7. Len(EE!Bytes(f, 0, o)) = o
      BY <1>1, FrameBytes
    <2>8. Len(g.buffer) <= bufsize
      BY <1>1, <1>2, <1>3, <2>6, <2>7
    <2> QED BY <2>2, <2>6, <2>8 DEF c, g, fits, r
  <1> QED BY <1>7, <1>8

LEMMA RecvTakes ==
  ASSUME EoEAssumption, RecvInv, EE!RecvFragment
  PROVE  RecvInv'
  <1> DEFINE m == Head(out)
             r == EE!Opened(me.rx, m)
             fits == r.off + Len(m.data) <= me.bufsize
             t == EE!Taken(r, m, fits)
             c == EE!Cutoff(m, fits)
             next == [me EXCEPT !.rx = t, !.cut = c]
  <1>1. /\ pc = "receive" /\ UNCHANGED <<in, it>> /\ m.op = "fragment" /\ ~EE!Refused(m)
        /\ out # <<>> /\ out' = Tail(out)
        /\ IF m.last THEN /\ me' = [next EXCEPT !.rx = EE!Stripped(@, m)]
                          /\ pc' = "done" /\ result' = "ok"
           ELSE me' = next /\ pc' = "receive" /\ result' = result
    BY DEF EE!RecvFragment, EE!Reply, EE!At, EE!Take, EE!Stay, EE!Return
  <1>2. /\ me \in RecvType /\ me.bufsize \in Nat /\ FramesSlave("EOErecv") /\ result # "ok"
    BY <1>1 DEF RecvInv, RecvType
  <1>3. PICK f, o, k, s : /\ Follows(me.rx, m, f, o, k, s)
                          /\ EE!Blocks(it.sizes[f]) * Block <= me.bufsize
    BY <1>1, RecvFollows
  <1>4. FramesSlave("EOErecv")'
    BY <1>1, <1>2, FramesTaken
  <1> HIDE DEF m
  <1>5. m.last \in BOOLEAN
    BY <1>3, FrameGrowsBy
  <1>6. CASE m.last
    <2> DEFINE g == EE!Stripped(t, m)
    <2>1. /\ g \in RxType /\ Len(g.buffer) <= me.bufsize /\ c \in {"none", "stamp"}
          /\ c = "none" => EE!OneFrame(SubSeq(g.buffer, 1, g.off))
      BY <1>2, <1>3, <1>6, RecvLast
    <2> HIDE DEF t, c
    <2>2. me' = [me EXCEPT !.rx = g, !.cut = c] /\ pc' = "done"
      <3>1. me' = [next EXCEPT !.rx = EE!Stripped(@, m)] /\ pc' = "done"
        BY <1>1, <1>6
      <3>2. next \in [service : {"EOErecv"}, bufsize : Nat, rx : {t}, cut : {c}]
        BY <1>2 DEF RecvType
      <3> QED BY <1>2, <3>1, <3>2 DEF RecvType
    <2> HIDE DEF g
    <2>3. me' \in RecvType /\ me'.rx = g /\ me'.cut = c /\ me'.bufsize = me.bufsize
      BY <1>2, <2>1, <2>2 DEF RecvType
    <2>4. RecvEnds'
      <3>1. SubSeq(me'.rx.buffer, 1, me'.rx.off) = SubSeq(g.buffer, 1, g.off)
        BY <2>3
      <3>2. me'.cut = "none" => EE!OneFrame(SubSeq(g.buffer, 1, g.off))
        BY <2>1, <2>3
      <3> QED BY <1>1, <2>1, <2>3, <3>1, <3>2 DEF RecvEnds, EE!Received, EE!OneFrame
    <2> QED BY <1>4, <2>2, <2>3, <2>4 DEF RecvInv
  <1>7. CASE ~m.last
    <2> DEFINE n == EE!Cut(it.sizes[f] - o)
               u == EE!Taken(r, m, TRUE)
    <2>1. /\ n \in Nat /\ o + n <= it.sizes[f] /\ OpenedIs(r, me.rx, f, it.sizes[f], o, k)
          /\ RxFrame(u) /\ Len(m.data) = n /\ u \in RxType /\ u.frame = f
      BY <1>3, <1>7, FrameGrowsBy, Zenon
    <2>2. it.sizes[f] \in Nat /\ o \in Nat
      BY <1>3 DEF Follows
    <2>3. fits
      <3> DEFINE p == EE!Blocks(it.sizes[f]) * Block
      <3>1. p \in Nat /\ p >= it.sizes[f] /\ p <= me.bufsize
        BY <1>3, <2>2, Division
      <3>2. r.off = o
        BY <2>1, Zenon DEF OpenedIs
      <3> HIDE DEF p, n, r
      <3> QED BY <1>2, <2>1, <2>2, <3>1, <3>2
    <2>4. t = u /\ c = "none"
      BY <2>3 DEF EE!Taken, EE!Cutoff
    <2> HIDE DEF t, u, c
    <2>5. me' = [me EXCEPT !.rx = u, !.cut = "none"] /\ pc' = "receive" /\ result' = result
      BY <1>1, <1>7, <2>4
    <2>6. me' \in RecvType /\ me'.rx = u /\ me'.bufsize = me.bufsize
      BY <1>2, <2>1, <2>5 DEF RecvType
    <2>7. RxFrame(me.rx)' /\ HasRoom(me.rx)'
      <3>1. EE!Blocks(it.sizes[u.frame]) * Block <= me.bufsize
        BY <1>3, <2>1
      <3> QED BY <1>1, <2>1, <2>6, <3>1 DEF RxFrame, HasRoom
    <2> QED BY <1>2, <1>4, <2>5, <2>6, <2>7 DEF RecvInv
  <1> QED BY <1>5, <1>6, <1>7

\* The other steps of the call, and the slave's.
LEMMA RecvStep ==
  ASSUME RecvInv, EE!AwaitFirst \/ EE!RecvRefused \/ EE!RecvTimeout
  PROVE  RecvInv'
  <1>1. UNCHANGED <<me, it>> /\ FramesSlave("EOErecv")
    BY DEF EE!AwaitFirst, EE!RecvRefused, EE!RecvTimeout, EE!slave, RecvInv
  <1>2. CASE EE!AwaitFirst
    <2>1. pc = "request" /\ pc' = "receive" /\ UNCHANGED <<result, me, in, out, it>>
      BY <1>2 DEF EE!AwaitFirst, EE!At, EE!Stay, EE!slave
    <2>2. FramesSlave("EOErecv")'
      BY <1>1, <2>1, FramesTaken
    <2> QED BY <2>1, <2>2 DEF RecvInv, RxFrame, HasRoom
  <1>3. CASE EE!RecvRefused \/ EE!RecvTimeout
    <2>1. /\ pc' = "done" /\ result' # "ok"
          /\ out' = out \/ (out # <<>> /\ out' = Tail(out))
      BY <1>3 DEF EE!RecvRefused, EE!RecvTimeout, EE!Reply, EE!Take, EE!Return, EE!Failed,
         EE!Miss
    <2>2. FramesSlave("EOErecv")'
      BY <1>1, <2>1, FramesTaken
    <2> QED BY <1>1, <2>1, <2>2 DEF RecvInv
  <1> QED BY <1>2, <1>3

LEMMA RecvSlaveStep ==
  ASSUME EoEAssumption, RecvInv, EE!SlaveSends
  PROVE  RecvInv'
  <1>1. /\ FramesSlave("EOErecv")' /\ FramesStay /\ UNCHANGED <<pc, me, result, in>>
    BY FramesSlaveStep DEF RecvInv
  <1>2. pc # "done" => RxFrame(me.rx)' /\ HasRoom(me.rx)'
    <2> SUFFICES ASSUME pc # "done" PROVE RxFrame(me.rx)' /\ HasRoom(me.rx)'
      OBVIOUS
    <2>1. RxFrame(me.rx) /\ HasRoom(me.rx)
      BY DEF RecvInv
    <2> QED BY <1>1, <2>1, FrameStays DEF RxFrame, HasRoom
  <1>3. result = "ok" => RecvEnds'
    <2> SUFFICES ASSUME result = "ok", me.cut = "none"
                 PROVE  EE!OneFrame(EE!Received)'
      BY <1>1 DEF RecvInv, RecvEnds
    <2>1. EE!OneFrame(EE!Received)
      BY DEF RecvInv, RecvEnds
    <2>2. \E f \in DOMAIN it'.sizes : EE!Received = EE!Bytes(f, 0, it'.sizes[f])
      BY <1>1, <2>1, OneFrameStays
    <2>3. EE!Received' = EE!Received
      BY <1>1 DEF EE!Received
    <2> QED BY <2>2, <2>3 DEF EE!OneFrame
  <1> QED BY <1>1, <1>2, <1>3 DEF RecvInv

HookType(frame) ==
    [service : {"EOEhook"}, bufsize : Nat, rx : RxType, cut : {"none", "stamp", "size"},
     frame : {frame}]

HookInv ==
    /\ pc \in {"request", "done"}
    /\ me \in HookType(me.frame)
    /\ FramesSlave("EOEhook")
    /\ RxFrame(me.rx)
    /\ me.frame = <<>> \/ me.cut # "none" \/ EE!OneFrame(me.frame)

LEMMA NoFrameIs == EE!NoFrame \in RxType /\ EE!NoFrame.no = 0
  BY DEF EE!NoFrame, RxType

LEMMA HookCall ==
  ASSUME EoEAssumption, EE!CallHook
  PROVE  HookInv'
  <1> DEFINE late == {EE!FragmentOf(0, size, EE!Cut(size), 1, FALSE) : size \in EoELengths}
  <1>1. PICK bufsize \in Buffers :
           EE!Begin([service |-> "EOEhook", bufsize |-> bufsize, rx |-> EE!NoFrame,
                     cut |-> "none", frame |-> <<>>], EE!Session("EOEhook"), late)
    BY DEF EE!CallHook
  <1>2. late \subseteq LateParts \cup OtherMail("EOEhook")
    BY DEF LateParts
  <1> HIDE DEF late
  <1>3. /\ pc' = "request" /\ it' = EE!Session("EOEhook")
        /\ me' = [service |-> "EOEhook", bufsize |-> bufsize, rx |-> EE!NoFrame,
                  cut |-> "none", frame |-> <<>>]
        /\ out' \in {<<>>} \cup {<<m>> : m \in late}
    BY <1>1 DEF EE!Begin
  <1>4. FramesSlave("EOEhook")'
    BY <1>2, <1>3, FramesBegin
  <1>5. me' \in HookType(me'.frame) /\ me'.rx.no = 0 /\ me'.frame = <<>>
    <2>1. bufsize \in Nat
      BY DEF EoEAssumption
    <2> QED BY <1>3, <2>1, NoFrameIs DEF HookType
  <1>6. RxFrame(me.rx)'
    BY <1>5 DEF RxFrame
  <1> QED BY <1>3, <1>4, <1>5, <1>6 DEF HookInv

\* A fragment that is not dropped continues the frame, or begins one.
LEMMA HookFollows ==
  ASSUME EoEAssumption, HookInv, NEW m \in EoEMails("EOEhook", it.sizes),
         ~(EE!Restarted(m).no # m.no /\ m.no > 0), ~EE!Foreign(EE!Restarted(m), m)
  PROVE  /\ \E f, o, k, s : Follows(EE!Restarted(m), m, f, o, k, s)
         /\ RxFrame(EE!Restarted(m)) /\ EE!Restarted(m) \in RxType
  <1> DEFINE r == EE!Restarted(m)
  <1>1. /\ me.rx \in RxType /\ RxFrame(me.rx) /\ FramesSlave("EOEhook")
    BY DEF HookInv, HookType
  <1>2. /\ r \in RxType /\ RxFrame(r) /\ r.no \in Nat /\ r.off \in Int
        /\ r.no # m.no => r.no = 0
    <2>1. r = IF me.rx.no # m.no THEN EE!NoFrame ELSE me.rx
      BY DEF EE!Restarted
    <2>2. RxFrame(EE!NoFrame)
      BY NoFrameIs DEF RxFrame
    <2> HIDE DEF r
    <2>3. r \in RxType /\ RxFrame(r) /\ (r.no # m.no => r.no = 0)
      BY <1>1, <2>1, <2>2, NoFrameIs
    <2>4. r.no \in Nat /\ r.off \in Int
      BY <2>3 DEF RxType
    <2> QED BY <2>3, <2>4
  <1>3. /\ ~(r.no # m.no /\ m.no > 0)
        /\ ~(r.no > 0 /\ (r.frame # m.frame \/ r.off # m.offset * Block))
    BY DEF EE!Foreign
  <1> HIDE DEF r
  <1>4. ~(m.frame = 0 /\ m.no = 1)
    <2> SUFFICES ASSUME m.frame = 0, m.no = 1 PROVE FALSE
      OBVIOUS
    <2>1. r.no = 1 /\ r.frame = 0
      BY <1>2, <1>3
    <2>2. r.frame \in DOMAIN it.sizes
      BY <2>1, <1>2 DEF RxFrame
    <2> QED BY <1>1, <2>1, <2>2, FramesAre
  <1>6. PICK f \in DOMAIN it.sizes, o \in Nat, k \in Nat, s \in BOOLEAN :
           Place(it.sizes[f], o, k) /\ m = EE!FragmentOf(f, it.sizes[f], o, k, s)
    BY <1>1, <1>4, LatePart
  <1> DEFINE w == m.offset * Block
  <1>7. m.frame = f /\ m.no = k /\ (k > 0 => w = o)
    <2> DEFINE x == EE!FragmentOf(f, it.sizes[f], o, k, s)
    <2>1. x.frame = f /\ x.no = k /\ (k > 0 => x.offset * Block = o)
      BY <1>1, <1>6, PartSays
    <2>2. m = x
      BY <1>6
    <2> HIDE DEF x
    <2> QED BY <2>1, <2>2
  <1>8. f \in Nat /\ it.sizes[f] \in Nat
    BY <1>1, FramesAre
  <1> HIDE DEF w
  <1>9. /\ ~(r.no # k /\ k > 0)
        /\ ~(r.no > 0 /\ (r.frame # f \/ r.off # w))
        /\ r.no # k => r.no = 0
    BY <1>2, <1>3, <1>7 DEF w
  <1>10. r.no = k
    BY <1>6, <1>9
  <1>11. CASE k > 0
    <2>1. r.frame = f /\ r.off = o
      BY <1>7, <1>9, <1>10, <1>11
    <2>2. r.buffer = EE!Bytes(f, 0, o)
      BY <1>2, <1>10, <1>11, <2>1 DEF RxFrame
    <2>3. RxHas(r, f, o, k)
      BY <1>2, <1>10, <2>1, <2>2 DEF RxHas
    <2>4. Follows(r, m, f, o, k, s)
      BY <1>6, <1>8, <2>1, <2>3 DEF Follows
    <2> QED BY <1>2, <2>4 DEF r
  <1>12. CASE k = 0
    <2>1. RxHas(r, f, o, k)
      BY <1>2, <1>10, <1>12 DEF RxHas
    <2>2. Follows(r, m, f, o, k, s)
      BY <1>6, <1>8, <1>12, <2>1 DEF Follows
    <2> QED BY <1>2, <2>2 DEF r
  <1> QED BY <1>6, <1>11, <1>12

LEMMA HookTakes ==
  ASSUME EoEAssumption, HookInv, EE!HookFragment
  PROVE  HookInv'
  <1> DEFINE m == Head(out)
             q == EE!Restarted(m)
             r == EE!Opened(q, m)
             fits == r.off + Len(m.data) <= EE!Least(r.size, me.bufsize)
             t == EE!Taken(r, m, fits)
             c == EE!Cutoff(m, fits)
             b == SubSeq(t.buffer, 1, EE!Stripped(t, m).off)
             drops == (q.no # m.no /\ m.no > 0) \/ EE!Foreign(q, m)
  <1>1. /\ pc = "request" /\ out # <<>> /\ out' = Tail(out) /\ UNCHANGED <<pc, result, in, it>>
        /\ me' = IF drops THEN [me EXCEPT !.rx = EE!NoFrame]
                 ELSE IF m.last THEN [me EXCEPT !.rx = EE!NoFrame, !.cut = c, !.frame = b]
                 ELSE [me EXCEPT !.rx = t]
    BY DEF EE!HookFragment, EE!At, EE!Take
  <1>2. /\ me \in HookType(me.frame) /\ FramesSlave("EOEhook")
        /\ me.frame = <<>> \/ me.cut # "none" \/ EE!OneFrame(me.frame)
    BY DEF HookInv
  <1>3. FramesSlave("EOEhook")' /\ m \in EoEMails("EOEhook", it.sizes)
    BY <1>1, <1>2, FramesTaken
  <1> HIDE DEF m
  <1>4. ASSUME NEW x \in RxType, RxFrame(x), me' = [me EXCEPT !.rx = x]
        PROVE  HookInv'
    <2>1. /\ me' \in HookType(me'.frame) /\ me'.rx = x /\ me'.frame = me.frame
          /\ me'.cut = me.cut
      BY <1>2, <1>4 DEF HookType
    <2>2. RxFrame(me.rx)'
      BY <1>1, <1>4, <2>1 DEF RxFrame
    <2> QED BY <1>1, <1>2, <1>3, <2>1, <2>2 DEF HookInv, EE!OneFrame
  <1>5. CASE drops
    <2>1. RxFrame(EE!NoFrame)
      BY NoFrameIs DEF RxFrame
    <2> QED BY <1>1, <1>4, <1>5, <2>1, NoFrameIs
  <1>6. CASE ~drops
    <2>2. PICK f, o, k, s : Follows(q, m, f, o, k, s)
      BY <1>3, <1>6, HookFollows
    <2> DEFINE n == EE!Cut(it.sizes[f] - o)
               u == EE!Taken(r, m, TRUE)
    <2>3. /\ m.last \in BOOLEAN /\ OpenedIs(r, q, f, it.sizes[f], o, k)
          /\ TakenIs(u, r, m, f, it.sizes[f], o, k)
          /\ ~m.last => RxFrame(u) /\ u \in RxType
      BY <2>2, FrameGrowsBy
    <2>4. RxFrame(q) /\ q \in RxType
      BY <1>3, <1>6, HookFollows
    <2>5. CASE m.last
      <3>1. me' = [me EXCEPT !.rx = EE!NoFrame, !.cut = c, !.frame = b]
        BY <1>1, <1>6, <2>5
      <3>2. c \in {"none", "stamp", "size"} /\ (c = "none" => fits)
        BY DEF EE!Cutoff
      <3>3. fits => b = EE!Bytes(f, 0, it.sizes[f])
        <4> SUFFICES ASSUME fits PROVE b = EE!Bytes(f, 0, it.sizes[f])
          OBVIOUS
        <4>1. t = u
          BY DEF EE!Taken
        <4>2. SubSeq(u.buffer, 1, EE!Stripped(u, m).off) = EE!Bytes(f, 0, it.sizes[f])
          BY <2>3, <2>5, Zenon DEF TakenIs
        <4> HIDE DEF t, u
        <4> QED BY <4>1, <4>2
      <3> HIDE DEF b, c, fits
      <3>4. /\ me' \in HookType(me'.frame) /\ me'.rx = EE!NoFrame /\ me'.frame = b
            /\ me'.cut = c
        BY <1>2, <3>1, <3>2, NoFrameIs DEF HookType
      <3>5. RxFrame(me.rx)'
        BY <3>4, NoFrameIs DEF RxFrame
      <3>6. c = "none" => EE!OneFrame(b)
        BY <2>2, <3>2, <3>3 DEF EE!OneFrame, Follows
      <3>7. me'.cut # "none" \/ EE!OneFrame(me.frame)'
        BY <1>1, <3>4, <3>6 DEF EE!OneFrame
      <3> QED BY <1>1, <1>3, <3>4, <3>5, <3>7 DEF HookInv
    <2>6. CASE ~m.last
      <3>1. me' = [me EXCEPT !.rx = t]
        BY <1>1, <1>6, <2>6
      <3>2. CASE fits
        <4>1. t = u
          BY <3>2 DEF EE!Taken
        <4> HIDE DEF t, u
        <4> QED BY <1>4, <2>3, <2>6, <3>1, <4>1
      <3>3. CASE ~fits
        <4>1. t = r
          BY <3>3 DEF EE!Taken
        <4>2. r \in RxType /\ r.no = k /\ (k > 0 => r = q)
          BY <2>3, Zenon DEF OpenedIs
        <4>3. k \in Nat
          BY <2>2 DEF Follows
        <4> HIDE DEF t, r, q
        <4>4. RxFrame(r)
          <5>1. CASE k > 0
            BY <2>4, <4>2, <5>1
          <5>2. CASE ~(k > 0)
            BY <4>2, <4>3, <5>2 DEF RxFrame
          <5> QED BY <5>1, <5>2
        <4> QED BY <1>4, <3>1, <4>1, <4>2, <4>4
      <3> QED BY <3>2, <3>3
    <2> QED BY <2>3, <2>5, <2>6
  <1> QED BY <1>5, <1>6

\* The other steps, and the slave's.
LEMMA HookStep ==
  ASSUME HookInv, EE!HookEnds \/ EE!HookLoses
  PROVE  HookInv'
  <1>1. /\ UNCHANGED <<me, it>> /\ FramesSlave("EOEhook") /\ pc' \in {"request", "done"}
        /\ out' = out \/ (out # <<>> /\ out' = Tail(out))
    BY DEF EE!HookEnds, EE!HookLoses, EE!At, EE!Return, EE!slave, EE!master, HookInv
  <1>2. FramesSlave("EOEhook")'
    BY <1>1, FramesTaken
  <1> QED BY <1>1, <1>2 DEF HookInv, RxFrame, EE!OneFrame

LEMMA HookSlaveStep ==
  ASSUME EoEAssumption, HookInv, EE!SlaveSends
  PROVE  HookInv'
  <1>1. /\ FramesSlave("EOEhook")' /\ FramesStay /\ UNCHANGED <<pc, me, result, in>>
    BY FramesSlaveStep DEF HookInv
  <1>2. RxFrame(me.rx)'
    <2>1. RxFrame(me.rx)
      BY DEF HookInv
    <2> QED BY <1>1, <2>1, FrameStays DEF RxFrame
  <1>3. EE!OneFrame(me.frame) => EE!OneFrame(me.frame)'
    BY <1>1, OneFrameStays DEF EE!OneFrame
  <1> QED BY <1>1, <1>2, <1>3 DEF HookInv

-------------------------------------------------------------------------------
(* All the protocols *)

\* Nothing was called yet, ...
Idle ==
    /\ pc = "idle" /\ me.service = "none" /\ it.service = "none"
    /\ in = None /\ result # "ok"

\* ... or a file goes up or down, or an object, a PDO, a list or the entries of an
\* object, or an IDN, or a frame, or the call is another one, whose result is one mail.
ReadInv == ReadSlave /\ ReadMaster

Proved == {"FOEread", "FOEwrite", "SDOread", "TxPDO", "SDOwrite", "RxPDO", "ODlist", "OE",
           "SoEread", "SoEwrite", "EOEsend", "EOErecv", "EOEhook"}
Others == pc # "idle" /\ "service" \in DOMAIN me /\ me.service \notin Proved

TransferInv ==
    \/ Idle \/ Others
    \/ ReadInv \/ WriteInv
    \/ UploadInv \/ TxPDOInv \/ DownloadInv \/ RxPDOInv \/ ODlistInv \/ EntryInv
    \/ IdnReadInv \/ IdnWriteInv \/ SendInv \/ RecvInv \/ HookInv

\* Every invariant is about its own call and its own slave.
LEMMA Owners ==
  /\ ReadInv => pc # "idle" /\ me.service = "FOEread" /\ it.service = "FOEread"
  /\ WriteInv => pc # "idle" /\ me.service = "FOEwrite" /\ it.service = "FOEwrite"
  /\ UploadInv => pc # "idle" /\ me.service = "SDOread" /\ it.service = "SDOread"
  /\ TxPDOInv => pc # "idle" /\ me.service = "TxPDO" /\ it.service = "TxPDO"
  /\ DownloadInv => pc # "idle" /\ me.service = "SDOwrite" /\ it.service = "SDOwrite"
  /\ RxPDOInv => pc # "idle" /\ me.service = "RxPDO" /\ it.service = "RxPDO"
  /\ ODlistInv => pc # "idle" /\ me.service = "ODlist" /\ it.service = "ODlist"
  /\ EntryInv => pc # "idle" /\ me.service = "OE" /\ it.service = "OE"
  /\ IdnReadInv => pc # "idle" /\ me.service = "SoEread" /\ it.service = "SoEread"
  /\ IdnWriteInv => pc # "idle" /\ me.service = "SoEwrite" /\ it.service = "SoEwrite"
  /\ SendInv => pc # "idle" /\ me.service = "EOEsend" /\ it.service = "EOEsend"
  /\ RecvInv => pc # "idle" /\ me.service = "EOErecv" /\ it.service = "EOErecv"
  /\ HookInv => pc # "idle" /\ me.service = "EOEhook" /\ it.service = "EOEhook"
  <1>1. ReadInv => pc # "idle" /\ me.service = "FOEread" /\ it.service = "FOEread"
    BY DEF ReadInv, ReadMaster, ReadSlave
  <1>2. WriteInv => pc # "idle" /\ me.service = "FOEwrite" /\ it.service = "FOEwrite"
    BY DEF WriteInv, WriteMaster, WriteSlave
  <1>3. UploadInv => pc # "idle" /\ me.service = "SDOread" /\ it.service = "SDOread"
    BY DEF UploadInv
  <1>4. TxPDOInv => pc # "idle" /\ me.service = "TxPDO" /\ it.service = "TxPDO"
    BY DEF TxPDOInv
  <1>5. DownloadInv => pc # "idle" /\ me.service = "SDOwrite" /\ it.service = "SDOwrite"
    BY DEF DownloadInv, DownloadMaster, DownloadSlave
  <1>6. RxPDOInv => pc # "idle" /\ me.service = "RxPDO" /\ it.service = "RxPDO"
    BY DEF RxPDOInv
  <1>7. ODlistInv => pc # "idle" /\ me.service = "ODlist" /\ it.service = "ODlist"
    BY DEF ODlistInv
  <1>8. EntryInv => pc # "idle" /\ me.service = "OE" /\ it.service = "OE"
    BY DEF EntryInv, EntryType
  <1>9. IdnReadInv => pc # "idle" /\ me.service = "SoEread" /\ it.service = "SoEread"
    BY DEF IdnReadInv
  <1>10. IdnWriteInv => pc # "idle" /\ me.service = "SoEwrite" /\ it.service = "SoEwrite"
    BY DEF IdnWriteInv, IdnCallType, IdnSlaveType
  <1>11. SendInv => pc # "idle" /\ me.service = "EOEsend" /\ it.service = "EOEsend"
    BY DEF SendInv, SessionType
  <1>12. RecvInv => pc # "idle" /\ me.service = "EOErecv" /\ it.service = "EOErecv"
    BY DEF RecvInv, RecvType, FramesSlave, SessionType
  <1>13. HookInv => pc # "idle" /\ me.service = "EOEhook" /\ it.service = "EOEhook"
    BY DEF HookInv, HookType, FramesSlave, SessionType
  <1> QED BY <1>1, <1>2, <1>3, <1>4, <1>5, <1>6, <1>7, <1>8, <1>9, <1>10, <1>11, <1>12, <1>13

LEMMA NotStarted ==
  ASSUME TransferInv, pc = "idle"
  PROVE  in = None /\ result # "ok"
  BY Owners DEF TransferInv, Idle, Others

\* The call that runs says which invariant holds, ...
LEMMA OwnCall ==
  ASSUME TransferInv
  PROVE  /\ me.service = "FOEread" => ReadInv
         /\ me.service = "FOEwrite" => WriteInv
         /\ me.service = "SDOread" => UploadInv
         /\ me.service = "TxPDO" => TxPDOInv
         /\ me.service = "SDOwrite" => DownloadInv
         /\ me.service = "RxPDO" => RxPDOInv
         /\ me.service = "ODlist" => ODlistInv
         /\ me.service = "OE" => EntryInv
         /\ me.service = "SoEread" => IdnReadInv
         /\ me.service = "SoEwrite" => IdnWriteInv
         /\ me.service = "EOEsend" => SendInv
         /\ me.service = "EOErecv" => RecvInv
         /\ me.service = "EOEhook" => HookInv
  BY Owners DEF TransferInv, Idle, Others, Proved

\* ... and so does the slave, unless the call is another one.
LEMMA OwnSlave ==
  ASSUME TransferInv
  PROVE  /\ it.service = "FOEread" => ReadInv \/ Others
         /\ it.service = "FOEwrite" => WriteInv \/ Others
         /\ it.service = "SDOread" => UploadInv \/ Others
         /\ it.service = "TxPDO" => TxPDOInv \/ Others
         /\ it.service = "SDOwrite" => DownloadInv \/ Others
         /\ it.service = "RxPDO" => RxPDOInv \/ Others
         /\ it.service = "ODlist" => ODlistInv \/ Others
         /\ it.service = "OE" => EntryInv \/ Others
         /\ it.service = "SoEread" => IdnReadInv \/ Others
         /\ it.service = "SoEwrite" => IdnWriteInv \/ Others
         /\ it.service = "EOEsend" => SendInv \/ Others
         /\ it.service = "EOErecv" => RecvInv \/ Others
         /\ it.service = "EOEhook" => HookInv \/ Others
  BY Owners DEF TransferInv, Idle

\* A slave changes nothing of another call.
LEMMA OthersStay ==
  ASSUME Others, UNCHANGED <<pc, me, result>>
  PROVE  TransferInv'
  BY DEF Others, Proved, TransferInv

\* A step of ecx_FOEread, of its slave or of its call.
LEMMA FoEReadNext ==
  ASSUME SizeAssumption, TransferInv, FR!Next
  PROVE  TransferInv'
  <1>1. CASE FR!Call
    <2>1. pc = "idle"
      BY <1>1 DEF FR!Call, FR!Begin
    <2> QED BY <1>1, <2>1, NotStarted, ReadCall DEF TransferInv, ReadInv
  <1>2. CASE FR!Master
    <2>1. me.service = "FOEread"
      BY <1>2 DEF FR!Master, FR!SendRequest, FR!RecvData, FR!RecvDataRefused,
         FR!RecvOther, FR!RecvTimeout, FR!Reply, FR!At
    <2> QED BY <1>2, <2>1, OwnCall, ReadDataStep, ReadOtherStep
            DEF FR!Master, ReadInv, TransferInv
  <1>3. CASE FR!SlaveSends \/ FR!SlaveStray \/ FR!DeliverTwice
    <2>1. it.service = "FOEread" /\ UNCHANGED <<pc, me, result>>
      BY <1>3 DEF FR!SlaveSends, FR!SlaveStray, FR!DeliverTwice, FR!Asked, FR!master
    <2>2. CASE ReadInv
      <3>1. ReadSlave' /\ it'.size = it.size
        BY <1>3, <2>2, ReadSlaveStep DEF ReadInv
      <3> QED BY <2>1, <2>2, <3>1 DEF ReadInv, ReadMaster, TransferInv
    <2> QED BY <2>1, <2>2, OwnSlave, OthersStay
  <1> QED BY <1>1, <1>2, <1>3 DEF FR!Next

\* A step of ecx_FOEwrite, of its slave or of its call.
LEMMA FoEWriteNext ==
  ASSUME SizeAssumption, TransferInv, FW!Next
  PROVE  TransferInv'
  <1>1. CASE FW!Call
    <2>1. pc = "idle"
      BY <1>1 DEF FW!Call, FW!Begin
    <2> QED BY <1>1, <2>1, NotStarted, WriteCall DEF TransferInv
  <1>2. CASE FW!Master
    <2>1. me.service = "FOEwrite"
      BY <1>2 DEF FW!Master, FW!SendRequest, FW!RecvAckSend, FW!RecvAckLast,
         FW!Acknowledged, FW!RecvAckWrong, FW!RecvBusy, FW!RecvError,
         FW!RecvOther, FW!RecvTimeout, FW!Reply, FW!At
    <2> QED BY <1>2, <2>1, OwnCall, SendStep, LastStep, BusyStep, WriteOtherStep
            DEF FW!Master, TransferInv
  <1>3. CASE FW!SlaveStores \/ FW!SlaveRefuses
    <2>1. it.service = "FOEwrite" /\ UNCHANGED <<pc, me, result>>
      BY <1>3 DEF FW!SlaveStores, FW!SlaveRefuses, FW!Asked, FW!master
    <2>2. CASE WriteInv
      BY <1>3, <2>2, WriteSlaveStep DEF TransferInv
    <2> QED BY <2>1, <2>2, OwnSlave, OthersStay
  <1> QED BY <1>1, <1>2, <1>3 DEF FW!Next

\* A step of ecx_SDOread or ecx_TxPDO, ...
LEMMA SDOReadNext ==
  ASSUME SDOAssumption, TransferInv, SR!Next
  PROVE  TransferInv'
  <1>1. CASE SR!CallSDOread
    <2>1. pc = "idle"
      BY <1>1 DEF SR!CallSDOread, SR!Begin
    <2> QED BY <1>1, <2>1, NotStarted, UploadCall DEF TransferInv
  <1>2. CASE SR!CallTxPDO
    <2>1. pc = "idle"
      BY <1>2 DEF SR!CallTxPDO, SR!Begin
    <2> QED BY <1>2, <2>1, NotStarted, TxPDOCall DEF TransferInv
  <1>3. CASE \/ SR!SendRequest \/ SR!RecvExpedited \/ SR!RecvNormal \/ SR!RecvOther
             \/ SR!RecvTimeout \/ SR!SendSegment \/ SR!RecvSegment
             \/ SR!RecvSegmentOther \/ SR!SegmentTimeout
    <2>1. me.service = "SDOread"
      BY <1>3 DEF SR!SendRequest, SR!RecvExpedited, SR!RecvNormal, SR!RecvOther,
         SR!RecvTimeout, SR!SendSegment, SR!RecvSegment, SR!RecvSegmentOther,
         SR!SegmentTimeout, SR!Reply, SR!SegReply, SR!At
    <2>2. UploadInv
      BY <2>1, OwnCall
    <2> QED BY <1>3, <2>2, UploadAsks, UploadExpedited, UploadNormal, UploadSendSegment,
               UploadSegment, UploadSegmentEnds DEF TransferInv
  <1>4. CASE SR!SendTxPDO \/ SR!RecvTxPDO
    <2>1. me.service = "TxPDO"
      BY <1>4 DEF SR!SendTxPDO, SR!RecvTxPDO, SR!At
    <2> QED BY <1>4, <2>1, OwnCall, TxPDOStep DEF TransferInv
  <1>5. CASE SR!SlaveUploads \/ SR!SlaveSegment \/ SR!SlaveAborts
    <2>1. it.service = "SDOread" /\ UNCHANGED <<pc, me, result>>
      BY <1>5 DEF SR!SlaveUploads, SR!SlaveSegment, SR!SlaveAborts, SR!Asked, SR!master
    <2>2. CASE UploadInv
      BY <1>5, <2>2, UploadSlaveStep DEF TransferInv
    <2> QED BY <2>1, <2>2, OwnSlave, OthersStay
  <1>6. CASE SR!SlavePDO
    <2>1. it.service = "TxPDO" /\ UNCHANGED <<pc, me, result>>
      BY <1>6 DEF SR!SlavePDO, SR!master
    <2>2. CASE TxPDOInv
      BY <1>6, <2>2, TxPDOStep DEF TransferInv
    <2> QED BY <2>1, <2>2, OwnSlave, OthersStay
  <1> QED BY <1>1, <1>2, <1>3, <1>4, <1>5, <1>6 DEF SR!Next, SR!Master

\* ... of ecx_SDOwrite or ecx_RxPDO, ...
LEMMA SDOWriteNext ==
  ASSUME SDOAssumption, NoneAssumption, TransferInv, SW!Next
  PROVE  TransferInv'
  <1>1. CASE SW!CallSDOwrite
    <2>1. pc = "idle"
      BY <1>1 DEF SW!CallSDOwrite, SW!Begin
    <2> QED BY <1>1, <2>1, NotStarted, DownloadCall DEF TransferInv
  <1>2. CASE SW!CallRxPDO
    <2>1. pc = "idle"
      BY <1>2 DEF SW!CallRxPDO, SW!Begin
    <2> QED BY <1>2, <2>1, NotStarted, RxPDOCall DEF TransferInv
  <1>3. CASE \/ SW!SendExpedited \/ SW!SendInit \/ SW!RecvInit \/ SW!RecvOther
             \/ SW!RecvTimeout \/ SW!SendSegment \/ SW!RecvSegment
             \/ SW!SegmentTimeout
    <2>1. me.service = "SDOwrite"
      BY <1>3 DEF SW!SendExpedited, SW!SendInit, SW!RecvInit, SW!RecvOther,
         SW!RecvTimeout, SW!SendSegment, SW!RecvSegment, SW!SegmentTimeout,
         SW!Reply, SW!At
    <2>2. DownloadInv
      BY <2>1, OwnCall
    <2> QED BY <1>3, <2>2, DownloadAsks, DownloadReplies, DownloadTimeout,
               DownloadFails, DownloadSends DEF TransferInv
  <1>4. CASE SW!SendRxPDO
    <2>1. me.service = "RxPDO"
      BY <1>4 DEF SW!SendRxPDO, SW!At
    <2> QED BY <1>4, <2>1, OwnCall, RxPDOStep DEF TransferInv
  <1>5. CASE SW!SlaveInit \/ SW!SlaveSegment \/ SW!SlaveAborts
    <2>1. it.service = "SDOwrite" /\ UNCHANGED <<pc, me, result>>
      BY <1>5 DEF SW!SlaveInit, SW!SlaveSegment, SW!SlaveAborts, SW!Asked, SW!master
    <2>2. CASE DownloadInv
      BY <1>5, <2>2, DownloadAnswers DEF TransferInv
    <2> QED BY <2>1, <2>2, OwnSlave, OthersStay
  <1>6. CASE SW!SlavePDO
    <2>1. it.service = "RxPDO" /\ UNCHANGED <<pc, me, result>>
      BY <1>6 DEF SW!SlavePDO, SW!master
    <2>2. CASE RxPDOInv
      BY <1>6, <2>2, RxPDOStep DEF TransferInv
    <2> QED BY <2>1, <2>2, OwnSlave, OthersStay
  <1> QED BY <1>1, <1>2, <1>3, <1>4, <1>5, <1>6 DEF SW!Next, SW!Master

\* ... of ecx_readODlist, ecx_readOE or ecx_readODdescription, ...
LEMMA SDOInfoNext ==
  ASSUME InfoAssumption, TransferInv, SI!Next
  PROVE  TransferInv'
  <1>1. CASE SI!CallODlist
    <2>1. pc = "idle"
      BY <1>1 DEF SI!CallODlist, SI!Begin
    <2> QED BY <1>1, <2>1, NotStarted, ListCall DEF TransferInv
  <1>2. CASE SI!CallOE
    <2>1. pc = "idle"
      BY <1>2 DEF SI!CallOE, SI!Begin
    <2> QED BY <1>2, <2>1, NotStarted, EntryCall DEF TransferInv
  <1>3. CASE SI!CallODdescription
    BY <1>3 DEF SI!CallODdescription, SI!Begin, Others, Proved, TransferInv
  <1>4. CASE SI!SendODlist \/ SI!RecvODlist \/ SI!RecvODlistOther \/ SI!ODlistTimeout
    <2>1. me.service = "ODlist"
      BY <1>4 DEF SI!SendODlist, SI!RecvODlist, SI!RecvODlistOther, SI!ODlistTimeout,
         SI!Reply, SI!At
    <2> QED BY <1>4, <2>1, OwnCall, ListTakes, ListStep DEF TransferInv
  <1>5. CASE SI!DrainOE \/ SI!SendOE \/ SI!RecvOE \/ SI!RecvOEOther \/ SI!OETimeout
    <2>1. me.service = "OE"
      BY <1>5 DEF SI!DrainOE, SI!SendOE, SI!RecvOE, SI!RecvOEOther, SI!OETimeout,
         SI!Reply, SI!At
    <2> QED BY <1>5, <2>1, OwnCall, EntryComes, EntryStep DEF TransferInv
  <1>6. CASE SI!SendODdescription \/ SI!RecvODdescription
    <2>1. me.service = "ODdescription" /\ pc' # "idle"
      BY <1>6 DEF SI!SendODdescription, SI!RecvODdescription, SI!Reply, SI!At, SI!Post,
         SI!Stay, SI!Failed, SI!Return
    <2>2. me' = me \/ me' = [me EXCEPT !.item = "described"]
      BY <1>6 DEF SI!SendODdescription, SI!RecvODdescription
    <2>3. Others
      BY <2>1, Owners DEF TransferInv, Idle
    <2> QED BY <2>1, <2>2, <2>3 DEF Others, Proved, TransferInv
  <1>7. CASE SI!SlaveODlist \/ SI!SlaveODlistMore \/ SI!SlaveInfo \/ SI!SlaveStray
    <2>1. it.service \in {"ODlist", "OE", "ODdescription"} /\ UNCHANGED <<pc, me, result>>
      BY <1>7 DEF SI!SlaveODlist, SI!SlaveODlistMore, SI!SlaveInfo, SI!SlaveStray,
         SI!Asked, SI!master
    <2>2. CASE ODlistInv
      <3>1. it.service = "ODlist"
        BY <2>2, Owners
      <3>2. ~SI!SlaveInfo
        BY <3>1 DEF SI!SlaveInfo, SI!Asked
      <3> QED BY <1>7, <2>2, <3>1, <3>2, ListSlaveStep DEF TransferInv
    <2>3. CASE EntryInv
      <3>1. it.service = "OE"
        BY <2>3, Owners
      <3>2. ~SI!SlaveODlist /\ ~SI!SlaveODlistMore
        BY <3>1 DEF SI!SlaveODlist, SI!SlaveODlistMore, SI!Asked
      <3> QED BY <1>7, <2>3, <3>1, <3>2, EntrySlaveStep DEF TransferInv
    <2>4. ODlistInv \/ EntryInv \/ Others
      BY <2>1, Owners DEF TransferInv, Idle
    <2> QED BY <2>1, <2>2, <2>3, <2>4, OthersStay
  <1> QED BY <1>1, <1>2, <1>3, <1>4, <1>5, <1>6, <1>7 DEF SI!Next, SI!Call, SI!Master

\* ... of ecx_SoEread or ecx_SoEwrite, ...
LEMMA SoENext ==
  ASSUME SoEAssumption, NoneAssumption, TransferInv, SE!Next
  PROVE  TransferInv'
  <1>1. CASE SE!CallRead
    <2>1. pc = "idle"
      BY <1>1 DEF SE!CallRead, SE!Begin
    <2> QED BY <1>1, <2>1, NotStarted, IdnReadCall DEF TransferInv
  <1>2. CASE SE!CallWrite
    <2>1. pc = "idle"
      BY <1>2 DEF SE!CallWrite, SE!Begin
    <2> QED BY <1>2, <2>1, NotStarted, IdnWriteCall DEF TransferInv
  <1>3. CASE SE!SendRead \/ SE!RecvRead \/ SE!RecvReadOther \/ SE!ReadTimeout
    <2>1. me.service = "SoEread"
      BY <1>3 DEF SE!SendRead, SE!RecvRead, SE!RecvReadOther, SE!ReadTimeout, SE!Reply,
         SE!At
    <2> QED BY <1>3, <2>1, OwnCall, IdnReadTakes, IdnReadStep DEF TransferInv
  <1>4. CASE \/ SE!SendWrite \/ SE!Emptied \/ SE!NotEmptied \/ SE!RecvWrite
             \/ SE!RecvWriteOther \/ SE!WriteTimeout
    <2>1. me.service = "SoEwrite"
      BY <1>4 DEF SE!SendWrite, SE!Emptied, SE!NotEmptied, SE!RecvWrite,
         SE!RecvWriteOther, SE!WriteTimeout, SE!Reply, SE!At
    <2> QED BY <1>4, <2>1, OwnCall, IdnWriteSends, IdnWriteStep DEF TransferInv
  <1>5. CASE SE!SlaveRead \/ SE!SlaveReadMore \/ SE!SlaveWrite \/ SE!SlaveStray
    <2>1. it.service \in {"SoEread", "SoEwrite"} /\ UNCHANGED <<pc, me, result>>
      BY <1>5 DEF SE!SlaveRead, SE!SlaveReadMore, SE!SlaveWrite, SE!SlaveStray,
         SE!Asked, SE!master
    <2>2. CASE IdnReadInv
      <3>1. it.service = "SoEread"
        BY <2>2, Owners
      <3>2. ~SE!SlaveWrite
        BY <3>1 DEF SE!SlaveWrite, SE!Asked
      <3> QED BY <1>5, <2>2, <3>2, IdnReadSlaveStep DEF TransferInv
    <2>3. CASE IdnWriteInv
      <3>1. it.service = "SoEwrite"
        BY <2>3, Owners
      <3>2. ~SE!SlaveRead /\ ~SE!SlaveReadMore
        BY <3>1 DEF SE!SlaveRead, SE!SlaveReadMore, SE!Asked
      <3> QED BY <1>5, <2>3, <3>1, <3>2, IdnWriteSlaveStep DEF TransferInv
    <2>4. IdnReadInv \/ IdnWriteInv \/ Others
      BY <2>1, OwnSlave
    <2> QED BY <2>1, <2>2, <2>3, <2>4, OthersStay
  <1> QED BY <1>1, <1>2, <1>3, <1>4, <1>5 DEF SE!Next, SE!Master, SE!Call

\* ... or of Ethernet over EtherCAT.
LEMMA EoENext ==
  ASSUME EoEAssumption, NoneAssumption, TransferInv, EE!Next
  PROVE  TransferInv'
  <1>1. CASE EE!CallSend
    <2>1. pc = "idle"
      BY <1>1 DEF EE!CallSend, EE!Begin
    <2> QED BY <1>1, <2>1, NotStarted, SendCall DEF TransferInv
  <1>2. CASE EE!CallRecv
    <2>1. pc = "idle"
      BY <1>2 DEF EE!CallRecv, EE!Begin
    <2> QED BY <1>2, <2>1, NotStarted, RecvCall DEF TransferInv
  <1>3. CASE EE!CallHook
    BY <1>3, HookCall DEF TransferInv
  <1>4. CASE EE!CallIp
    BY <1>4 DEF EE!CallIp, EE!Begin, Others, Proved, TransferInv
  <1>5. CASE EE!SendFragment
    <2>1. me.service = "EOEsend"
      BY <1>5 DEF EE!SendFragment, EE!At
    <2> QED BY <1>5, <2>1, OwnCall, SendFragmentStep DEF TransferInv
  <1>6. CASE EE!AwaitFirst \/ EE!RecvFragment \/ EE!RecvRefused \/ EE!RecvTimeout
    <2>1. me.service = "EOErecv"
      BY <1>6 DEF EE!AwaitFirst, EE!RecvFragment, EE!RecvRefused, EE!RecvTimeout,
         EE!Reply, EE!At
    <2> QED BY <1>6, <2>1, OwnCall, RecvTakes, RecvStep DEF TransferInv
  <1>7. CASE EE!HookFragment \/ EE!HookEnds \/ EE!HookLoses
    <2>1. me.service = "EOEhook"
      BY <1>7 DEF EE!HookFragment, EE!HookEnds, EE!HookLoses, EE!At
    <2> QED BY <1>7, <2>1, OwnCall, HookTakes, HookStep DEF TransferInv
  <1>8. CASE EE!SendIp \/ EE!RecvIp
    <2>1. me.service \in EE!IpServices /\ pc # "idle" /\ pc' # "idle"
      BY <1>8 DEF EE!SendIp, EE!RecvIp, EE!Reply, EE!At, EE!Post, EE!Stay, EE!Failed,
         EE!Return
    <2>2. me' = me \/ \E x : me' = [me EXCEPT !.fields = x]
      BY <1>8 DEF EE!SendIp, EE!RecvIp
    <2>3. Others
      BY <2>1, Owners DEF TransferInv, Idle, EE!IpServices
    <2>4. Others'
      BY <2>1, <2>2, <2>3 DEF Others
    <2> QED BY <2>4 DEF TransferInv
  <1>9. CASE EE!SlaveIp
    <2>1. it.service \in EE!IpServices /\ UNCHANGED <<pc, me, result>>
      BY <1>9 DEF EE!SlaveIp, EE!master
    <2>2. Others
      BY <2>1, Owners DEF TransferInv, Idle, EE!IpServices
    <2> QED BY <2>1, <2>2, OthersStay
  <1>10. CASE EE!SlaveTakes
    <2>1. it.service = "EOEsend" /\ UNCHANGED <<pc, me, result>>
      BY <1>10 DEF EE!SlaveTakes, EE!master
    <2>2. CASE SendInv
      BY <1>10, <2>2, SendSlaveStep DEF TransferInv
    <2> QED BY <2>1, <2>2, OwnSlave, OthersStay
  <1>11. CASE EE!SlaveSends
    <2>1. it.service \in {"EOErecv", "EOEhook"} /\ UNCHANGED <<pc, me, result>>
      BY <1>11 DEF EE!SlaveSends, EE!master
    <2>2. CASE RecvInv
      BY <1>11, <2>2, RecvSlaveStep DEF TransferInv
    <2>3. CASE HookInv
      BY <1>11, <2>3, HookSlaveStep DEF TransferInv
    <2>4. RecvInv \/ HookInv \/ Others
      BY <2>1, OwnSlave
    <2> QED BY <2>1, <2>2, <2>3, <2>4, OthersStay
  <1> QED BY <1>1, <1>2, <1>3, <1>4, <1>5, <1>6, <1>7, <1>8, <1>9, <1>10, <1>11
          DEF EE!Next, EE!Master, EE!Call

\* A step that changes nothing keeps the invariants.
LEMMA TransferSame ==
  ASSUME TransferInv, UNCHANGED vars
  PROVE  TransferInv'
  <1>1. UNCHANGED <<pc, me, result, in, out, it>>
    BY DEF vars, master, slave
  <1>2. /\ Others => Others'
        /\ Idle => Idle'
    BY <1>1 DEF Others, Idle
  <1>3. ReadInv => ReadInv'
    BY <1>1, ReadSame DEF ReadInv, ReadSlave, ReadMaster
  <1>4. WriteInv => WriteInv'
    BY <1>1 DEF WriteInv, WriteSlave, WriteMaster, WriteRuns, AcksAreTrue, WriteEnds
  <1>5. UploadInv => UploadInv'
    <2>1. /\ UploadEnds => UploadEnds'
          /\ \A a : MasterAt(a) => MasterAt(a)'
          /\ \A b : SlaveAt(b) => SlaveAt(b)'
      BY <1>1 DEF UploadEnds, MasterAt, MasterNew, MasterHas, SlaveAt, SlaveNew, SlaveSent
    <2>2. UploadRuns => UploadRuns'
      BY <1>1, <2>1 DEF UploadRuns
    <2> QED BY <1>1, <2>1, <2>2 DEF UploadInv
  <1>6. TxPDOInv => TxPDOInv'
    BY <1>1 DEF TxPDOInv, UploadEnds
  <1>7. DownloadInv => DownloadInv'
    <2>1. DownloadMaster => DownloadMaster'
      BY <1>1 DEF DownloadMaster, Short
    <2>2. DownloadSlave => DownloadSlave'
      BY <1>1 DEF DownloadSlave, Short, Stored
    <2>3. DownloadMail => DownloadMail'
      BY <1>1 DEF DownloadMail, FirstMail, SegmentMail, Short, Stored
    <2>4. DownloadFlow => DownloadFlow'
      BY <1>1 DEF DownloadFlow, Strayed, Asked, Answered
    <2> QED BY <1>1, <2>1, <2>2, <2>3, <2>4 DEF DownloadInv
  <1>8. RxPDOInv => RxPDOInv'
    BY <1>1 DEF RxPDOInv, PDO
  <1>9. ODlistInv => ODlistInv'
    BY <1>1 DEF ODlistInv, ListAt
  <1>10. EntryInv => EntryInv'
    BY <1>1 DEF EntryInv, EntriesRun, EntriesEnd, OwnAnswer, NoAnswer
  <1>11. IdnReadInv => IdnReadInv'
    BY <1>1 DEF IdnReadInv, Held
  <1>12. IdnWriteInv => IdnWriteInv'
    BY <1>1 DEF IdnWriteInv, IdnStrayed, IdnSent, IdnTaken, IdnAnswered
  <1>13. SendInv => SendInv'
    <2>1. \A o, k : (Waiting(o, k) => Waiting(o, k)') /\ After(o)' = After(o)
      BY <1>1 DEF Waiting, SendPart, After
    <2> QED BY <1>1, <2>1 DEF SendInv
  <1>14. RecvInv => RecvInv'
    BY <1>1 DEF RecvInv, FramesSlave, RxFrame, HasRoom, RecvEnds, EE!OneFrame, EE!Received
  <1>15. HookInv => HookInv'
    BY <1>1 DEF HookInv, FramesSlave, RxFrame, EE!OneFrame
  <1> QED BY <1>2, <1>3, <1>4, <1>5, <1>6, <1>7, <1>8, <1>9, <1>10, <1>11, <1>12, <1>13,
             <1>14, <1>15 DEF TransferInv

\* Every step keeps the invariant.
LEMMA TransferNext ==
  ASSUME SizeAssumption, SDOAssumption, InfoAssumption, SoEAssumption, EoEAssumption,
         NoneAssumption, TransferInv, [Next]_vars
  PROVE  TransferInv'
  <1>1. CASE FW!Next
    BY <1>1, FoEWriteNext
  <1>2. CASE FR!Next
    BY <1>2, FoEReadNext
  <1>3. CASE SR!Next
    BY <1>3, SDOReadNext
  <1>4. CASE SW!Next
    BY <1>4, SDOWriteNext
  <1>5. CASE SI!Next
    BY <1>5, SDOInfoNext
  <1>6. CASE SE!Next
    BY <1>6, SoENext
  <1>7. CASE EE!Next
    BY <1>7, EoENext
  <1>8. CASE UNCHANGED vars
    BY <1>8, TransferSame
  <1> QED BY <1>1, <1>2, <1>3, <1>4, <1>5, <1>6, <1>7, <1>8 DEF Next

LEMMA TransferInit == Init => TransferInv
  BY DEF Init, TransferInv, Idle

LEMMA TransferAlways == Spec => []TransferInv
  <1>1. TransferInv /\ [Next]_vars => TransferInv'
    BY TransferNext, SizeAssumption, SDOAssumption, InfoAssumption, SoEAssumption,
       EoEAssumption, NoneAssumption
  <1> QED BY TransferInit, <1>1, PTL DEF Spec

\* What the master and the slave say of an upload follows.
LEMMA ReadIsWhole ==
  ASSUME SizeAssumption, ReadInv
  PROVE  FR!FileIsRead
  <1>1. /\ me.dataread \in Nat /\ it.size \in Nat /\ me.dataread <= it.size
        /\ me.buffer = Prefix(me.dataread)
    BY DEF ReadInv, ReadMaster, ReadSlave
  <1>2. FR!File = Prefix(it.size) /\ Len(Prefix(me.dataread)) = me.dataread
    BY <1>1 DEF Prefix, FR!File
  <1>3. SubSeq(FR!File, 1, me.dataread) = Prefix(me.dataread)
    BY <1>1, <1>2, PrefixOfPrefix
  <1> QED BY <1>1, <1>2, <1>3 DEF FR!FileIsRead, ReadInv, ReadMaster

\* Whatever is lost, late, stray or delivered twice: a download stores a beginning of
\* the file, once and in order, and the file when it succeeds; an upload has a
\* beginning of the file in the buffer of the caller, and the file when it succeeds.
THEOREM TransfersAreWhole ==
  Spec => []FilesAreWhole
  <1>1. TransferInv => FilesAreWhole
    <2> SUFFICES ASSUME TransferInv PROVE FilesAreWhole
      OBVIOUS
    <2>1. FR!FileIsRead
      <3>1. me.service = "FOEread" => FR!FileIsRead
        BY OwnCall, ReadIsWhole, SizeAssumption
      <3> QED BY <3>1 DEF FR!FileIsRead
    <2>2. FW!StoresPrefix /\ FW!FileIsStored
      <3>1. me.service = "FOEwrite" => FW!StoresPrefix /\ FW!FileIsStored
        BY OwnCall, WriteIsWhole, SizeAssumption
      <3> QED BY <3>1 DEF FW!StoresPrefix, FW!FileIsStored
    <2> QED BY <2>1, <2>2 DEF FilesAreWhole
  <1> QED BY TransferAlways, <1>1, PTL

LEMMA ObjectIsTheirs ==
  ASSUME TransferInv, SDOAssumption
  PROVE  SR!ObjectIsRead
  <1>1. me.service = "SDOread" => UploadEnds /\ it.size \in Nat
    BY OwnCall DEF UploadInv
  <1>2. me.service = "TxPDO" => UploadEnds /\ it.size \in Nat
    BY OwnCall DEF TxPDOInv
  <1>3. it.size \in Nat => SR!Bytes(0, it.size) = Prefix(it.size)
    BY BytesAreFirst
  <1> QED BY <1>1, <1>2, <1>3 DEF SR!ObjectIsRead, UploadEnds

LEMMA ObjectIsStored ==
  ASSUME TransferInv, SDOAssumption
  PROVE  SW!ObjectIsWritten
  <1>1. ASSUME me.service = "SDOwrite"
        PROVE  /\ it.complete => it.stored = SW!Bytes(0, me.size)
               /\ result = "ok" /\ ~me.failed => it.complete
    <2>1. DownloadInv
      BY <1>1, OwnCall
    <2>2. me.size \in Nat /\ (it.complete => it.stored = Prefix(me.size))
      BY <2>1 DEF DownloadInv, DownloadMaster, DownloadSlave
    <2>3. SW!Bytes(0, me.size) = Prefix(me.size)
      BY <2>2, SWBytes
    <2>4. result = "ok" /\ ~me.failed => it.complete
      BY <2>1 DEF DownloadInv, DownloadFlow
    <2> QED BY <2>2, <2>3, <2>4
  <1>2. me.service = "RxPDO" => RxPDOInv
    BY OwnCall
  <1> QED BY <1>1, <1>2 DEF SW!ObjectIsWritten, RxPDOInv, PDO

LEMMA ListIsTheirs ==
  ASSUME TransferInv, InfoAssumption
  PROVE  SI!ListIsWhole /\ SI!EntriesAreOwn
  <1>1. ASSUME me.service = "ODlist"
        PROVE  SI!ListIsWhole
    <2>1. ODlistInv
      BY <1>1, OwnCall
    <2> QED BY <2>1 DEF ODlistInv, SI!ListIsWhole, Kept, Prefix
  <1>2. ASSUME me.service = "OE"
        PROVE  SI!EntriesAreOwn
    <2>1. EntryInv
      BY <1>2, OwnCall
    <2> QED BY <2>1 DEF EntryInv, EntriesEnd, SI!EntriesAreOwn
  <1> QED BY <1>1, <1>2 DEF SI!ListIsWhole, SI!EntriesAreOwn

\* Whatever is lost, late or stray: an SDO upload that succeeds has the whole object in
\* the buffer of the caller, unless the answer to a segment was lost, and so has a PDO;
\* a download that completes in the slave has stored the object, and does when it
\* succeeds without a failed segment; a list of objects that is read has all of them in
\* order, or those there is room for; and when every subindex was answered, each entry
\* is that of its subindex.
THEOREM ObjectsAreTheirs ==
  Spec => []ObjectsAreWhole
  <1>1. TransferInv => ObjectsAreWhole
    BY ObjectIsTheirs, ObjectIsStored, ListIsTheirs, SDOAssumption, InfoAssumption
       DEF ObjectsAreWhole
  <1> QED BY TransferAlways, <1>1, PTL

LEMMA IdnIsTheirs ==
  ASSUME TransferInv
  PROVE  SE!IdnIsWhole
  <1>1. ASSUME NEW n \in Nat PROVE SE!Bytes(0, n) = Prefix(n)
    BY DEF SE!Bytes, Prefix
  <1>2. ASSUME me.service = "SoEread"
        PROVE  /\ Len(me.buffer) <= me.bufsize
               /\ result = "ok" => me.buffer = SE!Bytes(0, SE!Least(it.size, me.bufsize))
    <2>1. IdnReadInv
      BY <1>2, OwnCall
    <2>2. SE!Least(it.size, me.bufsize) \in Nat
      BY <2>1 DEF IdnReadInv, SE!Least
    <2> QED BY <1>1, <2>1, <2>2 DEF IdnReadInv, Held
  <1>3. ASSUME me.service = "SoEwrite", result = "ok", ~me.failed
        PROVE  it.complete /\ it.stored = SE!Bytes(0, me.size)
    <2>1. IdnWriteInv
      BY <1>3, OwnCall
    <2>2. me.size \in Nat
      BY <2>1 DEF IdnWriteInv, IdnCallType
    <2> QED BY <1>1, <1>3, <2>1, <2>2 DEF IdnWriteInv
  <1> QED BY <1>2, <1>3 DEF SE!IdnIsWhole

LEMMA FrameIsTheirs ==
  ASSUME TransferInv, EoEAssumption, NoneAssumption
  PROVE  EE!FrameIsWhole
  <1>1. ASSUME me.service = "EOEsend", result = "ok", in = None
        PROVE  it.rx.buffer = EE!Bytes(1, 0, me.size)
    <2>1. SendInv
      BY <1>1, OwnCall
    <2>2. me.size \in Nat
      BY <2>1 DEF SendInv
    <2>3. \A o, k \in Nat : ~Waiting(o, k)
      BY <1>1, <2>2, SendPartIs DEF Waiting
    <2> QED BY <1>1, <2>1, <2>3 DEF SendInv
  <1>2. ASSUME me.service = "EOErecv", result = "ok"
        PROVE  /\ Len(me.rx.buffer) <= me.bufsize
               /\ IF me.cut = "none" THEN EE!OneFrame(EE!Received) ELSE me.cut = "stamp"
    <2>1. RecvInv
      BY <1>2, OwnCall
    <2>2. me.cut \in {"none", "stamp"} /\ RecvEnds
      BY <1>2, <2>1 DEF RecvInv, RecvType
    <2> QED BY <2>2 DEF RecvEnds
  <1>3. ASSUME me.service = "EOEhook"
        PROVE  me.frame = <<>> \/ me.cut # "none" \/ EE!OneFrame(me.frame)
    BY <1>3, OwnCall DEF HookInv
  <1> QED BY <1>1, <1>2, <1>3 DEF EE!FrameIsWhole

\* However many mails are lost, late or stray, and frames broken off: an IDN that is
\* read is its beginning, as much as the buffer holds, and one that is written without
\* a failed fragment is stored as a whole; an Ethernet frame that was sent is whole in
\* the slave, and one that was received, by ecx_EOErecv or by the hook, is one of the
\* slave's, from its first byte to its last, or was cut off as the property names.
THEOREM FragmentsAreTheirs ==
  Spec => []FragmentsAreJoined
  <1>1. TransferInv => FragmentsAreJoined
    BY IdnIsTheirs, FrameIsTheirs, EoEAssumption, NoneAssumption DEF FragmentsAreJoined
  <1> QED BY TransferAlways, <1>1, PTL
===============================================================================
