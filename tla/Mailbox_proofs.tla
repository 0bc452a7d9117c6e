---------------------------- MODULE Mailbox_proofs ----------------------------
(* What the mailbox count is for, for any number of requests: the slave tells *)
(* the retransmissions of a request from new requests by it.                  *)
EXTENDS Mailbox, FiniteSetTheorems, TLAPS

USE BoundAssumption

\* The part of TypeOK that the argument is about.
TypeInv ==
    /\ req \in 0 .. MaxReq
    /\ cnt \in 0 .. MaxCnt /\ lastcnt \in 0 .. MaxCnt
    /\ sm0 # None => sm0.req \in 1 .. MaxReq /\ sm0.cnt \in 0 .. MaxCnt
    /\ runs \in [1 .. MaxReq -> Nat]
    /\ pc \in {"idle", "empty", "write"} => ~drain
    /\ pc # "idle" => req >= 1

\* Where the requests have got to.  The count of a request that was executed is
\* the last one the slave saw while a transmission of it may still come; one that
\* was not sent yet was not executed.
OnceInv ==
    /\ \A r \in 1 .. MaxReq : runs[r] <= 1 /\ (r > req => runs[r] = 0)
    /\ drain \/ pc = "empty" =>
          runs[req] = 0 /\ (sm0 # None => sm0.req < req)
    /\ pc = "write" =>
          /\ cnt # 0 /\ (runs[req] = 1 => lastcnt = cnt)
          /\ sm0 # None => sm0.req = req /\ sm0.cnt = cnt
    /\ pc = "empty" => cnt # 0
    /\ sm0 # None =>
          /\ sm0.cnt # 0 /\ sm0.req <= req
          /\ runs[sm0.req] = 1 => lastcnt = sm0.cnt

\* The count of the k-th request when the first one came after count c, and the
\* number of counts that were taken.
Cnt(c, k) == IF k = 0 THEN c ELSE ((c + k - 1) % MaxCnt) + 1
Counted == IF drain THEN req - 1 ELSE req

\* All counts are those of their requests, from c on, and request l was the last
\* one that the slave took.
Follows(c, l) ==
    /\ cnt = Cnt(c, Counted) /\ lastcnt = Cnt(c, l)
    /\ drain \/ pc = "empty" => l < req
    /\ l = req /\ req > 0 => runs[req] = 1
    /\ sm0 # None => /\ sm0.cnt = Cnt(c, sm0.req) /\ sm0.req >= l
                     /\ runs[sm0.req] = 0 => sm0.req > l

\* That holds until a FoE download sets the count back.
CountInv ==
    mishap \cap {"reset", "ignored"} = {} =>
       \E c \in 0 .. MaxCnt, l \in 0 .. req : Follows(c, l)

IInv == TypeInv /\ OnceInv /\ CountInv /\ ExecutedOnce

\* nextmbxcnt steps from the count of one request to that of the next.
LEMMA NextCount ==
  ASSUME NEW c \in 0 .. MaxCnt, NEW k \in Nat
  PROVE  /\ Cnt(c, k) \in 0 .. MaxCnt
         /\ Cnt(c, k + 1) = nextmbxcnt(Cnt(c, k))
  BY DEF Cnt, MaxCnt, nextmbxcnt

\* Two requests with one count are MaxCnt apart.
LEMMA CountComesRound ==
  ASSUME NEW c \in 0 .. MaxCnt, NEW k \in Nat, NEW l \in Nat, l < k,
         Cnt(c, k) = Cnt(c, l)
  PROVE  k >= MaxCnt
  BY DEF Cnt, MaxCnt

\* The slave drops a request with the count it saw last, or executes it.
LEMMA Taking ==
  ASSUME SlaveTake
  PROVE  /\ UNCHANGED <<req, drain, pc, cnt>>
         /\ sm0 # None /\ sm0' = None /\ lastcnt' = sm0.cnt
         /\ \/ /\ sm0.cnt = lastcnt /\ runs' = runs
               /\ mishap' = IF runs[sm0.req] = 0 THEN mishap \cup {"ignored"}
                                                 ELSE mishap
            \/ /\ sm0.cnt = 0 \/ sm0.cnt # lastcnt
               /\ runs' = [runs EXCEPT ![sm0.req] = @ + 1] /\ mishap' = mishap
  <1>1. CASE sm0.cnt # 0 /\ sm0.cnt = lastcnt
    BY <1>1 DEF SlaveTake, Note, master, call
  <1>2. CASE ~(sm0.cnt # 0 /\ sm0.cnt = lastcnt)
    BY <1>2 DEF SlaveTake, master, call
  <1> QED BY <1>1, <1>2

\* The ways ecx_mbxreceive ends: it goes on to the request when it drained the
\* mailbox, it returns to the caller, or it reads on.
ReceiveEnds ==
    /\ UNCHANGED <<req, sm0, lastcnt, runs>>
    /\ mishap' \cap {"reset", "ignored"} = mishap \cap {"reset", "ignored"}
    /\ \/ drain /\ pc' = "empty" /\ ~drain' /\ cnt' = nextmbxcnt(cnt)
       \/ ~drain /\ pc' = "idle" /\ ~drain' /\ cnt' = cnt
       \/ UNCHANGED <<pc, drain, cnt>>

\* A receive without a mail for the caller.
LEMMA ReceiveFailing ==
  ASSUME TypeInv, ReceiveFails({}) \/ ReceiveFails({"gaveup"})
  PROVE  /\ mishap' \cap {"reset", "ignored"} = mishap \cap {"reset", "ignored"}
         /\ \/ drain /\ pc' = "empty" /\ ~drain' /\ cnt' = nextmbxcnt(cnt)
            \/ ~drain /\ pc' = "idle" /\ ~drain' /\ cnt' = cnt
  <1>1. CASE drain
    BY <1>1 DEF ReceiveFails, Note
  <1>2. CASE ~drain
    BY <1>2 DEF ReceiveFails, Fail, Note
  <1> QED BY <1>1, <1>2

\* The three actions that may end a receive.
LEMMA ReceiveEnding ==
  ASSUME TypeInv, StatusExpired \/ ReadAnswered \/ RepeatExpired
  PROVE  /\ ReceiveEnds
         /\ pc \in {"status", "read", "ack", "avail"}
  <1>1. CASE StatusExpired
    BY <1>1, ReceiveFailing DEF StatusExpired, ReceiveEnds, slave
  <1>2. CASE RepeatExpired
    BY <1>2, ReceiveFailing DEF RepeatExpired, ReceiveEnds, slave
  <1>3. CASE ReadAnswered
    <2>1. UNCHANGED <<req, sm0, lastcnt, runs>> /\ pc = "read"
      BY <1>3 DEF ReadAnswered
    <2>2. \/ ReceiveFails({})
          \/ ReceiveReturns(sm1) /\ ~drain
          \/ UNCHANGED <<pc, drain, cnt, mishap>>
      BY <1>3 DEF ReadAnswered, ReceiveReturns
    <2>3. CASE ReceiveFails({})
      BY <2>1, <2>3, ReceiveFailing DEF ReceiveEnds
    <2>4. CASE ReceiveReturns(sm1) /\ ~drain
      <3>1. pc' = "idle" /\ UNCHANGED <<drain, cnt>>
        BY <2>4 DEF ReceiveReturns, Fail
      <3>2. mishap' \cap {"reset", "ignored"} = mishap \cap {"reset", "ignored"}
        BY <2>4 DEF ReceiveReturns, Fail, Note
      <3> QED BY <2>1, <2>4, <3>1, <3>2 DEF ReceiveEnds
    <2>5. CASE UNCHANGED <<pc, drain, cnt, mishap>>
      BY <2>1, <2>5 DEF ReceiveEnds
    <2> QED BY <2>2, <2>3, <2>4, <2>5
  <1> QED BY <1>1, <1>2, <1>3

\* The request that follows is a new one.
LEMMA Received ==
  ASSUME TypeInv, OnceInv, ReceiveEnds,
         pc \in {"status", "read", "ack", "avail"}
  PROVE  TypeInv' /\ OnceInv'
  <1>1. nextmbxcnt(cnt) \in 1 .. MaxCnt
    BY DEF TypeInv, nextmbxcnt, MaxCnt
  <1>2. \/ drain /\ pc' = "empty" /\ ~drain' /\ cnt' = nextmbxcnt(cnt)
        \/ pc' = "idle" /\ ~drain' /\ cnt' = cnt
        \/ pc' = pc /\ drain' = drain /\ cnt' = cnt
    BY DEF ReceiveEnds
  <1>3. UNCHANGED <<req, sm0, lastcnt, runs>>
    BY DEF ReceiveEnds
  <1>4. TypeInv'
    BY <1>1, <1>2, <1>3 DEF TypeInv, MaxCnt
  <1>5. OnceInv'
    BY <1>1, <1>2, <1>3 DEF OnceInv, MaxCnt
  <1> QED BY <1>4, <1>5

\* The invariant holds at the start.
LEMMA InitIInv == Init => IInv
  <1> SUFFICES ASSUME Init PROVE IInv
    OBVIOUS
  <1>1. TypeInv
    BY DEF Init, TypeInv, MaxCnt
  <1>3. OnceInv
    BY <1>1 DEF Init, TypeInv, OnceInv
  <1>4. ExecutedOnce
    BY DEF Init, ExecutedOnce
  <1>2. CountInv
    <2>1. cnt = Cnt(cnt, Counted) /\ lastcnt = Cnt(cnt, 0)
      BY DEF Init, Cnt, Counted
    <2> QED BY <2>1 DEF Init, Follows, CountInv
  <1> QED BY <1>1, <1>2, <1>3, <1>4 DEF IInv

\* Counts and numbers stay in their ranges.
LEMMA TypeStep ==
  ASSUME TypeInv, OnceInv, [Next]_vars
  PROVE  TypeInv'
  <1>1. CASE Begin
    BY <1>1 DEF Begin, call, master, slave, history, TypeInv, nextmbxcnt,
       MaxCnt
  <1>2. CASE BeginFOEwrite
    BY <1>2 DEF BeginFOEwrite, Note, call, master, slave, history, TypeInv,
       nextmbxcnt, MaxCnt
  <1>3. CASE EmptySeen
    BY <1>3 DEF EmptySeen, call, master, slave, history, TypeInv, nextmbxcnt,
       MaxCnt
  <1>4. CASE EmptyExpired
    BY <1>4 DEF EmptyExpired, Fail, Note, call, master, slave, history,
       TypeInv, nextmbxcnt, MaxCnt
  <1>5. CASE WriteAnswered
    BY <1>5 DEF WriteAnswered, Written, Fail, Note, call, master, slave,
       history, TypeInv, nextmbxcnt, MaxCnt
  <1>6. CASE WriteLost
    BY <1>6 DEF WriteLost, Written, call, master, slave, history, TypeInv,
       nextmbxcnt, MaxCnt
  <1>7. CASE WriteGivesUp
    BY <1>7 DEF WriteGivesUp, Fail, Note, call, master, slave, history,
       TypeInv, nextmbxcnt, MaxCnt
  <1>8. CASE StatusFull
    BY <1>8 DEF StatusFull, call, master, slave, history, TypeInv, nextmbxcnt,
       MaxCnt
  <1>9. CASE StatusExpired
    BY <1>9, ReceiveEnding, Received
  <1>10. CASE ReadAnswered
    BY <1>10, ReceiveEnding, Received
  <1>11. CASE ReadLost
    BY <1>11 DEF ReadLost, Unload, call, master, slave, history, TypeInv,
       nextmbxcnt, MaxCnt
  <1>12. CASE ReadUnsent
    BY <1>12 DEF ReadUnsent, Note, call, master, slave, history, TypeInv,
       nextmbxcnt, MaxCnt
  <1>13. CASE ReadEmpty
    BY <1>13 DEF ReadEmpty, call, master, slave, history, TypeInv, nextmbxcnt,
       MaxCnt
  <1>14. CASE Toggle
    BY <1>14 DEF Toggle, call, master, slave, history, TypeInv, nextmbxcnt,
       MaxCnt
  <1>15. CASE AckSeen
    BY <1>15 DEF AckSeen, call, master, slave, history, TypeInv, nextmbxcnt,
       MaxCnt
  <1>16. CASE AvailSeen
    BY <1>16 DEF AvailSeen, call, master, slave, history, TypeInv, nextmbxcnt,
       MaxCnt
  <1>17. CASE RepeatExpired
    BY <1>17, ReceiveEnding, Received
  <1>18. CASE Expire
    BY <1>18 DEF Expire, call, master, slave, history, TypeInv, nextmbxcnt,
       MaxCnt
  <1>19. CASE SlaveTake
    BY <1>19, Taking DEF TypeInv, nextmbxcnt, MaxCnt
  <1>20. CASE SlaveEmergency
    BY <1>20 DEF SlaveEmergency, call, master, slave, history, TypeInv,
       nextmbxcnt, MaxCnt
  <1>21. CASE SlaveLoad
    BY <1>21 DEF SlaveLoad, call, master, slave, history, TypeInv, nextmbxcnt,
       MaxCnt
  <1>22. CASE SlaveRepeat
    BY <1>22 DEF SlaveRepeat, call, master, slave, history, TypeInv,
       nextmbxcnt, MaxCnt
  <1>23. CASE UNCHANGED vars
    BY <1>23 DEF vars, call, master, slave, history, TypeInv, nextmbxcnt,
       MaxCnt
  <1> QED BY <1>1, <1>2, <1>3, <1>4, <1>5, <1>6, <1>7, <1>8, <1>9,
             <1>10, <1>11, <1>12, <1>13, <1>14, <1>15, <1>16, <1>17,
             <1>18, <1>19, <1>20, <1>21, <1>22, <1>23
         DEF Next, Send, Receive, Slave

\* No transmission of a request finds the slave with another count since.
LEMMA OnceStep ==
  ASSUME TypeInv, OnceInv, [Next]_vars
  PROVE  OnceInv'
  <1>1. CASE Begin
    BY <1>1 DEF Begin, call, master, slave, history, TypeInv, OnceInv,
       nextmbxcnt, MaxCnt
  <1>2. CASE BeginFOEwrite
    BY <1>2 DEF BeginFOEwrite, Note, call, master, slave, history, TypeInv,
       OnceInv, nextmbxcnt, MaxCnt
  <1>3. CASE EmptySeen
    BY <1>3 DEF EmptySeen, call, master, slave, history, TypeInv, OnceInv,
       nextmbxcnt, MaxCnt
  <1>4. CASE EmptyExpired
    BY <1>4 DEF EmptyExpired, Fail, Note, call, master, slave, history,
       TypeInv, OnceInv, nextmbxcnt, MaxCnt
  <1>5. CASE WriteAnswered
    BY <1>5 DEF WriteAnswered, Written, Fail, Note, call, master, slave,
       history, TypeInv, OnceInv, nextmbxcnt, MaxCnt
  <1>6. CASE WriteLost
    BY <1>6 DEF WriteLost, Written, call, master, slave, history, TypeInv,
       OnceInv, nextmbxcnt, MaxCnt
  <1>7. CASE WriteGivesUp
    BY <1>7 DEF WriteGivesUp, Fail, Note, call, master, slave, history,
       TypeInv, OnceInv, nextmbxcnt, MaxCnt
  <1>8. CASE StatusFull
    BY <1>8 DEF StatusFull, call, master, slave, history, TypeInv, OnceInv,
       nextmbxcnt, MaxCnt
  <1>9. CASE StatusExpired
    BY <1>9, ReceiveEnding, Received
  <1>10. CASE ReadAnswered
    BY <1>10, ReceiveEnding, Received
  <1>11. CASE ReadLost
    BY <1>11 DEF ReadLost, Unload, call, master, slave, history, TypeInv,
       OnceInv, nextmbxcnt, MaxCnt
  <1>12. CASE ReadUnsent
    BY <1>12 DEF ReadUnsent, Note, call, master, slave, history, TypeInv,
       OnceInv, nextmbxcnt, MaxCnt
  <1>13. CASE ReadEmpty
    BY <1>13 DEF ReadEmpty, call, master, slave, history, TypeInv, OnceInv,
       nextmbxcnt, MaxCnt
  <1>14. CASE Toggle
    BY <1>14 DEF Toggle, call, master, slave, history, TypeInv, OnceInv,
       nextmbxcnt, MaxCnt
  <1>15. CASE AckSeen
    BY <1>15 DEF AckSeen, call, master, slave, history, TypeInv, OnceInv,
       nextmbxcnt, MaxCnt
  <1>16. CASE AvailSeen
    BY <1>16 DEF AvailSeen, call, master, slave, history, TypeInv, OnceInv,
       nextmbxcnt, MaxCnt
  <1>17. CASE RepeatExpired
    BY <1>17, ReceiveEnding, Received
  <1>18. CASE Expire
    BY <1>18 DEF Expire, call, master, slave, history, TypeInv, OnceInv,
       nextmbxcnt, MaxCnt
  <1>19. CASE SlaveTake
    <2>1. CASE sm0.cnt = lastcnt /\ runs' = runs
      BY <1>19, <2>1, Taking DEF TypeInv, OnceInv
    <2>2. CASE /\ sm0.cnt = 0 \/ sm0.cnt # lastcnt
               /\ runs' = [runs EXCEPT ![sm0.req] = @ + 1]
      <3>1. sm0 # None /\ runs[sm0.req] = 0
        BY <1>19, <2>2, Taking DEF TypeInv, OnceInv
      <3> QED BY <1>19, <2>2, <3>1, Taking DEF TypeInv, OnceInv
    <2> QED BY <1>19, <2>1, <2>2, Taking
  <1>20. CASE SlaveEmergency
    BY <1>20 DEF SlaveEmergency, call, master, slave, history, TypeInv,
       OnceInv, nextmbxcnt, MaxCnt
  <1>21. CASE SlaveLoad
    BY <1>21 DEF SlaveLoad, call, master, slave, history, TypeInv, OnceInv,
       nextmbxcnt, MaxCnt
  <1>22. CASE SlaveRepeat
    BY <1>22 DEF SlaveRepeat, call, master, slave, history, TypeInv, OnceInv,
       nextmbxcnt, MaxCnt
  <1>23. CASE UNCHANGED vars
    BY <1>23 DEF vars, call, master, slave, history, TypeInv, OnceInv,
       nextmbxcnt, MaxCnt
  <1> QED BY <1>1, <1>2, <1>3, <1>4, <1>5, <1>6, <1>7, <1>8, <1>9,
             <1>10, <1>11, <1>12, <1>13, <1>14, <1>15, <1>16, <1>17,
             <1>18, <1>19, <1>20, <1>21, <1>22, <1>23
         DEF Next, Send, Receive, Slave

\* The count of a request is the one after that of the request before.
LEMMA CountReceive ==
  ASSUME TypeInv, OnceInv, CountInv, ReceiveEnds
  PROVE  CountInv'
  <1> SUFFICES ASSUME mishap \cap {"reset", "ignored"} = {}
               PROVE  CountInv'
    BY DEF ReceiveEnds, CountInv
  <1>1. PICK c \in 0 .. MaxCnt, l \in 0 .. req : Follows(c, l)
    BY DEF CountInv
  <1>2. cnt' = Cnt(c, Counted')
    <2>1. CASE drain /\ cnt' = nextmbxcnt(cnt) /\ ~drain'
      <3>1. Counted = req - 1 /\ Counted' = req /\ req - 1 \in Nat
        BY <2>1, <1>1 DEF Counted, ReceiveEnds, TypeInv
      <3>2. Cnt(c, (req - 1) + 1) = nextmbxcnt(Cnt(c, req - 1))
        BY <3>1, NextCount
      <3> QED BY <1>1, <2>1, <3>1, <3>2 DEF Follows, TypeInv
    <2>2. CASE cnt' = cnt /\ (UNCHANGED drain \/ (~drain /\ ~drain'))
      BY <1>1, <2>2 DEF Follows, Counted, ReceiveEnds
    <2> QED BY <2>1, <2>2 DEF ReceiveEnds
  <1>3. drain' \/ pc' = "empty" => l < req
    BY <1>1 DEF Follows, ReceiveEnds
  <1> QED BY <1>1, <1>2, <1>3 DEF Follows, ReceiveEnds, CountInv

\* Counts follow their requests.
LEMMA CountStep ==
  ASSUME TypeInv, OnceInv, CountInv, [Next]_vars
  PROVE  CountInv'
  <1>1. CASE Begin
    BY <1>1 DEF Begin, call, master, slave, history, TypeInv, OnceInv,
       CountInv, Follows, Counted
  <1>2. CASE BeginFOEwrite
    BY <1>2 DEF BeginFOEwrite, Note, call, master, slave, history, TypeInv,
       OnceInv, CountInv, Follows, Counted
  <1>3. CASE EmptySeen
    BY <1>3 DEF EmptySeen, call, master, slave, history, TypeInv, OnceInv,
       CountInv, Follows, Counted
  <1>4. CASE EmptyExpired
    BY <1>4 DEF EmptyExpired, Fail, Note, call, master, slave, history,
       TypeInv, OnceInv, CountInv, Follows, Counted
  <1>5. CASE WriteAnswered
    BY <1>5 DEF WriteAnswered, Written, Fail, Note, call, master, slave,
       history, TypeInv, OnceInv, CountInv, Follows, Counted
  <1>6. CASE WriteLost
    BY <1>6 DEF WriteLost, Written, call, master, slave, history, TypeInv,
       OnceInv, CountInv, Follows, Counted
  <1>7. CASE WriteGivesUp
    BY <1>7 DEF WriteGivesUp, Fail, Note, call, master, slave, history,
       TypeInv, OnceInv, CountInv, Follows, Counted
  <1>8. CASE StatusFull
    BY <1>8 DEF StatusFull, call, master, slave, history, TypeInv, OnceInv,
       CountInv, Follows, Counted
  <1>9. CASE StatusExpired
    BY <1>9, ReceiveEnding, CountReceive
  <1>10. CASE ReadAnswered
    BY <1>10, ReceiveEnding, CountReceive
  <1>11. CASE ReadLost
    BY <1>11 DEF ReadLost, Unload, call, master, slave, history, TypeInv,
       OnceInv, CountInv, Follows, Counted
  <1>12. CASE ReadUnsent
    BY <1>12 DEF ReadUnsent, Note, call, master, slave, history, TypeInv,
       OnceInv, CountInv, Follows, Counted
  <1>13. CASE ReadEmpty
    BY <1>13 DEF ReadEmpty, call, master, slave, history, TypeInv, OnceInv,
       CountInv, Follows, Counted
  <1>14. CASE Toggle
    BY <1>14 DEF Toggle, call, master, slave, history, TypeInv, OnceInv,
       CountInv, Follows, Counted
  <1>15. CASE AckSeen
    BY <1>15 DEF AckSeen, call, master, slave, history, TypeInv, OnceInv,
       CountInv, Follows, Counted
  <1>16. CASE AvailSeen
    BY <1>16 DEF AvailSeen, call, master, slave, history, TypeInv, OnceInv,
       CountInv, Follows, Counted
  <1>17. CASE RepeatExpired
    BY <1>17, ReceiveEnding, CountReceive
  <1>18. CASE Expire
    BY <1>18 DEF Expire, call, master, slave, history, TypeInv, OnceInv,
       CountInv, Follows, Counted
  <1>19. CASE SlaveTake
    <2> SUFFICES ASSUME mishap' \cap {"reset", "ignored"} = {} PROVE CountInv'
      BY DEF CountInv
    <2>1. mishap \cap {"reset", "ignored"} = {}
      BY <1>19, Taking
    <2>2. PICK c \in 0 .. MaxCnt, l \in 0 .. req : Follows(c, l)
      BY <2>1 DEF CountInv
    <2>3. sm0.req \in 0 .. req /\ lastcnt' = Cnt(c, sm0.req)
      BY <1>19, <2>2, Taking DEF Follows, TypeInv, OnceInv
    <2>4. drain' \/ pc' = "empty" => sm0.req < req'
      BY <1>19, Taking DEF OnceInv
    <2>5. runs'[sm0.req] = 1
      <3>1. CASE /\ runs' = runs
                 /\ mishap' = IF runs[sm0.req] = 0 THEN mishap \cup {"ignored"}
                                                   ELSE mishap
        <4>1. runs[sm0.req] # 0
          BY <3>1
        <4> QED BY <1>19, <3>1, <4>1, Taking DEF TypeInv, OnceInv
      <3>2. CASE /\ sm0.cnt = 0 \/ sm0.cnt # lastcnt
                 /\ runs' = [runs EXCEPT ![sm0.req] = @ + 1]
        <4>1. sm0 # None /\ runs[sm0.req] = 0
          BY <1>19, <3>2, Taking DEF TypeInv, OnceInv
        <4> QED BY <3>2, <4>1 DEF TypeInv
      <3> QED BY <1>19, <3>1, <3>2, Taking
    <2>6. Counted' = Counted /\ cnt' = cnt /\ req' = req /\ sm0' = None
      BY <1>19, Taking DEF Counted
    <2> QED BY <2>2, <2>3, <2>4, <2>5, <2>6 DEF Follows, CountInv
  <1>20. CASE SlaveEmergency
    BY <1>20 DEF SlaveEmergency, call, master, slave, history, TypeInv,
       OnceInv, CountInv, Follows, Counted
  <1>21. CASE SlaveLoad
    BY <1>21 DEF SlaveLoad, call, master, slave, history, TypeInv, OnceInv,
       CountInv, Follows, Counted
  <1>22. CASE SlaveRepeat
    BY <1>22 DEF SlaveRepeat, call, master, slave, history, TypeInv, OnceInv,
       CountInv, Follows, Counted
  <1>23. CASE UNCHANGED vars
    BY <1>23 DEF vars, call, master, slave, history, TypeInv, OnceInv,
       CountInv, Follows, Counted
  <1> QED BY <1>1, <1>2, <1>3, <1>4, <1>5, <1>6, <1>7, <1>8, <1>9,
             <1>10, <1>11, <1>12, <1>13, <1>14, <1>15, <1>16, <1>17,
             <1>18, <1>19, <1>20, <1>21, <1>22, <1>23
         DEF Next, Send, Receive, Slave

\* What happened stays known, and only the slave ignores requests.
LEMMA Monotone ==
  ASSUME TypeInv, [Next]_vars
  PROVE  /\ req' >= req /\ ("reset" \in mishap => "reset" \in mishap')
         /\ "ignored" \in mishap' \ mishap => SlaveTake
  <1>1. CASE Begin
    BY <1>1 DEF Begin, call, master, slave, history, TypeInv
  <1>2. CASE BeginFOEwrite
    BY <1>2 DEF BeginFOEwrite, Note, call, master, slave, history, TypeInv
  <1>3. CASE EmptySeen
    BY <1>3 DEF EmptySeen, call, master, slave, history, TypeInv
  <1>4. CASE EmptyExpired
    BY <1>4 DEF EmptyExpired, Fail, Note, call, master, slave, history, TypeInv
  <1>5. CASE WriteAnswered
    BY <1>5 DEF WriteAnswered, Written, Fail, Note, call, master, slave,
       history, TypeInv
  <1>6. CASE WriteLost
    BY <1>6 DEF WriteLost, Written, call, master, slave, history, TypeInv
  <1>7. CASE WriteGivesUp
    BY <1>7 DEF WriteGivesUp, Fail, Note, call, master, slave, history, TypeInv
  <1>8. CASE StatusFull
    BY <1>8 DEF StatusFull, call, master, slave, history, TypeInv
  <1>9. CASE StatusExpired
    BY <1>9, ReceiveEnding DEF ReceiveEnds, TypeInv
  <1>10. CASE ReadAnswered
    BY <1>10, ReceiveEnding DEF ReceiveEnds, TypeInv
  <1>11. CASE ReadLost
    BY <1>11 DEF ReadLost, Unload, call, master, slave, history, TypeInv
  <1>12. CASE ReadUnsent
    BY <1>12 DEF ReadUnsent, Note, call, master, slave, history, TypeInv
  <1>13. CASE ReadEmpty
    BY <1>13 DEF ReadEmpty, call, master, slave, history, TypeInv
  <1>14. CASE Toggle
    BY <1>14 DEF Toggle, call, master, slave, history, TypeInv
  <1>15. CASE AckSeen
    BY <1>15 DEF AckSeen, call, master, slave, history, TypeInv
  <1>16. CASE AvailSeen
    BY <1>16 DEF AvailSeen, call, master, slave, history, TypeInv
  <1>17. CASE RepeatExpired
    BY <1>17, ReceiveEnding DEF ReceiveEnds, TypeInv
  <1>18. CASE Expire
    BY <1>18 DEF Expire, call, master, slave, history, TypeInv
  <1>19. CASE SlaveTake
    BY <1>19, Taking DEF TypeInv
  <1>20. CASE SlaveEmergency
    BY <1>20 DEF SlaveEmergency, call, master, slave, history, TypeInv
  <1>21. CASE SlaveLoad
    BY <1>21 DEF SlaveLoad, call, master, slave, history, TypeInv
  <1>22. CASE SlaveRepeat
    BY <1>22 DEF SlaveRepeat, call, master, slave, history, TypeInv
  <1>23. CASE UNCHANGED vars
    BY <1>23 DEF vars, call, master, slave, history, TypeInv
  <1> QED BY <1>1, <1>2, <1>3, <1>4, <1>5, <1>6, <1>7, <1>8, <1>9,
             <1>10, <1>11, <1>12, <1>13, <1>14, <1>15, <1>16, <1>17,
             <1>18, <1>19, <1>20, <1>21, <1>22, <1>23
         DEF Next, Send, Receive, Slave

\* A request is ignored only when its count is that of the one taken last.
LEMMA ExecutedStep ==
  ASSUME IInv, OnceInv', [Next]_vars
  PROVE  ExecutedOnce'
  <1>1. \A r \in 1 .. MaxReq : runs'[r] <= 1
    BY DEF OnceInv
  <1>2. /\ req' >= req /\ ("reset" \in mishap => "reset" \in mishap')
        /\ "ignored" \in mishap' \ mishap => SlaveTake
    BY Monotone DEF IInv
  <1>3. ASSUME "ignored" \in mishap' \ mishap, "reset" \notin mishap
        PROVE  req >= MaxCnt
    <2>1. sm0 # None /\ runs[sm0.req] = 0 /\ sm0.cnt = lastcnt
      BY <1>2, <1>3, Taking
    <2>2. PICK c \in 0 .. MaxCnt, l \in 0 .. req : Follows(c, l)
      BY <1>3, <2>1 DEF IInv, CountInv
    <2>3. sm0.req \in 0 .. req /\ req \in Nat
      BY <2>1 DEF IInv, TypeInv, OnceInv
    <2>4. sm0.req >= MaxCnt
      BY <2>1, <2>2, <2>3, CountComesRound DEF Follows
    <2> QED BY <2>3, <2>4 DEF MaxCnt
  <1>4. req \in Nat /\ req' \in Nat /\ MaxCnt \in Nat
    BY TypeStep DEF IInv, TypeInv, MaxCnt
  <1>5. "ignored" \in mishap' => "reset" \in mishap' \/ req' >= MaxCnt
    <2>1. CASE "ignored" \in mishap
      BY <1>2, <1>4, <2>1 DEF IInv, ExecutedOnce
    <2>2. CASE "ignored" \notin mishap
      BY <1>2, <1>3, <1>4, <2>2
    <2> QED BY <2>1, <2>2
  <1> QED BY <1>1, <1>5 DEF ExecutedOnce

\* And every step keeps it.
LEMMA NextIInv == IInv /\ [Next]_vars => IInv'
  BY TypeStep, OnceStep, CountStep, ExecutedStep DEF IInv

\* However the frames of requests and answers are lost and the mailboxes read,
\* the slave executes no request twice; and it ignores none, unless its count was
\* reset or has come round.
THEOREM RequestsExecutedOnce == Spec => []ExecutedOnce
  <1>1. IInv => ExecutedOnce
    BY DEF IInv
  <1>2. Spec => []IInv
    BY InitIInv, NextIInv, PTL DEF Spec
  <1> QED BY <1>1, <1>2, PTL
-------------------------------------------------------------------------------
(* The mails: every one has its number, and there are no more than the slave   *)
(* answers requests and sends by itself.                                       *)

Done == {r \in 1 .. MaxReq : runs[r] = 1}

MailInv ==
    /\ TypeOK
    /\ pc # "idle" => topic \in Topics
    /\ mails = emcys + Cardinality(Done)
    /\ sm1 # None => sm1.n <= mails
    /\ last # None => last.n <= mails
    /\ \A i \in 1 .. Len(out) : out[i].n <= mails

\* What a step does to the mails: nothing, it reads the out mailbox, or the slave
\* sends one, loads one or repeats the last.
LEMMA MailFlow ==
  ASSUME [Next]_vars
  PROVE  \/ UNCHANGED <<sm1, last, out, mails, emcys, reptog, acktog>>
         \/ Toggle
         \/ /\ ReadAnswered \/ ReadLost
            /\ sm1 # None /\ sm1' = None /\ last' = sm1
            /\ UNCHANGED <<out, mails, emcys, reptog, acktog>>
         \/ SlaveTake \/ SlaveEmergency \/ SlaveLoad \/ SlaveRepeat
  <1>1. CASE Begin
    BY <1>1 DEF Begin, call, master, slave, history
  <1>2. CASE BeginFOEwrite
    BY <1>2 DEF BeginFOEwrite, Note, call, master, slave, history
  <1>3. CASE EmptySeen
    BY <1>3 DEF EmptySeen, call, master, slave, history
  <1>4. CASE EmptyExpired
    BY <1>4 DEF EmptyExpired, Fail, Note, call, master, slave, history
  <1>5. CASE WriteAnswered
    BY <1>5 DEF WriteAnswered, Written, Fail, Note, call, master, slave,
       history
  <1>6. CASE WriteLost
    BY <1>6 DEF WriteLost, Written, call, master, slave, history
  <1>7. CASE WriteGivesUp
    BY <1>7 DEF WriteGivesUp, Fail, Note, call, master, slave, history
  <1>8. CASE StatusFull
    BY <1>8 DEF StatusFull, call, master, slave, history
  <1>9. CASE StatusExpired
    BY <1>9 DEF StatusExpired, call, master, slave, history
  <1>10. CASE ReadAnswered
    BY <1>10 DEF ReadAnswered, Unload
  <1>11. CASE ReadLost
    BY <1>11 DEF ReadLost, Unload, call, master, slave, history
  <1>12. CASE ReadUnsent
    BY <1>12 DEF ReadUnsent, Note, call, master, slave, history
  <1>13. CASE ReadEmpty
    BY <1>13 DEF ReadEmpty, call, master, slave, history
  <1>14. CASE AckSeen
    BY <1>14 DEF AckSeen, call, master, slave, history
  <1>15. CASE AvailSeen
    BY <1>15 DEF AvailSeen, call, master, slave, history
  <1>16. CASE RepeatExpired
    BY <1>16 DEF RepeatExpired, call, master, slave, history
  <1>17. CASE Expire
    BY <1>17 DEF Expire, call, master, slave, history
  <1>18. CASE UNCHANGED vars
    BY <1>18 DEF vars, call, master, slave, history
  <1> QED BY <1>1, <1>2, <1>3, <1>4, <1>5, <1>6, <1>7, <1>8, <1>9, <1>10, <1>11,
             <1>12, <1>13, <1>14, <1>15, <1>16, <1>17, <1>18
         DEF Next, Send, Receive, Slave

\* Sets of requests are finite.
LEMMA RequestSet ==
  ASSUME NEW S \in SUBSET (1 .. MaxReq)
  PROVE  IsFiniteSet(S) /\ Cardinality(S) \in 0 .. MaxReq
  <1>1. 1 \in Int /\ MaxReq \in Int
    OBVIOUS
  <1>2. IsFiniteSet(1 .. MaxReq) /\ Cardinality(1 .. MaxReq) = MaxReq
    BY <1>1, FS_Interval
  <1>3. IsFiniteSet(S) /\ Cardinality(S) <= MaxReq
    BY <1>2, FS_Subset
  <1>4. Cardinality(S) \in Nat
    BY <1>3, FS_CardinalityType
  <1> QED BY <1>3, <1>4

\* One more request is done.
LEMMA DoneGrows ==
  ASSUME MailInv, NEW r \in 1 .. MaxReq, runs[r] = 0,
         runs' = [runs EXCEPT ![r] = @ + 1]
  PROVE  Cardinality(Done') = Cardinality(Done) + 1
  <1>3. IsFiniteSet(Done)
    BY RequestSet DEF Done
  <1>4. Done' = Done \cup {r} /\ r \notin Done
    BY DEF Done, MailInv, TypeOK
  <1> QED BY <1>3, <1>4, FS_AddElement

\* The variables of the master and what it has got keep their types.
MasterType ==
    /\ pc \in {"idle", "empty", "write", "status", "read", "toggle", "ack", "avail"}
    /\ drain \in BOOLEAN /\ expired \in BOOLEAN /\ rep \in BOOLEAN
    /\ cnt \in 0 .. MaxCnt /\ req \in 0 .. MaxReq
    /\ topic \in Topics \cup {None} /\ sends \in 0 .. MaxSend
    /\ repeats \in 0 .. MaxRepeat
    /\ sm0 \in Request \cup {None}
    /\ accepted \in Mail \cup {None} /\ read \subseteq Nat
    /\ mishap \subseteq Mishaps
    /\ pc # "idle" => topic \in Topics

\* A receive without a mail for the caller.
LEMMA FailingType ==
  ASSUME MasterType, UNCHANGED <<rep, req, topic, repeats, sm0, accepted, read>>,
         pc # "idle",
         ReceiveFails({}) \/ ReceiveFails({"gaveup"})
  PROVE  MasterType'
  <1>1. CASE drain
    <2>1. nextmbxcnt(cnt) \in 0 .. MaxCnt
      BY DEF MasterType, nextmbxcnt, MaxCnt
    <2>2. mishap' \subseteq Mishaps
      BY <1>1 DEF ReceiveFails, Note, MasterType, Mishaps
    <2>3. /\ pc' = "empty" /\ drain' = FALSE /\ expired' = FALSE /\ sends' = 0
          /\ cnt' = nextmbxcnt(cnt)
      BY <1>1 DEF ReceiveFails
    <2>4. drain' \in BOOLEAN /\ expired' \in BOOLEAN
      BY <2>3, Zenon
    <2>6. sends' \in 0 .. MaxSend
      BY <2>3 DEF MaxSend
    <2>5. /\ pc' = "empty" /\ cnt' \in 0 .. MaxCnt
          /\ UNCHANGED <<rep, req, topic, repeats, sm0, accepted, read>>
      BY <2>1, <2>3
    <2> QED BY <2>2, <2>4, <2>5, <2>6 DEF MasterType
  <1>2. CASE ~drain
    BY <1>2 DEF ReceiveFails, Fail, Note, MasterType, Mishaps
  <1> QED BY <1>1, <1>2

LEMMA MasterTypeStep ==
  ASSUME MailInv, TypeInv, [Next]_vars
  PROVE  MasterType'
  <1> USE DEF MasterType, Mishaps, MaxCnt, MaxSend
  <1>0. MasterType
    BY DEF MailInv, TypeOK
  <1>1. CASE Begin
    BY <1>0, <1>1 DEF Begin, call, master, slave, history
  <1>2. CASE BeginFOEwrite
    BY <1>0, <1>2 DEF BeginFOEwrite, Note, call, master, slave, history
  <1>3. CASE EmptySeen
    BY <1>0, <1>3 DEF EmptySeen, call, master, slave, history
  <1>4. CASE EmptyExpired
    BY <1>0, <1>4 DEF EmptyExpired, Fail, Note, call, master, slave, history
  <1>5. CASE WriteAnswered
    <2>1. Written /\ req \in 1 .. MaxReq /\ topic \in Topics
      BY <1>0, <1>5 DEF WriteAnswered, TypeInv
    <2>2. sm0' \in Request \cup {None}
      BY <1>0, <2>1 DEF Written, Request
    <2>3. sends' \in 0 .. MaxSend
      BY <1>0, <1>5 DEF WriteAnswered
    <2>4. mishap' \subseteq Mishaps /\ pc' \in {"status", "idle"}
      <3>1. CASE sm0 = None
        BY <1>0, <1>5, <3>1 DEF WriteAnswered
      <3>2. CASE sm0 # None
        BY <1>0, <1>5, <3>2 DEF WriteAnswered, Fail, Note
      <3> QED BY <3>1, <3>2
    <2> QED BY <1>0, <1>5, <2>2, <2>3, <2>4 DEF WriteAnswered
  <1>6. CASE WriteLost
    <2>1. (Written \/ UNCHANGED sm0) /\ req \in 1 .. MaxReq /\ topic \in Topics
      BY <1>0, <1>6 DEF WriteLost, TypeInv
    <2>2. sm0' \in Request \cup {None}
      BY <1>0, <2>1 DEF Written, Request
    <2> QED BY <1>0, <1>6, <2>2 DEF WriteLost, history
  <1>7. CASE WriteGivesUp
    BY <1>0, <1>7 DEF WriteGivesUp, Fail, Note, call, master, slave, history
  <1>8. CASE StatusFull
    BY <1>0, <1>8 DEF StatusFull, slave, history, MailInv, TypeOK
  <1>9. CASE StatusExpired
    BY <1>0, <1>9, FailingType DEF StatusExpired, slave
  <1>10. CASE ReadAnswered
    <2>1. /\ UNCHANGED <<rep, req, topic, repeats, sm0>> /\ pc = "read"
          /\ sm1 \in Mail /\ read' = read \cup {sm1.n}
      BY <1>10 DEF ReadAnswered, MailInv, TypeOK
    <2>2. read' \subseteq Nat
      <3>1. sm1.n \in Nat
        BY <2>1 DEF Mail
      <3> QED BY <1>0, <2>1, <3>1
    <2>3. CASE ReceiveFails({}) /\ UNCHANGED accepted
      <3>1. CASE drain
        <4>1. nextmbxcnt(cnt) \in 0 .. MaxCnt
          BY <1>0 DEF nextmbxcnt
        <4>2. /\ pc' = "empty" /\ drain' = FALSE /\ expired' = FALSE /\ sends' = 0
              /\ cnt' = nextmbxcnt(cnt) /\ mishap' = mishap
          BY <2>3, <3>1 DEF ReceiveFails, Note
        <4>3. drain' \in BOOLEAN /\ expired' \in BOOLEAN
          BY <4>2, Zenon
        <4>5. sends' \in 0 .. MaxSend
          BY <4>2
        <4>4. /\ pc' = "empty" /\ cnt' \in 0 .. MaxCnt /\ mishap' = mishap
              /\ UNCHANGED <<rep, req, topic, repeats, sm0, accepted>>
          BY <2>1, <2>3, <4>1, <4>2
        <4> QED BY <1>0, <2>1, <2>2, <4>3, <4>4, <4>5
      <3>2. CASE ~drain
        BY <1>0, <2>1, <2>2, <2>3, <3>2 DEF ReceiveFails, Fail, Note
      <3> QED BY <3>1, <3>2
    <2>4. CASE ReceiveReturns(sm1) /\ ~drain
      BY <1>0, <2>1, <2>2, <2>4 DEF ReceiveReturns, Fail, Note
    <2>5. CASE UNCHANGED <<pc, drain, expired, cnt, sends, accepted, mishap>>
      BY <1>0, <2>1, <2>2, <2>5
    <2> QED BY <1>10, <2>3, <2>4, <2>5 DEF ReadAnswered, ReceiveReturns
  <1>11. CASE ReadLost
    BY <1>0, <1>11 DEF ReadLost, Unload, call, master, slave, history
  <1>12. CASE ReadUnsent
    BY <1>0, <1>12 DEF ReadUnsent, Note, call, master, slave, history
  <1>13. CASE ReadEmpty
    BY <1>0, <1>13 DEF ReadEmpty, call, master, slave, history
  <1>14. CASE Toggle
    BY <1>0, <1>14 DEF Toggle, call, master, slave, history
  <1>15. CASE AckSeen
    BY <1>0, <1>15 DEF AckSeen, call, master, slave, history
  <1>16. CASE AvailSeen
    BY <1>0, <1>16 DEF AvailSeen, slave, history, MailInv, TypeOK
  <1>17. CASE RepeatExpired
    BY <1>0, <1>17, FailingType DEF RepeatExpired, slave
  <1>18. CASE Expire
    BY <1>0, <1>18 DEF Expire, call, master, slave, history
  <1>19. CASE SlaveTake
    <2>1. UNCHANGED <<master, accepted, read>> /\ sm0' = None
      BY <1>19 DEF SlaveTake
    <2>2. mishap' \subseteq Mishaps
      BY <1>0, <1>19, Taking
    <2> QED BY <1>0, <2>1, <2>2 DEF master, call
  <1>20. CASE SlaveEmergency
    BY <1>0, <1>20 DEF SlaveEmergency, call, master, slave, history
  <1>21. CASE SlaveLoad
    BY <1>0, <1>21 DEF SlaveLoad, call, master, slave, history
  <1>22. CASE SlaveRepeat
    BY <1>0, <1>22 DEF SlaveRepeat, call, master, slave, history
  <1>23. CASE UNCHANGED vars
    BY <1>0, <1>23 DEF vars, call, master, slave, history
  <1> QED BY <1>1, <1>2, <1>3, <1>4, <1>5, <1>6, <1>7, <1>8, <1>9, <1>10, <1>11,
             <1>12, <1>13, <1>14, <1>15, <1>16, <1>17, <1>18, <1>19, <1>20,
             <1>21, <1>22, <1>23
         DEF Next, Send, Receive, Slave

\* A mail that the slave sends has the next number.
LEMMA SlaveSends ==
  ASSUME MailInv, NEW m,
         UNCHANGED <<sm1, last>>, mails' = mails + 1, out' = Append(out, m),
         m.n = mails + 1, m.req \in 0 .. MaxReq, m.topic \in Topics \cup {None},
         m = [n |-> mails + 1, req |-> m.req, topic |-> m.topic],
         mails' <= MaxReq + MaxEmcy
  PROVE  /\ out' \in Seq(Mail) /\ mails' \in Nat
         /\ (sm1 # None => sm1.n <= mails)' /\ (last # None => last.n <= mails)'
         /\ \A i \in 1 .. Len(out)' : out'[i].n <= mails'
  <1>1. mails \in Nat /\ out \in Seq(Mail) /\ mails + 1 \in 1 .. MaxReq + MaxEmcy
    BY DEF MailInv, TypeOK
  <1>2. m \in Mail
    BY <1>1 DEF Mail
  <1>3. out' \in Seq(Mail) /\ Len(out') = Len(out) + 1
    BY <1>1, <1>2
  <1>4. ASSUME NEW i \in 1 .. Len(out')
        PROVE  out'[i].n <= mails'
    <2>1. CASE i = Len(out) + 1
      BY <1>1, <2>1
    <2>2. CASE i \in 1 .. Len(out)
      <3>1. out'[i] = out[i] /\ out[i].n <= mails /\ out[i] \in Mail
        BY <1>1, <2>2 DEF MailInv
      <3> QED BY <1>1, <3>1 DEF Mail
    <2> QED BY <1>1, <1>3, <2>1, <2>2
  <1>5. sm1 \in Mail \cup {None} /\ last \in Mail \cup {None}
    BY DEF MailInv, TypeOK
  <1> QED BY <1>1, <1>3, <1>4, <1>5 DEF MailInv, Mail

\* A mail is moved from one place to the next.
Moved ==
    /\ sm1' \in Mail \cup {None} /\ last' \in Mail \cup {None} /\ out' \in Seq(Mail)
    /\ (sm1 # None => sm1.n <= mails)' /\ (last # None => last.n <= mails)'
    /\ \A i \in 1 .. Len(out)' : out'[i].n <= mails'

LEMMA MailMoves ==
  ASSUME MailInv, UNCHANGED mails,
         \/ UNCHANGED <<sm1, last, out>>
         \/ sm1' = None /\ last' = sm1 /\ UNCHANGED out
         \/ SlaveLoad \/ SlaveRepeat
  PROVE  Moved
  <1>1. /\ sm1 \in Mail \cup {None} /\ last \in Mail \cup {None} /\ out \in Seq(Mail)
        /\ mails \in Nat
    BY DEF MailInv, TypeOK
  <1>2. CASE UNCHANGED <<sm1, last, out>> \/ (sm1' = None /\ last' = sm1 /\ UNCHANGED out)
    BY <1>1, <1>2 DEF MailInv, Moved
  <1>3. CASE SlaveLoad
    <2>1. out # <<>> /\ sm1' = Head(out) /\ out' = Tail(out) /\ last' = last
      BY <1>3 DEF SlaveLoad
    <2>2. /\ sm1' = out[1] /\ 1 \in 1 .. Len(out) /\ out' \in Seq(Mail)
          /\ \A i \in 1 .. Len(out') : out'[i] = out[i + 1] /\ i + 1 \in 1 .. Len(out)
      BY <1>1, <2>1
    <2> QED BY <1>1, <2>1, <2>2 DEF MailInv, Moved
  <1>4. CASE SlaveRepeat
    <2>1. CASE last = None \/ sm1 = None
      BY <1>1, <1>4, <2>1 DEF SlaveRepeat, MailInv, Moved
    <2>2. CASE last # None /\ sm1 # None
      <3>1. sm1' = last /\ out' = <<sm1>> \o out /\ last' = last
        BY <1>4, <2>2 DEF SlaveRepeat
      <3>2. sm1 \in Mail /\ <<sm1>> \in Seq(Mail)
        BY <1>1, <2>2
      <3>3. /\ out' \in Seq(Mail) /\ Len(out') = Len(out) + 1
            /\ \A i \in 1 .. Len(out') : out'[i] = IF i = 1 THEN sm1 ELSE out[i - 1]
        BY <1>1, <3>1, <3>2
      <3>4. \A i \in 1 .. Len(out') : out'[i].n <= mails
        BY <1>1, <2>2, <3>3 DEF MailInv
      <3> QED BY <1>1, <2>2, <3>1, <3>3, <3>4 DEF MailInv, Moved
    <2> QED BY <2>1, <2>2
  <1> QED BY <1>2, <1>3, <1>4

\* What only the slave changes.
LEMMA SlaveVars ==
  ASSUME [Next]_vars
  PROVE  \/ Slave
         \/ UNCHANGED <<acktog, lastcnt, mails, emcys, runs, out>>
  <1>1. CASE Begin
    BY <1>1 DEF Begin, call, master, slave, history
  <1>2. CASE BeginFOEwrite
    BY <1>2 DEF BeginFOEwrite, Note, call, master, slave, history
  <1>3. CASE EmptySeen
    BY <1>3 DEF EmptySeen, call, master, slave, history
  <1>4. CASE EmptyExpired
    BY <1>4 DEF EmptyExpired, Fail, Note, call, master, slave, history
  <1>5. CASE WriteAnswered
    BY <1>5 DEF WriteAnswered, Written, Fail, Note, call, master, slave,
       history
  <1>6. CASE WriteLost
    BY <1>6 DEF WriteLost, Written, call, master, slave, history
  <1>7. CASE WriteGivesUp
    BY <1>7 DEF WriteGivesUp, Fail, Note, call, master, slave, history
  <1>8. CASE StatusFull
    BY <1>8 DEF StatusFull, call, master, slave, history
  <1>9. CASE StatusExpired
    BY <1>9 DEF StatusExpired, call, master, slave, history
  <1>10. CASE ReadAnswered
    BY <1>10 DEF ReadAnswered
  <1>11. CASE ReadLost
    BY <1>11 DEF ReadLost, Unload, call, master, slave, history
  <1>12. CASE ReadUnsent
    BY <1>12 DEF ReadUnsent, Note, call, master, slave, history
  <1>13. CASE ReadEmpty
    BY <1>13 DEF ReadEmpty, call, master, slave, history
  <1>14. CASE Toggle
    BY <1>14 DEF Toggle, call, master, slave, history
  <1>15. CASE AckSeen
    BY <1>15 DEF AckSeen, call, master, slave, history
  <1>16. CASE AvailSeen
    BY <1>16 DEF AvailSeen, call, master, slave, history
  <1>17. CASE RepeatExpired
    BY <1>17 DEF RepeatExpired, call, master, slave, history
  <1>18. CASE Expire
    BY <1>18 DEF Expire, call, master, slave, history
  <1>19. CASE UNCHANGED vars
    BY <1>19 DEF vars, call, master, slave, history
  <1> QED BY <1>1, <1>2, <1>3, <1>4, <1>5, <1>6, <1>7, <1>8, <1>9, <1>10, <1>11,
             <1>12, <1>13, <1>14, <1>15, <1>16, <1>17, <1>18, <1>19
         DEF Next, Send, Receive, Slave

\* Types and numbers are kept.
LEMMA MailStep ==
  ASSUME MailInv, TypeInv, OnceInv, [Next]_vars
  PROVE  MailInv'
  <1>1. MasterType'
    BY MasterTypeStep
  <1>2. Cardinality(Done) \in 0 .. MaxReq /\ Cardinality(Done') \in 0 .. MaxReq
    BY RequestSet DEF Done
  <1>7. emcys \in 0 .. MaxEmcy /\ mails = emcys + Cardinality(Done)
    BY DEF MailInv, TypeOK
  <1>3. CASE ~Slave
    <2>1. UNCHANGED <<acktog, lastcnt, mails, emcys, runs>>
      BY <1>3, SlaveVars
    <2>2. UNCHANGED <<sm1, last, out>> \/ (sm1' = None /\ last' = sm1 /\ UNCHANGED out)
      BY <1>3, MailFlow DEF Toggle, Slave
    <2>3. Moved
      BY <2>1, <2>2, MailMoves
    <2>4. reptog' \in BOOLEAN
      <3>1. CASE Toggle
        BY <3>1 DEF Toggle, MailInv, TypeOK
      <3>2. CASE ~Toggle
        <4>1. reptog' = reptog
          BY <1>3, <3>2, MailFlow DEF Slave
        <4> QED BY <4>1 DEF MailInv, TypeOK
      <3> QED BY <3>1, <3>2
    <2>5. mails' = emcys' + Cardinality(Done')
      BY <2>1 DEF MailInv, Done
    <2> QED BY <1>1, <2>1, <2>3, <2>4, <2>5 DEF MasterType, Moved, MailInv, TypeOK
  <1>4. CASE SlaveTake
    <2>1. /\ sm0 \in Request /\ UNCHANGED <<sm1, last, reptog, acktog, emcys>>
          /\ lastcnt' = sm0.cnt
      BY <1>4 DEF SlaveTake, MailInv, TypeOK
    <2>2. lastcnt' \in 0 .. MaxCnt /\ sm0.req \in 1 .. MaxReq /\ sm0.topic \in Topics
      BY <2>1 DEF Request
    <2>3. CASE sm0.cnt # 0 /\ sm0.cnt = lastcnt
      <3>1. UNCHANGED <<out, mails, runs>>
        BY <1>4, <2>3 DEF SlaveTake
      <3>2. Moved /\ mails' = emcys' + Cardinality(Done')
        BY <2>1, <3>1, MailMoves DEF MailInv, Done
      <3> QED BY <1>1, <2>1, <2>2, <3>1, <3>2 DEF MasterType, Moved, MailInv, TypeOK
    <2>4. CASE ~(sm0.cnt # 0 /\ sm0.cnt = lastcnt)
      <3> DEFINE m == [n |-> mails + 1, req |-> sm0.req, topic |-> sm0.topic]
      <3>1. /\ mails' = mails + 1 /\ out' = Append(out, m)
            /\ runs' = [runs EXCEPT ![sm0.req] = @ + 1]
        BY <1>4, <2>4 DEF SlaveTake
      <3>2. sm0 # None /\ runs[sm0.req] = 0
        BY <1>4, <2>4, <2>2 DEF SlaveTake, TypeInv, OnceInv
      <3>3. Cardinality(Done') = Cardinality(Done) + 1
        BY <2>2, <3>1, <3>2, DoneGrows
      <3>5. mails' = emcys' + Cardinality(Done') /\ mails' <= MaxReq + MaxEmcy
        BY <1>2, <1>7, <2>1, <3>1, <3>3
      <3>6. /\ out' \in Seq(Mail) /\ mails' \in Nat
            /\ (sm1 # None => sm1.n <= mails)' /\ (last # None => last.n <= mails)'
            /\ \A i \in 1 .. Len(out)' : out'[i].n <= mails'
        BY <2>1, <2>2, <3>1, <3>5, SlaveSends
      <3>7. runs' \in [1 .. MaxReq -> Nat]
        BY <2>2, <3>1 DEF MailInv, TypeOK
      <3> QED BY <1>1, <2>1, <2>2, <3>5, <3>6, <3>7 DEF MasterType, MailInv, TypeOK
    <2> QED BY <2>3, <2>4
  <1>5. CASE SlaveEmergency
    <2> DEFINE m == [n |-> mails + 1, req |-> 0, topic |-> None]
    <2>1. /\ emcys < MaxEmcy /\ emcys' = emcys + 1 /\ mails' = mails + 1
          /\ out' = Append(out, m)
          /\ UNCHANGED <<sm1, last, reptog, acktog, lastcnt, runs>>
      BY <1>5 DEF SlaveEmergency, history
    <2>2. mails' <= MaxReq + MaxEmcy /\ emcys' \in 0 .. MaxEmcy
      BY <1>2, <1>7, <2>1
    <2>3. /\ out' \in Seq(Mail) /\ mails' \in Nat
          /\ (sm1 # None => sm1.n <= mails)' /\ (last # None => last.n <= mails)'
          /\ \A i \in 1 .. Len(out)' : out'[i].n <= mails'
      BY <2>1, <2>2, SlaveSends
    <2>4. mails' = emcys' + Cardinality(Done')
      <3>1. Done' = Done
        BY <2>1 DEF Done
      <3> QED BY <1>2, <1>7, <2>1, <3>1
    <2>5. UNCHANGED <<sm1, last, reptog, acktog, lastcnt, runs>> /\ emcys' \in 0 .. MaxEmcy
      BY <2>1, <2>2
    <2> QED BY <1>1, <2>3, <2>4, <2>5 DEF MasterType, MailInv, TypeOK
  <1>6. CASE SlaveLoad \/ SlaveRepeat
    <2>1. UNCHANGED <<reptog, lastcnt, mails, emcys, runs>>
      BY <1>6 DEF SlaveLoad, SlaveRepeat, history
    <2>2. Moved
      BY <1>6, <2>1, MailMoves
    <2>3. acktog' \in BOOLEAN
      BY <1>6 DEF SlaveLoad, SlaveRepeat, MailInv, TypeOK
    <2>4. mails' = emcys' + Cardinality(Done')
      BY <2>1 DEF MailInv, Done
    <2> QED BY <1>1, <2>1, <2>2, <2>3, <2>4 DEF MasterType, Moved, MailInv, TypeOK
  <1> QED BY <1>3, <1>4, <1>5, <1>6 DEF Slave

-------------------------------------------------------------------------------
(* No mail is skipped: the mails follow each other through the mailbox, and a  *)
(* repeat request brings back the one that was lost.                           *)

LastN == IF last = None THEN 0 ELSE last.n
Front == IF sm1 = None THEN LastN ELSE sm1.n

\* The mails from the last one that was read to the newest, in their order; a
\* repeat puts the same number in twice.
ChainInv ==
    /\ sm1 # None => sm1.n \in {LastN, LastN + 1}
    /\ out # <<>> => out[1].n \in {Front, Front + 1}
    /\ \A i \in 1 .. Len(out) - 1 : out[i + 1].n \in {out[i].n, out[i].n + 1}
    /\ mails = IF out = <<>> THEN Front ELSE out[Len(out)].n

\* The repeat request bit that is toggled is the one of the slave.
RepInv == pc \in {"read", "toggle"} => rep = reptog

\* All mails up to the one before the last have reached the master, and the last
\* as well, or its repeat is under way.
ReadInv ==
    "gaveup" \notin mishap =>
      /\ pc # "ack" => reptog = acktog
      /\ pc = "avail" => rep = reptog
      /\ pc = "ack" => acktog # rep \/ reptog = rep
      /\ 1 .. LastN - 1 \subseteq read
      /\ last # None /\ last.n \notin read =>
           /\ pc \in {"read", "toggle", "ack", "avail"}
           /\ pc \in {"read", "avail"} \/ (pc = "ack" /\ acktog = rep) => sm1 = last

\* The mails stay in order.
LEMMA ChainStep ==
  ASSUME MailInv, ChainInv, [Next]_vars
  PROVE  ChainInv'
  <1> USE NoMailAssumption DEF ChainInv, Front, LastN
  <1>0. /\ sm1 \in Mail \cup {None} /\ last \in Mail \cup {None} /\ out \in Seq(Mail)
        /\ mails \in Nat
        /\ \A m \in Mail : m.n \in Nat
    BY DEF MailInv, TypeOK, Mail
  <1>1. CASE UNCHANGED <<sm1, last, out, mails>>
    BY <1>1
  <1>2. CASE sm1 # None /\ sm1' = None /\ last' = sm1 /\ UNCHANGED <<out, mails>>
    BY <1>0, <1>2
  <1>3. ASSUME NEW m, m.n = mails + 1, mails' = mails + 1, out' = Append(out, m),
               UNCHANGED <<sm1, last>>
        PROVE  ChainInv'
    <2>1. /\ Len(out') = Len(out) + 1 /\ out'[Len(out) + 1] = m /\ out' # <<>>
          /\ \A i \in 1 .. Len(out) : out'[i] = out[i]
          /\ Len(out) \in Nat /\ (out = <<>> <=> Len(out) = 0)
      BY <1>0, <1>3
    <2>2. CASE out = <<>>
      BY <1>0, <1>3, <2>1, <2>2
    <2>3. CASE out # <<>>
      <3>1. out'[1] = out[1] /\ out'[Len(out)].n = mails
        BY <1>3, <2>1, <2>3
      <3>2. ASSUME NEW i \in 1 .. Len(out') - 1
            PROVE  out'[i + 1].n \in {out'[i].n, out'[i].n + 1}
        <4>1. CASE i = Len(out)
          BY <1>3, <2>1, <3>1, <4>1
        <4>2. CASE i # Len(out)
          <5>1. i \in 1 .. Len(out) - 1 /\ i \in 1 .. Len(out) /\ i + 1 \in 1 .. Len(out)
            BY <2>1, <4>2
          <5> QED BY <2>1, <5>1
        <4> QED BY <4>1, <4>2
      <3> QED BY <1>3, <2>1, <2>3, <3>1, <3>2
    <2> QED BY <2>2, <2>3
  <1>4. CASE SlaveTake
    <2>1. CASE sm0.cnt # 0 /\ sm0.cnt = lastcnt
      BY <1>1, <1>4, <2>1 DEF SlaveTake
    <2>2. CASE ~(sm0.cnt # 0 /\ sm0.cnt = lastcnt)
      <3> DEFINE m == [n |-> mails + 1, req |-> sm0.req, topic |-> sm0.topic]
      <3>1. /\ mails' = mails + 1 /\ out' = Append(out, m) /\ m.n = mails + 1
            /\ UNCHANGED <<sm1, last>>
        BY <1>4, <2>2 DEF SlaveTake
      <3> QED BY <1>3, <3>1
    <2> QED BY <2>1, <2>2
  <1>5. CASE SlaveEmergency
    <2> DEFINE m == [n |-> mails + 1, req |-> 0, topic |-> None]
    <2>1. /\ mails' = mails + 1 /\ out' = Append(out, m) /\ m.n = mails + 1
          /\ UNCHANGED <<sm1, last>>
      BY <1>5 DEF SlaveEmergency
    <2> QED BY <1>3, <2>1
  <1>6. CASE SlaveLoad
    <2>1. /\ sm1 = None /\ out # <<>> /\ sm1' = out[1] /\ out' = Tail(out)
          /\ UNCHANGED <<last, mails>>
      BY <1>6 DEF SlaveLoad
    <2>2. /\ Len(out) \in Nat \ {0} /\ Len(out') = Len(out) - 1
          /\ \A i \in 1 .. Len(out) - 1 : out'[i] = out[i + 1]
          /\ out' \in Seq(Mail) /\ out[1] \in Mail
      BY <1>0, <2>1
    <2>7. out' = <<>> <=> Len(out) = 1
      BY <2>2
    <2>3. sm1' # None /\ sm1'.n \in {LastN, LastN + 1} /\ Front' = out[1].n /\ LastN' = LastN
      BY <2>1, <2>2
    <2>4. out' # <<>> => out'[1].n \in {Front', Front' + 1}
      BY <2>2, <2>3
    <2>5. \A i \in 1 .. Len(out') - 1 : out'[i + 1].n \in {out'[i].n, out'[i].n + 1}
      <3>1. ASSUME NEW i \in 1 .. Len(out') - 1
            PROVE  out'[i + 1].n \in {out'[i].n, out'[i].n + 1}
        <4>1. /\ i \in 1 .. Len(out) - 1 /\ i + 1 \in 1 .. Len(out) - 1
              /\ out'[i] = out[i + 1] /\ out'[i + 1] = out[(i + 1) + 1]
          BY <2>2
        <4> QED BY <4>1
      <3> QED BY <3>1
    <2>6. mails' = IF out' = <<>> THEN Front' ELSE out'[Len(out')].n
      <3>1. CASE Len(out) = 1
        BY <2>1, <2>2, <2>3, <2>7, <3>1
      <3>2. CASE Len(out) # 1
        <4>1. out'[Len(out')] = out[Len(out)]
          BY <2>2, <3>2
        <4> QED BY <2>1, <2>2, <2>7, <3>2, <4>1
      <3> QED BY <3>1, <3>2
    <2> QED BY <2>3, <2>4, <2>5, <2>6
  <1>7. CASE SlaveRepeat
    <2>1. UNCHANGED <<last, mails>>
      BY <1>7 DEF SlaveRepeat
    <2>2. CASE last = None
      BY <1>1, <1>7, <2>1, <2>2 DEF SlaveRepeat
    <2>3. CASE last # None /\ sm1 = None
      <3>1. sm1' = last /\ out' = out
        BY <1>7, <2>3 DEF SlaveRepeat
      <3> QED BY <2>1, <2>3, <3>1
    <2>4. CASE last # None /\ sm1 # None
      <3>1. sm1' = last /\ out' = <<sm1>> \o out
        BY <1>7, <2>4 DEF SlaveRepeat
      <3>2. <<sm1>> \in Seq(Mail)
        BY <1>0, <2>4
      <3>3. /\ Len(out') = Len(out) + 1 /\ out'[1] = sm1 /\ out' # <<>>
            /\ \A i \in 1 .. Len(out) : out'[i + 1] = out[i]
            /\ Len(out) \in Nat /\ (out = <<>> <=> Len(out) = 0)
        BY <1>0, <3>1, <3>2
      <3>4. Front' = LastN /\ LastN' = LastN /\ Front = sm1.n
        BY <2>1, <2>4, <3>1
      <3>5. ASSUME NEW i \in 1 .. Len(out') - 1
            PROVE  out'[i + 1].n \in {out'[i].n, out'[i].n + 1}
        <4>1. out'[i + 1] = out[i] /\ i \in 1 .. Len(out)
          BY <3>3
        <4>2. CASE i = 1
          BY <2>4, <3>3, <4>1, <4>2
        <4>3. CASE i # 1
          <5>1. /\ i - 1 \in 1 .. Len(out) - 1 /\ i - 1 \in 1 .. Len(out)
                /\ (i - 1) + 1 = i
            BY <3>3, <4>1, <4>3
          <5>2. out'[i] = out[i - 1]
            BY <3>3, <5>1
          <5> QED BY <4>1, <5>1, <5>2
        <4> QED BY <4>2, <4>3
      <3>6. mails' = out'[Len(out')].n
        <4>1. CASE out = <<>>
          BY <2>1, <2>4, <3>3, <4>1
        <4>2. CASE out # <<>>
          <5>1. out'[Len(out')] = out[Len(out)]
            BY <3>3, <4>2
          <5> QED BY <2>1, <4>2, <5>1
        <4> QED BY <4>1, <4>2
      <3> QED BY <2>1, <2>4, <3>1, <3>3, <3>4, <3>5, <3>6
    <2> QED BY <2>2, <2>3, <2>4
  <1> QED BY <1>1, <1>2, <1>4, <1>5, <1>6, <1>7, MailFlow DEF Toggle

\* Where the receive goes on when it ends without a mail for the caller.
LEMMA FailingGoes ==
  ASSUME NEW m, ReceiveFails(m)
  PROVE  /\ pc' \in {"idle", "empty"}
         /\ mishap \subseteq mishap' /\ m \subseteq mishap'
         /\ "unread" \in mishap' => "unread" \in mishap \cup m
         /\ \/ drain /\ pc' = "empty" /\ ~drain' /\ mishap' = mishap \cup m
            \/ ~drain /\ pc' = "idle" /\ UNCHANGED drain /\ "failed" \in mishap'
  <1>1. CASE drain
    BY <1>1 DEF ReceiveFails, Note
  <1>2. CASE ~drain
    BY <1>2 DEF ReceiveFails, Fail, Note
  <1> QED BY <1>1, <1>2

\* The ways a mail goes when it is read.
LEMMA ReadGoes ==
  ASSUME ReadAnswered
  PROVE  /\ pc = "read" /\ sm1 # None /\ sm1' = None /\ last' = sm1
         /\ read' = read \cup {sm1.n}
         /\ UNCHANGED <<rep, req, topic, repeats, sm0, out, reptog, acktog, lastcnt,
                        mails, emcys, runs>>
         /\ mishap \subseteq mishap'
         /\ \/ pc' \in {"idle", "empty"} /\ accepted' = accepted
            \/ pc' = "idle" /\ accepted' = sm1 /\ ~Handled(sm1) /\ ~drain /\ drain' = drain
               /\ sm1.topic = topic
            \/ UNCHANGED <<pc, drain, accepted, mishap>> /\ Handled(sm1)
         /\ "gaveup" \in mishap' => "gaveup" \in mishap
  <1>1. /\ pc = "read" /\ sm1 # None /\ sm1' = None /\ last' = sm1
        /\ read' = read \cup {sm1.n}
        /\ UNCHANGED <<rep, req, topic, repeats, sm0, out, reptog, acktog, lastcnt,
                       mails, emcys, runs>>
    BY DEF ReadAnswered, Unload
  <1>2. CASE ReceiveFails({}) /\ UNCHANGED accepted
    <2>1. "gaveup" \in mishap' => "gaveup" \in mishap
      BY <1>2 DEF ReceiveFails, Fail, Note
    <2> QED BY <1>1, <1>2, <2>1, FailingGoes
  <1>3. CASE ReceiveReturns(sm1) /\ ~drain /\ ~Handled(sm1)
    <2>1. CASE sm1.topic = topic
      BY <1>1, <1>3, <2>1 DEF ReceiveReturns
    <2>2. CASE sm1.topic # topic
      BY <1>1, <1>3, <2>2 DEF ReceiveReturns, Fail, Note
    <2> QED BY <2>1, <2>2
  <1>4. CASE UNCHANGED <<pc, drain, accepted, mishap>> /\ Handled(sm1)
    BY <1>1, <1>4
  <1>5. \/ ReceiveFails({}) /\ UNCHANGED accepted
        \/ ReceiveReturns(sm1) /\ ~drain /\ ~Handled(sm1)
        \/ UNCHANGED <<pc, drain, accepted, mishap>> /\ Handled(sm1)
    BY DEF ReadAnswered, ReceiveReturns
  <1> QED BY <1>2, <1>3, <1>4, <1>5

\* ecx_mbxreceive holds the repeat request bit of the slave when it toggles it.
LEMMA RepStep ==
  ASSUME RepInv, [Next]_vars
  PROVE  RepInv'
  <1>1. CASE Begin \/ BeginFOEwrite \/ EmptySeen \/ EmptyExpired \/
            WriteAnswered \/ WriteLost \/ WriteGivesUp
    BY <1>1 DEF Begin, BeginFOEwrite, Note, EmptySeen, EmptyExpired, Fail,
       WriteAnswered, Written, WriteLost, WriteGivesUp, call, master, slave,
       history, RepInv
  <1>2. CASE StatusExpired
    BY <1>2, FailingGoes DEF StatusExpired, RepInv
  <1>3. CASE RepeatExpired
    BY <1>3, FailingGoes DEF RepeatExpired, RepInv
  <1>4. CASE ReadAnswered
    BY <1>4, ReadGoes DEF RepInv
  <1>5. CASE StatusFull \/ AvailSeen
    BY <1>5 DEF StatusFull, AvailSeen, call, master, slave, history, RepInv
  <1>6. CASE ReadLost \/ ReadUnsent \/ ReadEmpty
    BY <1>6 DEF ReadLost, Unload, ReadUnsent, Note, ReadEmpty, call, master,
       slave, history, RepInv
  <1>7. CASE Toggle \/ AckSeen \/ Expire
    BY <1>7 DEF Toggle, AckSeen, Expire, call, master, slave, history,
       RepInv
  <1>8. CASE SlaveTake \/ SlaveEmergency \/ SlaveLoad \/ SlaveRepeat \/
            UNCHANGED vars
    BY <1>8 DEF SlaveTake, SlaveEmergency, SlaveLoad, SlaveRepeat, vars,
       call, master, slave, history, RepInv
  <1> QED BY <1>1, <1>2, <1>3, <1>4, <1>5, <1>6, <1>7, <1>8
         DEF Next, Send, Receive, Slave

\* A mail that is in the mailbox follows the ones that have reached the master.
LEMMA FollowsRead ==
  ASSUME MailInv, ChainInv, ReadInv, "gaveup" \notin mishap, pc = "read", sm1 # None
  PROVE  1 .. sm1.n - 1 \subseteq read /\ sm1.n \in Nat
  <1>1. sm1 \in Mail /\ last \in Mail \cup {None} /\ sm1.n \in Nat
    BY DEF MailInv, TypeOK, Mail
  <1>2. sm1.n \in {LastN, LastN + 1} /\ 1 .. LastN - 1 \subseteq read
    BY DEF ChainInv, ReadInv
  <1>3. CASE last = None
    BY <1>1, <1>2, <1>3 DEF LastN
  <1>4. CASE last # None /\ last.n \in read
    <2>1. last.n \in Nat /\ LastN = last.n
      BY <1>1, <1>4 DEF Mail, LastN
    <2> QED BY <1>1, <1>2, <1>4, <2>1
  <1>5. CASE last # None /\ last.n \notin read
    BY <1>1, <1>2, <1>5 DEF ReadInv, LastN
  <1> QED BY <1>3, <1>4, <1>5

\* What was read stays read, and what was lost is on its way back.
LEMMA ReadStep ==
  ASSUME MailInv, RepInv, ChainInv, ReadInv, [Next]_vars
  PROVE  ReadInv'
  <1> SUFFICES ASSUME "gaveup" \notin mishap'
               PROVE  ReadInv'
    BY DEF ReadInv
  <1>0. reptog \in BOOLEAN /\ acktog \in BOOLEAN /\ rep \in BOOLEAN
    BY DEF MailInv, TypeOK
  <1>1. CASE Begin \/ BeginFOEwrite \/ EmptySeen \/ EmptyExpired \/
            WriteAnswered \/ WriteLost \/ WriteGivesUp \/ StatusFull
    BY <1>0, <1>1 DEF Begin, BeginFOEwrite, Note, EmptySeen, EmptyExpired, Fail,
       WriteAnswered, Written, WriteLost, WriteGivesUp, StatusFull, call,
       master, slave, history, RepInv, ReadInv, LastN
  <1>2. CASE StatusExpired
    <2>1. "gaveup" \notin mishap /\ pc' \in {"idle", "empty"}
      BY <1>0, <1>2, FailingGoes DEF StatusExpired
    <2>2. pc = "status" /\ UNCHANGED <<rep, reptog, acktog, last, read, sm1>>
      BY <1>0, <1>2 DEF StatusExpired, slave
    <2> QED BY <1>0, <2>1, <2>2 DEF ReadInv, LastN
  <1>3. CASE ReadAnswered
    <2>1. "gaveup" \notin mishap /\ reptog = acktog
      BY <1>0, <1>3, ReadGoes DEF ReadInv
    <2>2. 1 .. sm1.n - 1 \subseteq read /\ sm1.n \in Nat
      BY <1>0, <1>3, <2>1, ReadGoes, FollowsRead
    <2>3. /\ pc' \in {"idle", "empty", "read"} /\ LastN' = sm1.n
          /\ read' = read \cup {sm1.n} /\ last' = sm1 /\ UNCHANGED <<reptog, acktog>>
      BY <1>0, <1>3, ReadGoes DEF LastN
    <2> QED BY <2>1, <2>2, <2>3 DEF ReadInv
  <1>4. CASE ReadLost
    <2>1. /\ "gaveup" \notin mishap /\ pc = "read" /\ sm1 # None /\ pc' = "toggle"
          /\ last' = sm1 /\ UNCHANGED <<read, reptog, acktog, mishap>>
      BY <1>0, <1>4 DEF ReadLost, Unload, history
    <2>2. 1 .. sm1.n - 1 \subseteq read /\ LastN' = sm1.n
      BY <2>1, FollowsRead DEF LastN
    <2> QED BY <2>1, <2>2 DEF ReadInv
  <1>5. CASE RepeatExpired
    BY <1>0, <1>5, FailingGoes DEF RepeatExpired
  <1>6. CASE ReadUnsent
    BY <1>0, <1>6 DEF ReadUnsent, Note, call, master, slave, history, RepInv,
       ReadInv, LastN
  <1>7. CASE ReadEmpty
    BY <1>0, <1>7 DEF ReadEmpty, call, master, slave, history, RepInv, ReadInv,
       LastN
  <1>8. CASE Toggle
    BY <1>0, <1>8 DEF Toggle, call, master, slave, history, RepInv, ReadInv, LastN
  <1>9. CASE AckSeen
    BY <1>0, <1>9 DEF AckSeen, call, master, slave, history, RepInv, ReadInv,
       LastN
  <1>10. CASE AvailSeen
    BY <1>0, <1>10 DEF AvailSeen, call, master, slave, history, RepInv, ReadInv,
       LastN
  <1>11. CASE Expire
    BY <1>0, <1>11 DEF Expire, call, master, slave, history, RepInv, ReadInv,
       LastN
  <1>12. CASE SlaveTake
    <2>1. "gaveup" \notin mishap
      BY <1>0, <1>12, Taking
    <2>2. UNCHANGED <<master, sm1, last, reptog, acktog, read>>
      BY <1>0, <1>12 DEF SlaveTake
    <2> QED BY <2>1, <2>2 DEF master, call, ReadInv, LastN
  <1>13. CASE SlaveEmergency
    BY <1>0, <1>13 DEF SlaveEmergency, call, master, slave, history, RepInv,
       ReadInv, LastN
  <1>14. CASE SlaveLoad
    BY <1>0, <1>14 DEF SlaveLoad, call, master, slave, history, RepInv, ReadInv,
       LastN
  <1>15. CASE SlaveRepeat
    BY <1>0, <1>15 DEF SlaveRepeat, call, master, slave, history, RepInv, ReadInv,
       LastN
  <1>16. CASE UNCHANGED vars
    BY <1>0, <1>16 DEF vars, call, master, slave, history, RepInv, ReadInv, LastN
  <1> QED BY <1>1, <1>2, <1>3, <1>4, <1>5, <1>6, <1>7, <1>8, <1>9, <1>10, <1>11,
             <1>12, <1>13, <1>14, <1>15, <1>16
         DEF Next, Send, Receive, Slave

\* A mail that is accepted is the next one after those that were read.
LEMMA SkippedStep ==
  ASSUME MailInv, ChainInv, ReadInv, NoMailSkipped, [Next]_vars
  PROVE  NoMailSkipped'
  <1> SUFFICES ASSUME accepted' # None, "gaveup" \notin mishap'
               PROVE  1 .. accepted'.n \subseteq read'
    BY DEF NoMailSkipped
  <1>1. CASE Begin \/ BeginFOEwrite
    BY <1>1 DEF Begin, BeginFOEwrite, Note, call, master, slave, history,
       NoMailSkipped
  <1>2. CASE EmptySeen \/ EmptyExpired \/ WriteAnswered \/ WriteLost \/
            WriteGivesUp
    BY <1>2 DEF EmptySeen, EmptyExpired, Fail, Note, WriteAnswered, Written,
       WriteLost, WriteGivesUp, call, master, slave, history, NoMailSkipped
  <1>3. CASE StatusExpired \/ RepeatExpired
    BY <1>3, FailingGoes DEF StatusExpired, RepeatExpired, NoMailSkipped
  <1>4. CASE ReadAnswered
    <2>1. "gaveup" \notin mishap /\ pc = "read" /\ sm1 # None /\ read' = read \cup {sm1.n}
      BY <1>4, ReadGoes
    <2>2. CASE accepted' = accepted
      BY <2>1, <2>2 DEF NoMailSkipped
    <2>3. CASE accepted' = sm1
      <3>1. 1 .. sm1.n - 1 \subseteq read /\ sm1.n \in Nat
        BY <2>1, FollowsRead
      <3> QED BY <2>1, <2>3, <3>1
    <2> QED BY <1>4, <2>2, <2>3, ReadGoes
  <1>5. CASE StatusFull \/ ReadLost \/ ReadUnsent \/ ReadEmpty \/ Toggle \/
            AckSeen \/ AvailSeen \/ Expire
    BY <1>5 DEF StatusFull, ReadLost, Unload, ReadUnsent, Note, ReadEmpty,
       Toggle, AckSeen, AvailSeen, Expire, call, master, slave, history,
       NoMailSkipped
  <1>6. CASE SlaveEmergency \/ SlaveLoad \/ SlaveRepeat \/ UNCHANGED vars
    BY <1>6 DEF SlaveEmergency, SlaveLoad, SlaveRepeat, vars, call, master,
       slave, history, NoMailSkipped
  <1>7. CASE SlaveTake
    <2>1. "gaveup" \notin mishap
      BY <1>7, Taking
    <2>2. UNCHANGED <<accepted, read>>
      BY <1>7 DEF SlaveTake
    <2> QED BY <2>1, <2>2 DEF NoMailSkipped
  <1> QED BY <1>1, <1>2, <1>3, <1>4, <1>5, <1>6, <1>7
         DEF Next, Send, Receive, Slave

-------------------------------------------------------------------------------
(* An answer is the one to the request: while every request is answered, there *)
(* is one answer at a time.                                                    *)

IsAnswer(m) == m # None /\ m.req # 0
Executed == ~drain /\ pc \notin {"idle", "empty"} /\ runs[req] = 1
Pending == reptog # acktog
Clean == mishap \cap {"failed", "unread"} = {}

\* Every request before the running one was executed.
DoneInv == \A r \in 1 .. req : r < req \/ pc = "idle" => runs[r] = 1

\* An answer that waits for the mailbox is that of the running request, and there
\* is no other.
OutInv ==
    \A i \in 1 .. Len(out) : out[i].req # 0 =>
        /\ out[i].req = req /\ Executed /\ ~IsAnswer(sm1)
        /\ \A j \in 1 .. Len(out) : j # i => out[j].req = 0

\* So is one in the mailbox, and the slave repeats the mail before it only when
\* that is what the master asks for.
BoxInv ==
    IsAnswer(sm1) => /\ sm1.req = req /\ Executed
                     /\ Pending => pc = "ack" /\ rep = reptog

\* So is one that was read, as long as it may be repeated.
LastInv ==
    /\ pc = "read" /\ sm1 = None => ~IsAnswer(last)
    /\ IsAnswer(last) /\ (pc = "toggle" \/ Pending) =>
         /\ last.req = req /\ Executed /\ ~IsAnswer(sm1)
         /\ \A i \in 1 .. Len(out) : out[i].req = 0
         /\ Pending => pc = "ack" /\ rep = reptog

CleanInv ==
    Clean => /\ DoneInv /\ OutInv /\ BoxInv /\ LastInv
             /\ accepted # None => accepted.req = req

\* What went wrong stays known.
LEMMA CleanBefore ==
  ASSUME TypeInv, [Next]_vars, Clean'
  PROVE  Clean
  <1>1. CASE Begin \/ BeginFOEwrite \/ EmptySeen \/ EmptyExpired
    BY <1>1 DEF Begin, BeginFOEwrite, Note, EmptySeen, EmptyExpired, Fail,
       call, master, slave, history, Clean
  <1>2. CASE WriteAnswered
    BY <1>2 DEF WriteAnswered, Written, Fail, Note, call, master, slave,
       history, Clean
  <1>3. CASE WriteLost \/ WriteGivesUp
    BY <1>3 DEF WriteLost, Written, WriteGivesUp, Fail, Note, call, master,
       slave, history, Clean
  <1>4. CASE StatusExpired \/ RepeatExpired
    BY <1>4, FailingGoes DEF StatusExpired, RepeatExpired, Clean
  <1>5. CASE ReadAnswered
    BY <1>5, ReadGoes DEF Clean
  <1>6. CASE StatusFull \/ ReadLost \/ ReadUnsent \/ ReadEmpty \/ Toggle \/
            AckSeen \/ AvailSeen \/ Expire
    BY <1>6 DEF StatusFull, ReadLost, Unload, ReadUnsent, Note, ReadEmpty,
       Toggle, AckSeen, AvailSeen, Expire, call, master, slave, history,
       Clean
  <1>7. CASE SlaveEmergency \/ SlaveLoad \/ SlaveRepeat \/ UNCHANGED vars
    BY <1>7 DEF SlaveEmergency, SlaveLoad, SlaveRepeat, vars, call, master,
       slave, history, Clean
  <1>8. CASE SlaveTake
    BY <1>8, Taking DEF Clean
  <1> QED BY <1>1, <1>2, <1>3, <1>4, <1>5, <1>6, <1>7, <1>8
         DEF Next, Send, Receive, Slave

\* A mail is in one place only after a step of the mailboxes.
LEMMA OutMoves ==
  ASSUME MailInv, Clean, CleanInv, SlaveLoad \/ SlaveRepeat
  PROVE  OutInv' /\ BoxInv' /\ LastInv'
  <1> USE NoMailAssumption
  <1>0. /\ sm1 \in Mail \cup {None} /\ last \in Mail \cup {None} /\ out \in Seq(Mail)
        /\ reptog \in BOOLEAN /\ acktog \in BOOLEAN
    BY DEF MailInv, TypeOK
  <1>1. OutInv /\ BoxInv /\ LastInv
    BY DEF CleanInv
  <1>2. Executed' = Executed /\ UNCHANGED <<req, pc, rep, last, reptog>>
    BY DEF SlaveLoad, SlaveRepeat, Executed, master, call, history
  <1>3. CASE SlaveLoad
    <2>1. /\ sm1 = None /\ out # <<>> /\ sm1' = out[1] /\ out' = Tail(out)
          /\ ~Pending /\ ~Pending'
      BY <1>3 DEF SlaveLoad, Pending
    <2>2. /\ 1 \in 1 .. Len(out) /\ out[1] \in Mail /\ Len(out) \in Nat
          /\ \A i \in 1 .. Len(out') : out'[i] = out[i + 1] /\ i + 1 \in 1 .. Len(out)
      BY <1>0, <2>1
    <2>3. sm1' # None
      BY <2>1, <2>2
    <2>4. OutInv'
      <3>1. SUFFICES ASSUME NEW i \in 1 .. Len(out'), out'[i].req # 0
                     PROVE  /\ out'[i].req = req /\ Executed /\ ~IsAnswer(sm1')
                            /\ \A j \in 1 .. Len(out') : j # i => out'[j].req = 0
        BY <1>2 DEF OutInv, IsAnswer
      <3>2. out'[i] = out[i + 1] /\ i + 1 \in 1 .. Len(out) /\ i + 1 # 1
        BY <2>2
      <3>3. /\ out[i + 1].req = req /\ Executed
            /\ \A j \in 1 .. Len(out) : j # i + 1 => out[j].req = 0
        BY <1>1, <3>1, <3>2 DEF OutInv
      <3>4. out[1].req = 0
        BY <2>2, <3>2, <3>3
      <3>5. ASSUME NEW j \in 1 .. Len(out'), j # i
            PROVE  out'[j].req = 0
        <4>1. out'[j] = out[j + 1] /\ j + 1 \in 1 .. Len(out) /\ j + 1 # i + 1
          BY <2>2, <3>5
        <4> QED BY <3>3, <4>1
      <3> QED BY <2>1, <3>2, <3>3, <3>4, <3>5 DEF IsAnswer
    <2>5. BoxInv'
      BY <1>1, <1>2, <2>1, <2>2 DEF OutInv, BoxInv, IsAnswer
    <2>6. LastInv'
      <3>1. ASSUME IsAnswer(last), pc = "toggle"
            PROVE  /\ last.req = req /\ Executed /\ ~IsAnswer(sm1')
                   /\ \A i \in 1 .. Len(out') : out'[i].req = 0
        <4>1. /\ last.req = req /\ Executed
              /\ \A i \in 1 .. Len(out) : out[i].req = 0
          BY <1>1, <3>1 DEF LastInv
        <4> QED BY <2>1, <2>2, <4>1 DEF IsAnswer
      <3> QED BY <1>2, <2>1, <2>3, <3>1 DEF LastInv, IsAnswer
    <2> QED BY <2>4, <2>5, <2>6
  <1>4. CASE SlaveRepeat
    <2>1. Pending /\ ~Pending'
      BY <1>4 DEF SlaveRepeat, Pending
    <2>2. CASE last = None
      <3>1. UNCHANGED <<sm1, out>>
        BY <1>4, <2>2 DEF SlaveRepeat
      <3>2. OutInv'
        BY <1>1, <1>2, <3>1 DEF OutInv, IsAnswer
      <3>3. BoxInv'
        BY <1>1, <1>2, <2>1, <3>1 DEF BoxInv, IsAnswer
      <3> QED BY <1>2, <2>2, <3>2, <3>3 DEF LastInv, IsAnswer
    <2>3. CASE last # None
      <3>1. sm1' = last /\ out' = IF sm1 = None THEN out ELSE <<sm1>> \o out
        BY <1>4, <2>3 DEF SlaveRepeat
      <3>2. CASE IsAnswer(last)
        <4>1. /\ last.req = req /\ Executed /\ ~IsAnswer(sm1) /\ pc = "ack"
              /\ \A i \in 1 .. Len(out) : out[i].req = 0
          BY <1>1, <2>1, <3>2 DEF LastInv
        <4>2. \A i \in 1 .. Len(out') : out'[i].req = 0
          <5>1. CASE sm1 = None
            BY <3>1, <4>1, <5>1
          <5>2. CASE sm1 # None
            <6>1. <<sm1>> \in Seq(Mail) /\ sm1.req = 0 /\ out' = <<sm1>> \o out
              BY <1>0, <3>1, <4>1, <5>2 DEF IsAnswer
            <6>2. /\ Len(out') = Len(out) + 1 /\ out'[1] = sm1 /\ Len(out) \in Nat
                  /\ \A i \in 1 .. Len(out) : out'[i + 1] = out[i]
              BY <1>0, <6>1
            <6>3. ASSUME NEW i \in 1 .. Len(out'), i # 1
                  PROVE  out'[i].req = 0
              <7>1. i - 1 \in 1 .. Len(out) /\ (i - 1) + 1 = i
                BY <6>2, <6>3
              <7>2. out'[i] = out[i - 1]
                BY <6>2, <7>1
              <7> QED BY <4>1, <7>1, <7>2
            <6> QED BY <6>1, <6>2, <6>3
          <5> QED BY <5>1, <5>2
        <4>3. OutInv'
          BY <4>2 DEF OutInv
        <4>4. BoxInv'
          BY <1>2, <2>1, <3>1, <4>1 DEF BoxInv
        <4> QED BY <1>2, <2>1, <4>1, <4>3, <4>4 DEF LastInv
      <3>3. CASE ~IsAnswer(last)
        <4>1. BoxInv' /\ LastInv' /\ ~IsAnswer(sm1')
          BY <1>2, <3>1, <3>3 DEF BoxInv, LastInv, IsAnswer
        <4>2. OutInv'
          <5>1. CASE sm1 = None
            BY <1>1, <1>2, <3>1, <4>1, <5>1 DEF OutInv, IsAnswer
          <5>2. CASE sm1 # None
            <6>1. <<sm1>> \in Seq(Mail) /\ out' = <<sm1>> \o out
              BY <1>0, <3>1, <5>2
            <6>2. /\ Len(out') = Len(out) + 1 /\ out'[1] = sm1 /\ Len(out) \in Nat
                  /\ \A i \in 1 .. Len(out) : out'[i + 1] = out[i]
              BY <1>0, <6>1
            <6>3. \A i \in 1 .. Len(out') : i # 1 =>
                     i - 1 \in 1 .. Len(out) /\ out'[i] = out[i - 1]
              <7>1. ASSUME NEW i \in 1 .. Len(out'), i # 1
                    PROVE  i - 1 \in 1 .. Len(out) /\ out'[i] = out[i - 1]
                <8>1. i - 1 \in 1 .. Len(out) /\ (i - 1) + 1 = i
                  BY <6>2, <7>1
                <8> QED BY <6>2, <8>1
              <7> QED BY <7>1
            <6>4. SUFFICES ASSUME NEW i \in 1 .. Len(out'), out'[i].req # 0
                           PROVE  /\ out'[i].req = req /\ Executed
                                  /\ \A j \in 1 .. Len(out') : j # i => out'[j].req = 0
              BY <1>2, <4>1 DEF OutInv, IsAnswer
            <6>5. CASE i = 1
              <7>1. IsAnswer(sm1) /\ out'[i] = sm1
                BY <5>2, <6>2, <6>4, <6>5 DEF IsAnswer
              <7>2. \A j \in 1 .. Len(out) : out[j].req = 0
                BY <1>1, <7>1 DEF OutInv
              <7> QED BY <1>1, <6>3, <6>5, <7>1, <7>2 DEF BoxInv
            <6>6. CASE i # 1
              <7>1. /\ out[i - 1].req = req /\ Executed /\ ~IsAnswer(sm1)
                    /\ \A j \in 1 .. Len(out) : j # i - 1 => out[j].req = 0
                BY <1>1, <6>3, <6>4, <6>6 DEF OutInv
              <7>2. ASSUME NEW j \in 1 .. Len(out'), j # i
                    PROVE  out'[j].req = 0
                <8>1. CASE j = 1
                  BY <5>2, <6>2, <7>1, <8>1 DEF IsAnswer
                <8>2. CASE j # 1
                  <9>1. out'[j] = out[j - 1] /\ j - 1 \in 1 .. Len(out) /\ j - 1 # i - 1
                    BY <6>3, <7>2, <8>2
                  <9> QED BY <7>1, <9>1
                <8> QED BY <8>1, <8>2
              <7> QED BY <6>3, <6>6, <7>1, <7>2
            <6> QED BY <6>5, <6>6
          <5> QED BY <5>1, <5>2
        <4> QED BY <4>1, <4>2
      <3> QED BY <3>2, <3>3
    <2> QED BY <2>2, <2>3
  <1> QED BY <1>3, <1>4

\* A drained mailbox holds no answer: the request was not sent yet.
LEMMA DrainGoes ==
  ASSUME MailInv, TypeInv, OnceInv, Clean, CleanInv, Clean',
         NEW m, ReceiveFails(m),
         UNCHANGED <<rep, req, sm1, out, last, reptog, acktog, runs, accepted>>
  PROVE  CleanInv'
  <1>1. drain /\ pc' = "empty"
    BY FailingGoes DEF Clean
  <1>2. ~Executed
    BY <1>1 DEF Executed
  <1>3. /\ ~IsAnswer(sm1) /\ \A i \in 1 .. Len(out) : out[i].req = 0
        /\ ~(IsAnswer(last) /\ Pending)
    BY <1>2 DEF CleanInv, BoxInv, OutInv, LastInv
  <1>4. DoneInv'
    <2>1. pc # "idle"
      BY <1>1 DEF ReceiveFails, TypeInv, OnceInv, CleanInv, DoneInv, MailInv, TypeOK
    <2> QED BY <1>1 DEF CleanInv, DoneInv
  <1> QED BY <1>1, <1>3, <1>4 DEF CleanInv, OutInv, BoxInv, LastInv, IsAnswer, Pending

\* The slave executes the running request only, and nothing else is an answer then.
LEMMA TakeGoes ==
  ASSUME MailInv, TypeInv, OnceInv, Clean, CleanInv, SlaveTake
  PROVE  CleanInv'
  <1>0. out \in Seq(Mail)
    BY DEF MailInv, TypeOK
  <1>1. UNCHANGED <<pc, drain, rep, req, sm1, last, reptog, acktog, accepted>> /\ sm0 # None
    BY DEF SlaveTake, master, call
  <1>2. CASE UNCHANGED <<out, runs>>
    <2>1. Executed' = Executed
      BY <1>1, <1>2 DEF Executed
    <2> QED BY <1>1, <1>2, <2>1 DEF CleanInv, DoneInv, OutInv, BoxInv, LastInv, IsAnswer, Pending
  <1>3. ASSUME sm0.cnt = 0 \/ sm0.cnt # lastcnt
        PROVE  CleanInv'
    <2>1. sm0.req \in 1 .. MaxReq /\ sm0.req <= req /\ req \in 0 .. MaxReq /\ runs[sm0.req] # 1
      BY <1>1, <1>3 DEF TypeInv, OnceInv
    <2>2. sm0.req = req /\ pc # "idle"
      BY <2>1 DEF CleanInv, DoneInv
    <2>3. ~drain /\ pc # "empty" /\ req >= 1 /\ runs[req] = 0
      BY <1>1, <2>1, <2>2 DEF TypeInv, OnceInv
    <2>4. ~Executed
      BY <2>1, <2>2 DEF Executed
    <2>5. /\ ~IsAnswer(sm1) /\ \A i \in 1 .. Len(out) : out[i].req = 0
          /\ ~(IsAnswer(last) /\ (pc = "toggle" \/ Pending))
      BY <2>4 DEF CleanInv, BoxInv, OutInv, LastInv
    <2> DEFINE m == [n |-> mails + 1, req |-> sm0.req, topic |-> sm0.topic]
    <2>6. out' = Append(out, m) /\ runs' = [runs EXCEPT ![sm0.req] = @ + 1]
      BY <1>3 DEF SlaveTake
    <2>7. /\ runs'[req] = 1 /\ \A r \in 1 .. req : r # req => runs'[r] = runs[r]
      BY <2>1, <2>2, <2>3, <2>6 DEF TypeInv
    <2>8. /\ Len(out') = Len(out) + 1 /\ out'[Len(out) + 1].req = req /\ Len(out) \in Nat
          /\ \A i \in 1 .. Len(out) : out'[i] = out[i]
      BY <1>0, <2>2, <2>6
    <2>9. Executed' /\ DoneInv'
      BY <1>1, <2>2, <2>3, <2>7 DEF Executed, DoneInv, CleanInv
    <2>10. OutInv'
      BY <1>1, <2>5, <2>8, <2>9 DEF OutInv, IsAnswer
    <2>11. BoxInv' /\ LastInv'
      BY <1>1, <2>5 DEF BoxInv, LastInv, IsAnswer, Pending, CleanInv
    <2> QED BY <1>1, <2>9, <2>10, <2>11 DEF CleanInv
  <1> QED BY <1>2, <1>3 DEF SlaveTake

\* The answer leaves the mailbox, and there is none behind it.
LEMMA UnloadGoes ==
  ASSUME MailInv, TypeInv, OnceInv, Clean, CleanInv, Clean', ReadAnswered \/ ReadLost
  PROVE  CleanInv'
  <1>1. /\ pc = "read" /\ sm1 # None /\ sm1' = None /\ last' = sm1
        /\ UNCHANGED <<rep, req, out, reptog, acktog, runs>>
    <2>1. CASE ReadLost
      BY <2>1 DEF ReadLost, Unload, call, history
    <2>2. CASE ReadAnswered
      BY <2>2, ReadGoes
    <2> QED BY <2>1, <2>2
  <1>2. DoneInv /\ OutInv /\ BoxInv
    BY DEF CleanInv
  <1>3. /\ pc' \in {"idle", "empty", "read", "toggle"}
        /\ pc' = "toggle" => drain' = drain
        /\ pc' = "read" => ~IsAnswer(sm1) /\ drain' = drain
        /\ pc' = "empty" => drain
        /\ pc' = "idle" => accepted' = sm1 /\ ~Handled(sm1)
        /\ accepted' # accepted => accepted' = sm1 /\ ~Handled(sm1)
    <2>1. CASE ReadLost
      BY <2>1 DEF ReadLost, call, history
    <2>2. CASE ReadAnswered
      <3>1. CASE ReceiveFails({}) /\ UNCHANGED accepted
        <4>1. drain /\ pc' = "empty"
          BY <3>1, FailingGoes DEF Clean
        <4> QED BY <3>1, <4>1
      <3>2. CASE ReceiveReturns(sm1) /\ ~drain /\ ~Handled(sm1)
        <4>1. sm1.topic = topic
          BY <3>2 DEF ReceiveReturns, Fail, Note, Clean
        <4> QED BY <3>2, <4>1 DEF ReceiveReturns
      <3>3. CASE UNCHANGED <<pc, drain, accepted, mishap>> /\ Handled(sm1)
        <4>1. ~IsAnswer(sm1) /\ pc' = "read"
          BY <1>1, <3>3 DEF Handled, IsAnswer
        <4> QED BY <3>3, <4>1
      <3> QED BY <2>2, <3>1, <3>2, <3>3 DEF ReadAnswered, ReceiveReturns
    <2> QED BY <2>1, <2>2
  <1>4. CASE IsAnswer(sm1)
    <2>1. /\ sm1.req = req /\ Executed /\ ~Pending
          /\ \A i \in 1 .. Len(out) : out[i].req = 0
      BY <1>1, <1>2, <1>4 DEF BoxInv, OutInv
    <2>2. pc' \in {"idle", "toggle"}
      BY <1>3, <1>4, <2>1 DEF Executed
    <2>3. DoneInv'
      <3>1. req \in Nat /\ runs[req] = 1 /\ \A r \in 1 .. req : r < req => runs[r] = 1
        BY <1>2, <2>1 DEF DoneInv, Executed, TypeInv
      <3>2. \A r \in 1 .. req : runs[r] = 1
        BY <3>1
      <3> QED BY <1>1, <3>2 DEF DoneInv
    <2>4. OutInv' /\ BoxInv'
      BY <1>1, <2>1 DEF OutInv, BoxInv, IsAnswer
    <2>5. LastInv'
      BY <1>1, <1>3, <2>1, <2>2 DEF LastInv, IsAnswer, Executed, Pending
    <2>6. accepted' # None => accepted'.req = req
      BY <1>3, <2>1 DEF CleanInv
    <2> QED BY <1>1, <2>3, <2>4, <2>5, <2>6 DEF CleanInv
  <1>5. CASE ~IsAnswer(sm1)
    <2>1. pc' # "idle" /\ accepted' = accepted
      BY <1>1, <1>3, <1>5 DEF IsAnswer, Handled
    <2>2. DoneInv'
      BY <1>1, <1>2, <2>1 DEF DoneInv
    <2>3. Executed => Executed'
      BY <1>1, <1>3, <2>1 DEF Executed
    <2>4. OutInv' /\ BoxInv' /\ LastInv'
      BY <1>1, <1>2, <1>5, <2>3 DEF OutInv, BoxInv, LastInv, IsAnswer
    <2> QED BY <1>1, <2>1, <2>2, <2>4 DEF CleanInv
  <1> QED BY <1>4, <1>5

\* Every answer on its way is that of the running request, after every step.
LEMMA CleanStep ==
  ASSUME MailInv, TypeInv, OnceInv, RepInv, CleanInv, [Next]_vars
  PROVE  CleanInv'
  <1> SUFFICES ASSUME Clean'
               PROVE  CleanInv'
    BY DEF CleanInv
  <1> USE DEF DoneInv, OutInv, BoxInv, LastInv, IsAnswer, Executed, Pending
  <1>0. /\ Clean /\ req \in Nat
        /\ reptog \in BOOLEAN /\ acktog \in BOOLEAN /\ rep \in BOOLEAN
    BY CleanBefore DEF MailInv, TypeOK
  <1>1. CASE Begin \/ BeginFOEwrite
    <2>1. /\ pc = "idle" /\ req' = req + 1 /\ pc' = "status" /\ accepted' = None
          /\ UNCHANGED <<sm1, out, last, reptog, acktog, runs>>
      BY <1>1 DEF Begin, BeginFOEwrite, slave
    <2>2. ~Executed
      BY <2>1
    <2>3. DoneInv'
      BY <1>0, <2>1 DEF CleanInv
    <2> QED BY <1>0, <2>1, <2>2, <2>3 DEF CleanInv
  <1>2. CASE EmptySeen \/ WriteLost
    BY <1>0, <1>2 DEF EmptySeen, WriteLost, Written, call, master, slave, history,
       CleanInv
  <1>3. CASE WriteAnswered
    <2>1. /\ pc = "write" /\ UNCHANGED <<drain, rep, req, sm1, out, last, reptog, acktog,
                                         runs, accepted>>
          /\ pc' = IF sm0 = None THEN "status" ELSE "idle"
          /\ sm0 # None => "failed" \in mishap'
      <3>1. CASE sm0 = None
        BY <1>3, <3>1 DEF WriteAnswered
      <3>2. CASE sm0 # None
        BY <1>3, <3>2 DEF WriteAnswered, Fail, Note
      <3> QED BY <3>1, <3>2
    <2>2. pc' = "status"
      BY <2>1 DEF Clean
    <2> QED BY <1>0, <2>1, <2>2 DEF CleanInv
  <1>4. CASE EmptyExpired \/ WriteGivesUp \/ ReadUnsent
    <2>1. FALSE
      BY <1>4 DEF EmptyExpired, WriteGivesUp, ReadUnsent, Fail, Note, Clean
    <2> QED BY <2>1
  <1>5. CASE StatusExpired \/ RepeatExpired
    <2>1. UNCHANGED <<rep, req, sm1, out, last, reptog, acktog, runs, accepted>>
      BY <1>5 DEF StatusExpired, RepeatExpired, slave
    <2> QED BY <1>5, <1>0, <2>1, DrainGoes DEF StatusExpired, RepeatExpired
  <1>6. CASE ReadAnswered \/ ReadLost
    BY <1>0, <1>6, UnloadGoes
  <1>7. CASE StatusFull
    BY <1>0, <1>7 DEF StatusFull, call, master, slave, history, CleanInv
  <1>8. CASE ReadEmpty
    BY <1>0, <1>8 DEF ReadEmpty, call, master, slave, history, CleanInv
  <1>9. CASE AckSeen
    BY <1>0, <1>9 DEF AckSeen, call, master, slave, history, CleanInv
  <1>10. CASE AvailSeen
    BY <1>0, <1>10 DEF AvailSeen, call, master, slave, history, CleanInv
  <1>11. CASE Expire \/ UNCHANGED vars
    BY <1>0, <1>11 DEF Expire, vars, call, master, slave, history, CleanInv
  <1>12. CASE Toggle
    <2>1. /\ pc = "toggle" /\ pc' = "ack" /\ rep' = ~rep /\ (reptog' = ~rep \/ reptog' = reptog)
          /\ UNCHANGED <<drain, req, sm1, out, last, acktog, runs, accepted>>
      BY <1>12 DEF Toggle, history
    <2>2. rep = reptog
      BY <2>1 DEF RepInv
    <2>3. Executed' = Executed /\ DoneInv' /\ OutInv'
      BY <1>0, <2>1 DEF CleanInv
    <2>4. ASSUME ~Pending, Pending'
          PROVE  rep' = reptog'
      BY <1>0, <2>1, <2>2, <2>4, Zenon
    <2>5. BoxInv'
      BY <1>0, <2>1, <2>3, <2>4 DEF CleanInv
    <2>6. LastInv'
      BY <1>0, <2>1, <2>3, <2>4 DEF CleanInv
    <2> QED BY <1>0, <2>1, <2>3, <2>5, <2>6 DEF CleanInv
  <1>13. CASE SlaveEmergency
    <2> DEFINE m == [n |-> mails + 1, req |-> 0, topic |-> None]
    <2>1. /\ out' = Append(out, m) /\ out \in Seq(Mail)
          /\ UNCHANGED <<pc, drain, rep, req, sm1, last, reptog, acktog, runs, accepted>>
      BY <1>13 DEF SlaveEmergency, master, call, history, MailInv, TypeOK
    <2>2. /\ Len(out') = Len(out) + 1 /\ out'[Len(out) + 1].req = 0 /\ Len(out) \in Nat
          /\ \A i \in 1 .. Len(out) : out'[i] = out[i]
      BY <2>1
    <2> QED BY <1>0, <2>1, <2>2 DEF CleanInv
  <1>14. CASE SlaveLoad \/ SlaveRepeat
    <2>1. UNCHANGED <<pc, req, runs, accepted>>
      BY <1>14 DEF SlaveLoad, SlaveRepeat, master, call, history
    <2> QED BY <1>14, <1>0, <2>1, OutMoves DEF CleanInv
  <1>15. CASE SlaveTake
    BY <1>0, <1>15, TakeGoes
  <1> QED BY <1>1, <1>2, <1>3, <1>4, <1>5, <1>6, <1>7, <1>8, <1>9, <1>10, <1>11,
             <1>12, <1>13, <1>14, <1>15
         DEF Next, Send, Receive, Slave

\* The answer to a request is a mail of the slave that answers one.
AcceptedInv == accepted # None => accepted.req # 0

LEMMA AcceptedStep ==
  ASSUME AcceptedInv, [Next]_vars
  PROVE  AcceptedInv'
  <1>1. CASE Begin \/ BeginFOEwrite
    BY <1>1 DEF Begin, BeginFOEwrite, Note, call, master, slave, history,
       AcceptedInv
  <1>2. CASE EmptySeen \/ EmptyExpired \/ WriteAnswered \/ WriteLost \/
            WriteGivesUp
    BY <1>2 DEF EmptySeen, EmptyExpired, Fail, Note, WriteAnswered, Written,
       WriteLost, WriteGivesUp, call, master, slave, history, AcceptedInv
  <1>3. CASE StatusExpired \/ RepeatExpired
    BY <1>3 DEF StatusExpired, RepeatExpired, AcceptedInv
  <1>4. CASE ReadAnswered
    BY <1>4, ReadGoes DEF AcceptedInv, Handled
  <1>5. CASE StatusFull \/ ReadLost \/ ReadUnsent \/ ReadEmpty \/ Toggle \/
            AckSeen \/ AvailSeen \/ Expire
    BY <1>5 DEF StatusFull, ReadLost, Unload, ReadUnsent, Note, ReadEmpty,
       Toggle, AckSeen, AvailSeen, Expire, call, master, slave, history,
       AcceptedInv
  <1>6. CASE SlaveTake \/ SlaveEmergency \/ SlaveLoad \/ SlaveRepeat \/
            UNCHANGED vars
    BY <1>6 DEF SlaveTake, SlaveEmergency, SlaveLoad, SlaveRepeat, vars,
       call, master, slave, history, AcceptedInv
  <1> QED BY <1>1, <1>2, <1>3, <1>4, <1>5, <1>6
         DEF Next, Send, Receive, Slave

MailboxInv ==
    /\ TypeInv /\ OnceInv /\ MailInv
    /\ RepInv /\ ChainInv /\ ReadInv /\ NoMailSkipped
    /\ CleanInv /\ AcceptedInv

LEMMA InitMailbox == Init => MailboxInv
  <1> SUFFICES ASSUME Init PROVE MailboxInv
    OBVIOUS
  <1> USE DEF Init
  <1>1. TypeInv /\ OnceInv
    BY InitIInv DEF IInv
  <1>2. MailInv
    <2>1. Done = {}
      BY DEF Done
    <2>2. Cardinality(Done) = 0
      BY <2>1, FS_EmptySet
    <2>3. TypeOK
      <3>1. out \in Seq(Mail) /\ runs \in [1 .. MaxReq -> Nat]
        OBVIOUS
      <3>2. read \subseteq Nat /\ mishap \subseteq Mishaps
        OBVIOUS
      <3>3. /\ drain \in BOOLEAN /\ expired \in BOOLEAN /\ rep \in BOOLEAN
            /\ reptog \in BOOLEAN /\ acktog \in BOOLEAN
        BY Zenon
      <3>4. /\ cnt \in 0 .. MaxCnt /\ req \in 0 .. MaxReq /\ sends \in 0 .. MaxSend
            /\ repeats \in 0 .. MaxRepeat /\ lastcnt \in 0 .. MaxCnt
            /\ mails \in Nat /\ emcys \in 0 .. MaxEmcy
        BY DEF MaxCnt, MaxSend
      <3> QED BY <3>1, <3>2, <3>3, <3>4 DEF TypeOK
    <2> QED BY <2>2, <2>3 DEF MailInv
  <1>3. RepInv /\ NoMailSkipped
    BY DEF RepInv, NoMailSkipped
  <1>5. ChainInv
    BY DEF ChainInv, LastN, Front
  <1>6. ReadInv
    <2>1. LastN = 0 /\ 1 .. 0 - 1 = {}
      BY DEF LastN
    <2> QED BY <2>1 DEF ReadInv
  <1>4. CleanInv /\ AcceptedInv
    BY DEF CleanInv, AcceptedInv, DoneInv, OutInv, BoxInv, LastInv, IsAnswer, Pending
  <1> QED BY <1>1, <1>2, <1>3, <1>4, <1>5, <1>6 DEF MailboxInv

LEMMA NextMailbox == MailboxInv /\ [Next]_vars => MailboxInv'
  BY TypeStep, OnceStep, MailStep, RepStep, ChainStep, ReadStep, SkippedStep,
     CleanStep, AcceptedStep DEF MailboxInv

\* However the frames of requests and answers are lost, and whatever mails the
\* slave sends by itself, a request that has its answer has missed no mail that
\* was sent before it, unless a timer cut a repeat short.
THEOREM MailsAreRead == Spec => []NoMailSkipped
  <1>1. MailboxInv => NoMailSkipped
    BY DEF MailboxInv
  <1>2. Spec => []MailboxInv
    BY InitMailbox, NextMailbox, PTL DEF Spec
  <1> QED BY <1>1, <1>2, PTL

\* Though nothing but the index is compared, the answer that a request gets is
\* its own while no request has failed and no repeat was asked for too much.
THEOREM AnswersAreOwn == Spec => []AnswerIsOwn
  <1>1. MailboxInv => AnswerIsOwn
    BY DEF MailboxInv, MailInv, CleanInv, Clean, AcceptedInv, AnswerIsOwn
  <1>2. Spec => []MailboxInv
    BY InitMailbox, NextMailbox, PTL DEF Spec
  <1> QED BY <1>1, <1>2, PTL
===============================================================================
