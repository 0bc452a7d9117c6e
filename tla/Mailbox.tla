-------------------------------- MODULE Mailbox --------------------------------
(* The mailbox link layer between the master and one slave, and the request    *)
(* and response that CoE, FoE, SoE and EoE run over it: drain the slave's out  *)
(* mailbox with timeout 0, take the next mailbox count, ecx_mbxsend the        *)
(* request, ecx_mbxreceive the response.                                       *)
(*                                                                             *)
(* Every datagram may be lost on its way to the slave or on its way back.  An  *)
(* FPRD is transmitted once (EC_TIMEOUTRET), the FPWR of ecx_mbxsend up to     *)
(* three times (EC_TIMEOUTRET3).  A status read that is lost changes nothing,  *)
(* so that it has no action: the loop goes round once more.                    *)
EXTENDS Integers, Sequences, FiniteSets

CONSTANTS Topics,     \* what a request is about: the object index
          None,       \* no mail
          MaxReq,     \* bound: requests
          MaxEmcy,    \* bound: unsolicited mails of the slave
          MaxRepeat   \* bound: repeat requests

ASSUME NoneAssumption  == None \notin Topics
ASSUME BoundAssumption == MaxReq \in Nat /\ MaxEmcy \in Nat /\ MaxRepeat \in Nat

MaxSend == 3          \* EC_TIMEOUTRET3 is three times EC_TIMEOUTRET
MaxCnt == 7           \* ec_nextmbxcnt wraps above it

VARIABLES
  \* the master
  pc,        \* where it is
  drain,     \* ecx_mbxreceive runs with timeout 0, before the request
  expired,   \* the timer of the running call has expired
  rep,       \* repeat request bit in the SMstat it holds
  cnt,       \* mbx_cnt of the slave
  req,       \* requests made; the running one is number req
  topic,     \* what it is about
  sends,     \* transmissions of its FPWR
  repeats,   \* repeat requests so far
  \* the slave, external
  sm0,       \* its in mailbox: a request or None
  sm1,       \* its out mailbox: a mail or None
  out,       \* mails waiting for the out mailbox
  last,      \* the last mail that was read, for a repeat
  reptog,    \* repeat request bit of SM1, written by the master
  acktog,    \* repeat acknowledge bit of SM1
  lastcnt,   \* count of the last request it took
  mails,     \* mails it has produced
  emcys,     \* unsolicited ones among them
  \* history
  accepted,  \* the mail that answered the running request, or None
  read,      \* numbers of the mails that reached the master
  runs,      \* how often each request was executed
  mishap     \* what went wrong so far

call == <<drain, expired, rep, cnt, req, topic, sends>>
master == <<pc, call, repeats>>
slave == <<sm0, sm1, out, last, reptog, acktog, lastcnt, mails, emcys>>
history == <<accepted, read, runs, mishap>>
vars == <<master, slave, history>>

\* failed: a request was not answered; gaveup: the timer expired in the middle
\* of a repeat; unread: a repeat was requested when the slave's mailbox had not
\* been read; reset: a FoE download set the mailbox count back; ignored: the slave
\* took a new request for a retransmission.
Mishaps == {"failed", "gaveup", "unread", "reset", "ignored"}
Note(m) == mishap' = mishap \cup m

\* A request as the slave gets it, and a mail as the master gets it: an answer
\* to request req, or a mail that ecx_mbxreceive handles itself (a mailbox
\* error, a CoE emergency, an EoE fragment), req = 0.
Request == [req : 1 .. MaxReq, topic : Topics, cnt : 0 .. MaxCnt]
Mail == [n : 1 .. MaxReq + MaxEmcy, req : 0 .. MaxReq, topic : Topics \cup {None}]
Handled(m) == m.req = 0

\* None is no mail: the mailbox is empty.
ASSUME NoMailAssumption == None \notin Mail

Init ==
    /\ pc = "idle" /\ drain = FALSE /\ expired = FALSE /\ rep = FALSE
    /\ cnt \in 0 .. MaxCnt /\ lastcnt = cnt
    /\ req = 0 /\ topic = None /\ sends = 0 /\ repeats = 0
    /\ sm0 = None /\ sm1 = None /\ out = <<>> /\ last = None
    /\ reptog = FALSE /\ acktog = FALSE /\ mails = 0 /\ emcys = 0
    /\ accepted = None /\ read = {} /\ mishap = {}
    /\ runs = [r \in 1 .. MaxReq |-> 0]

-------------------------------------------------------------------------------
(* The request *)

\* Variant: the count wraps around to 0.
nextmbxcnt_Zero(c) == (c + 1) % (MaxCnt + 1)
nextmbxcnt(c) == IF c + 1 > MaxCnt THEN 1 ELSE c + 1

\* Start of ecx_SDOread, ecx_SDOwrite, ...: the out mailbox is drained first.
Begin ==
    /\ pc = "idle" /\ req < MaxReq
    /\ req' = req + 1
    /\ topic' \in Topics
    /\ drain' = TRUE /\ expired' = TRUE
    /\ accepted' = None
    /\ pc' = "status"
    /\ UNCHANGED <<rep, cnt, sends, repeats, slave, read, runs, mishap>>

\* ecx_FOEwrite sets the mailbox count to 0 first.
BeginFOEwrite ==
    /\ pc = "idle" /\ req < MaxReq
    /\ cnt' = 0
    /\ Note({"reset"})
    /\ req' = req + 1
    /\ topic' \in Topics
    /\ drain' = TRUE /\ expired' = TRUE
    /\ accepted' = None
    /\ pc' = "status"
    /\ UNCHANGED <<rep, sends, repeats, slave, read, runs>>

Fail(m) ==
    /\ pc' = "idle"
    /\ Note({"failed"} \cup m)

\* What follows when ecx_mbxreceive returns without a mail for the caller.
ReceiveFails(m) ==
    IF drain
    THEN /\ pc' = "empty" /\ drain' = FALSE /\ expired' = FALSE
         /\ cnt' = nextmbxcnt(cnt) /\ sends' = 0
         /\ Note(m)
    ELSE Fail(m) /\ UNCHANGED <<drain, expired, cnt, sends>>

\* The slave's index in the answer is the only thing that is compared.
ReceiveReturns(m) ==
    IF drain THEN ReceiveFails({}) /\ UNCHANGED accepted
    ELSE /\ UNCHANGED <<drain, expired, cnt, sends>>
         /\ IF m.topic = topic
            THEN pc' = "idle" /\ accepted' = m /\ UNCHANGED mishap
            ELSE Fail({}) /\ UNCHANGED accepted

-------------------------------------------------------------------------------
(* ecx_mbxempty and ecx_mbxsend *)

EmptySeen ==
    /\ pc = "empty" /\ sm0 = None
    /\ pc' = "write"
    /\ UNCHANGED <<call, repeats, slave, history>>

EmptyExpired ==
    /\ pc = "empty" /\ expired
    /\ Fail({})
    /\ UNCHANGED <<call, repeats, slave, accepted, read, runs>>

\* One transmission of the FPWR reaches the slave; a full mailbox refuses it.
Written == sm0' = IF sm0 = None THEN [req |-> req, topic |-> topic, cnt |-> cnt]
                                ELSE sm0

WriteAnswered ==
    /\ pc = "write" /\ sends < MaxSend
    /\ Written
    /\ IF sm0 = None THEN pc' = "status" /\ UNCHANGED mishap ELSE Fail({})
    /\ sends' = sends + 1
    /\ UNCHANGED <<drain, expired, rep, cnt, req, topic, repeats, sm1, out, last,
                   reptog, acktog, lastcnt, mails, emcys, accepted, read, runs>>

\* The frame is lost, before the slave or after it.
WriteLost ==
    /\ pc = "write" /\ sends < MaxSend
    /\ Written \/ UNCHANGED sm0
    /\ sends' = sends + 1
    /\ UNCHANGED <<pc, drain, expired, rep, cnt, req, topic, repeats, sm1, out, last,
                   reptog, acktog, lastcnt, mails, emcys, history>>

WriteGivesUp ==
    /\ pc = "write" /\ sends = MaxSend
    /\ Fail({})
    /\ UNCHANGED <<call, repeats, slave, accepted, read, runs>>

-------------------------------------------------------------------------------
(* ecx_mbxreceive *)

StatusFull ==
    /\ pc = "status" /\ sm1 # None
    /\ rep' = reptog
    /\ pc' = "read"
    /\ UNCHANGED <<drain, expired, cnt, req, topic, sends, repeats, slave, history>>

StatusExpired ==
    /\ pc = "status" /\ expired
    /\ ReceiveFails({})
    /\ UNCHANGED <<rep, req, topic, repeats, slave, accepted, read, runs>>

\* The slave's out mailbox is read, and is empty then.
Unload == sm1' = None /\ last' = sm1

\* Variant: an emergency is given to the caller.
ReadAnswered_Cascade ==
    /\ pc = "read" /\ sm1 # None
    /\ Unload
    /\ read' = read \cup {sm1.n}
    /\ IF drain THEN ReceiveFails({}) /\ UNCHANGED accepted
       ELSE /\ pc' = "idle" /\ accepted' = sm1
            /\ UNCHANGED <<drain, expired, cnt, sends, mishap>>
    /\ UNCHANGED <<rep, req, topic, repeats, sm0, out, reptog, acktog, lastcnt,
                   mails, emcys, runs>>

\* A mail arrives.  One that is handled here leaves wkc = 0, and the loop reads
\* the mailbox again, unless the timer has expired.
ReadAnswered ==
    /\ pc = "read" /\ sm1 # None
    /\ Unload
    /\ read' = read \cup {sm1.n}
    /\ CASE ~ Handled(sm1) -> ReceiveReturns(sm1)
         [] Handled(sm1) /\ expired -> ReceiveFails({}) /\ UNCHANGED accepted
         [] Handled(sm1) /\ ~expired -> UNCHANGED <<pc, drain, expired, cnt,
                                                    sends, accepted, mishap>>
    /\ UNCHANGED <<rep, req, topic, repeats, sm0, out, reptog, acktog, lastcnt,
                   mails, emcys, runs>>

\* wkc <= 0: the mail got lost on its way, ...
ReadLost ==
    /\ pc = "read" /\ sm1 # None
    /\ Unload
    /\ pc' = "toggle"
    /\ UNCHANGED <<call, repeats, sm0, out, reptog, acktog, lastcnt, mails, emcys,
                   history>>

\* ... or the datagram did not reach the slave, ...
ReadUnsent ==
    /\ pc = "read" /\ sm1 # None
    /\ pc' = "toggle"
    /\ Note({"unread"})
    /\ UNCHANGED <<call, repeats, slave, accepted, read, runs>>

\* ... or a mail was handled here and there is no further one.
ReadEmpty ==
    /\ pc = "read" /\ sm1 = None
    /\ pc' = "toggle"
    /\ UNCHANGED <<call, repeats, slave, history>>

\* Variant: the repeat request bit is written back as it was read.
Toggle_Same ==
    /\ pc = "toggle" /\ repeats < MaxRepeat
    /\ repeats' = repeats + 1
    /\ reptog' \in {rep, reptog}
    /\ pc' = "ack"
    /\ UNCHANGED <<call, sm0, sm1, out, last, acktog, lastcnt, mails, emcys, history>>

\* The repeat request is toggled; the FPWR may be lost.
Toggle ==
    /\ pc = "toggle" /\ repeats < MaxRepeat
    /\ repeats' = repeats + 1
    /\ rep' = ~rep
    /\ reptog' \in {~rep, reptog}
    /\ pc' = "ack"
    /\ UNCHANGED <<drain, expired, cnt, req, topic, sends, sm0, sm1, out, last,
                   acktog, lastcnt, mails, emcys, history>>

AckSeen ==
    /\ pc = "ack" /\ acktog = rep
    /\ pc' = "avail"
    /\ UNCHANGED <<call, repeats, slave, history>>

\* The repeated mail is there: it is read, unless the timer has expired.
AvailSeen ==
    /\ pc = "avail" /\ sm1 # None /\ ~expired
    /\ rep' = reptog
    /\ pc' = "read"
    /\ UNCHANGED <<drain, expired, cnt, req, topic, sends, repeats, slave, history>>

\* Either wait ends with the timer, and then the call.
RepeatExpired ==
    /\ pc \in {"ack", "avail"} /\ expired
    /\ ReceiveFails({"gaveup"})
    /\ UNCHANGED <<rep, req, topic, repeats, slave, accepted, read, runs>>

\* The timers: EC_TIMEOUTTXM of ecx_mbxsend, the timeout of ecx_mbxreceive.
Expire ==
    /\ pc \in {"empty", "status", "read", "toggle", "ack", "avail"} /\ ~expired
    /\ expired' = TRUE
    /\ UNCHANGED <<pc, drain, rep, cnt, req, topic, sends, repeats, slave, history>>

-------------------------------------------------------------------------------
(* The slave, external *)

\* It takes a request.  One that has the count of the one before is a
\* retransmission and is dropped; count 0 is not checked.
SlaveTake ==
    /\ sm0 # None
    /\ sm0' = None
    /\ lastcnt' = sm0.cnt
    /\ IF sm0.cnt # 0 /\ sm0.cnt = lastcnt
       THEN /\ Note(IF runs[sm0.req] = 0 THEN {"ignored"} ELSE {})
            /\ UNCHANGED <<out, mails, runs>>
       ELSE /\ mails' = mails + 1
            /\ out' = Append(out, [n |-> mails + 1, req |-> sm0.req,
                                   topic |-> sm0.topic])
            /\ runs' = [runs EXCEPT ![sm0.req] = @ + 1]
            /\ UNCHANGED mishap
    /\ UNCHANGED <<master, sm1, last, reptog, acktog, emcys, accepted, read>>

SlaveEmergency ==
    /\ emcys < MaxEmcy
    /\ emcys' = emcys + 1
    /\ mails' = mails + 1
    /\ out' = Append(out, [n |-> mails + 1, req |-> 0, topic |-> None])
    /\ UNCHANGED <<master, sm0, sm1, last, reptog, acktog, lastcnt, history>>

SlaveLoad ==
    /\ sm1 = None /\ out # <<>> /\ reptog = acktog
    /\ sm1' = Head(out)
    /\ out' = Tail(out)
    /\ UNCHANGED <<master, sm0, last, reptog, acktog, lastcnt, mails, emcys,
                   history>>

\* A repeat request puts the last mail that was read back, before the one that
\* is in the mailbox.
SlaveRepeat ==
    /\ reptog # acktog
    /\ acktog' = reptog
    /\ IF last = None THEN UNCHANGED <<sm1, out>>
       ELSE /\ sm1' = last
            /\ out' = IF sm1 = None THEN out ELSE <<sm1>> \o out
    /\ UNCHANGED <<master, sm0, last, reptog, lastcnt, mails, emcys, history>>

Send == EmptySeen \/ EmptyExpired \/ WriteAnswered \/ WriteLost \/ WriteGivesUp
Receive == \/ StatusFull \/ StatusExpired \/ ReadAnswered \/ ReadLost
           \/ ReadUnsent \/ ReadEmpty \/ Toggle \/ AckSeen \/ AvailSeen \/ RepeatExpired
Slave == SlaveTake \/ SlaveEmergency \/ SlaveLoad \/ SlaveRepeat

Next == Begin \/ BeginFOEwrite \/ Send \/ Receive \/ Expire \/ Slave

Spec == Init /\ [][Next]_vars

-------------------------------------------------------------------------------
TypeOK ==
    /\ pc \in {"idle", "empty", "write", "status", "read", "toggle", "ack", "avail"}
    /\ drain \in BOOLEAN /\ expired \in BOOLEAN /\ rep \in BOOLEAN
    /\ cnt \in 0 .. MaxCnt /\ req \in 0 .. MaxReq
    /\ topic \in Topics \cup {None} /\ sends \in 0 .. MaxSend /\ repeats \in 0 .. MaxRepeat
    /\ sm0 \in Request \cup {None} /\ sm1 \in Mail \cup {None}
    /\ last \in Mail \cup {None} /\ out \in Seq(Mail)
    /\ reptog \in BOOLEAN /\ acktog \in BOOLEAN /\ lastcnt \in 0 .. MaxCnt
    /\ mails \in Nat /\ emcys \in 0 .. MaxEmcy
    /\ accepted \in Mail \cup {None} /\ read \subseteq Nat
    /\ runs \in [1 .. MaxReq -> Nat] /\ mishap \subseteq Mishaps

\* The answer a request gets is its own and not a mail of the slave's own or an
\* answer that a request before it left behind, as long as every request was
\* answered and no repeat was requested for an unread mail, which brings back the
\* mail before it: the index is all that is compared.
AnswerIsOwn ==
    /\ TypeOK
    /\ accepted # None =>
         /\ accepted.req # 0
         /\ mishap \cap {"failed", "unread"} = {} => accepted.req = req

\* The three transmissions of one request do not execute it twice, and no request
\* is taken for a retransmission of an earlier one, unless a FoE download set the
\* count back, or it has come round because all requests meanwhile were lost.
ExecutedOnce ==
    /\ \A r \in 1 .. MaxReq : runs[r] <= 1
    /\ "ignored" \in mishap => "reset" \in mishap \/ req >= MaxCnt

\* When a request has its answer, every mail that the slave sent before has
\* reached the master, the ones whose frames were lost too, unless a timer cut
\* their repeat short.
NoMailSkipped ==
    accepted # None /\ "gaveup" \notin mishap => 1 .. accepted.n \subseteq read
===============================================================================
