------------------------------- MODULE MuxNicdrv -------------------------------
(* The frame buffers of the VxWorks port.  No task reads a socket there: the     *)
(* network task tNet0 calls mux_rx_callback with every frame, which posts it     *)
(* into a message queue of its index that holds one message, and the task that   *)
(* waits for the index takes it out.  A frame that waits in a queue keeps a      *)
(* buffer of the network pool, which has to be given back.  Tasks use the port   *)
(* as the threads of Nicdrv do; with a second port, a frame and a dummy go out   *)
(* at both ends of the line, which the cable of a cut line returns where they    *)
(* came from.                                                                    *)
EXTENDS Calls

CONSTANTS Setups,   \* the ports looked at: who uses them, how many indexes there are
                    \* (EC_MAXBUF), whether there is a second port, and the bounds:
                    \* requests of a task, transmissions of one, sends that fail
          None,     \* no frame
          Deleted   \* a queue that was deleted

Port(red) == IF red THEN {1, 2} ELSE {1}
Tasks == DOMAIN pc
Idx == 0 .. context.setup.maxbuf - 1
\* The slaves of a cut line that each end reaches.
Parts == {1, 2}

NoTask == [idx |-> 0, cnt |-> 0, req |-> 0, sends |-> 0, in |-> <<FALSE, FALSE>>,
           answer |-> None, overdue |-> FALSE, missed |-> FALSE, dropped |-> FALSE]
Req(t) == <<t, me[t].req>>
At(t, label) == scenario = "mux" /\ pc[t] = label
Jump(t, label) == pc' = [pc EXCEPT ![t] = label] /\ UNCHANGED scenario

\* ecx_setupnic for the primary and, with redundancy, the secondary port.
ecx_setupnic ==
    /\ scenario = "none" /\ scenario' = "mux"
    /\ \E s \in Setups, cut \in BOOLEAN :
         /\ cut => s.red
         /\ LET slots(x) == [p \in Port(s.red) |-> [i \in 0 .. s.maxbuf - 1 |-> x]]
            IN context' = [setup |-> s, lastidx |-> 0, sem |-> FALSE,
                           stat |-> slots("EMPTY"), rxbuf |-> slots(None),
                           rxsa |-> slots(None), queue |-> slots(None),
                           txbuf |-> [i \in 0 .. s.maxbuf - 1 |-> None],
                           owned |-> 0,
                           toClose |-> Port(s.red) \X (0 .. s.maxbuf - 1)]
         /\ bus' = [net |-> {}, cut |-> cut, cb |-> None, fails |-> 0]
         /\ pc' = [t \in s.tasks |-> "idle"]
         /\ me' = [t \in s.tasks |-> NoTask]

-------------------------------------------------------------------------------
(* ecx_getindex: the scan runs under sem_get_index *)

ecx_getindex(t) ==
    /\ At(t, "idle") /\ me[t].req < context.setup.reqs /\ ~context.sem
    /\ context' = [context EXCEPT !.sem = TRUE]
    /\ me' = [me EXCEPT ![t].req = @ + 1, ![t].cnt = 0,
                        ![t].idx = (context.lastidx + 1) % context.setup.maxbuf]
    /\ Jump(t, "scan") /\ UNCHANGED bus

ScanNext(t) ==
    /\ At(t, "scan")
    /\ context.stat[1][me[t].idx] # "EMPTY" /\ me[t].cnt < context.setup.maxbuf
    /\ me' = [me EXCEPT ![t].idx = (@ + 1) % context.setup.maxbuf, ![t].cnt = @ + 1]
    /\ UNCHANGED <<scenario, pc, context, bus>>

\* Frames of an earlier use of the index: on the way, in the hands of tNet0, or in
\* the queue of the secondary port.  Those in the queue of the primary port are
\* found before the index is sent.
Overdue(i) == \/ \E f \in bus.net : f.idx = i
              \/ bus.cb # None /\ bus.cb.frame.idx = i
              \/ context.setup.red /\ context.queue[2][i] # None

\* The index is taken, and the primitive builds its frame.
Found(t) ==
    /\ At(t, "scan")
    /\ context.stat[1][me[t].idx] = "EMPTY" \/ me[t].cnt >= context.setup.maxbuf
    /\ LET i == me[t].idx
       IN /\ context' = [context EXCEPT !.stat[1][i] = "ALLOC", !.lastidx = i, !.sem = FALSE,
                                        !.txbuf[i] = [req |-> Req(t), parts |-> {}]]
          /\ me' = [me EXCEPT ![t].overdue = Overdue(i)]
    /\ Jump(t, "mark") /\ UNCHANGED bus

-------------------------------------------------------------------------------
(* Sending: ecx_outframe, ecx_outframe_red and ec_outfram_send *)

\* What the line makes of a frame, external.  Slaves process what comes from the
\* primary end; it leaves at the other end, or, cut, where it was sent.
Travel(p, i, n, sa, content) ==
    [idx |-> i, n |-> n, sa |-> sa,
     port |-> IF context.setup.red /\ ~bus.cut THEN 3 - p ELSE p,
     content |-> [content EXCEPT !.parts = @ \cup CASE bus.cut -> {p}
                                                   [] ~bus.cut /\ p = 1 -> Parts
                                                   [] OTHER -> {}]]

Mark(t, p, label) ==
    /\ context' = [context EXCEPT !.stat[p][me[t].idx] = "TX"]
    /\ Jump(t, label) /\ UNCHANGED <<me, bus>>

\* Variant: abandoned frames are not looked for.
Sweep_Never(i) == context

\* ec_outfram_send takes an abandoned frame out of the queue and sends in its
\* buffer.  The queue is that of the primary port, whichever port sends: the
\* pktDev of both points to it.
Sweep(i) ==
    IF context.queue[1][i] = None THEN context
    ELSE [context EXCEPT !.queue[1][i] = None, !.owned = @ - 1]

\* The frame goes out, or there is no buffer or no room in the device, and the
\* status is EMPTY again although the task will wait for the answer.
OutframSend(t, p, sa, content, label) ==
    LET i == me[t].idx
    IN /\ \/ /\ bus' = [bus EXCEPT !.net = @ \cup {Travel(p, i, me[t].sends, sa, content)}]
             /\ context' = Sweep(i)
          \/ /\ bus.fails < context.setup.fails
             /\ bus' = [bus EXCEPT !.fails = @ + 1]
             /\ context' = [Sweep(i) EXCEPT !.stat[p][i] = "EMPTY"]
       /\ Jump(t, label)
\* History: the frame taken out was the answer to the running request.
SweepsAnswer(t) ==
    LET f == context.queue[1][me[t].idx] IN f # None /\ f.content.req = Req(t)

MarkPrimary(t) ==
    /\ At(t, "mark")
    /\ context' = [context EXCEPT !.stat[1][me[t].idx] = "TX"]
    /\ me' = [me EXCEPT ![t].overdue = @ \/ (context.setup.red /\ Overdue(me[t].idx))]
    /\ Jump(t, "send") /\ UNCHANGED bus
SendPrimary(t) ==
    /\ At(t, "send")
    /\ OutframSend(t, 1, "primary", context.txbuf[me[t].idx],
                   IF context.setup.red THEN "mark2" ELSE "poll1")
    /\ me' = [me EXCEPT ![t].sends = @ + 1, ![t].in = <<FALSE, ~context.setup.red>>]
MarkSecondary(t) == At(t, "mark2") /\ Mark(t, 2, "send2")
\* A dummy, with the index of the frame.
SendSecondary(t) ==
    /\ At(t, "send2")
    /\ OutframSend(t, 2, "secondary", [req |-> None, parts |-> {}], "poll1")
    /\ me' = [me EXCEPT ![t].dropped = @ \/ SweepsAnswer(t)]

-------------------------------------------------------------------------------
(* tNet0: mux_rx_callback *)

\* History: a frame of the running request that its port has not received yet.
AwaitedBy(f, t) == /\ pc[t] \notin {"idle", "scan", "closing"} /\ f.content.req \in {Req(t), None}
                   /\ f.idx = me[t].idx /\ context.stat[f.port][f.idx] # "COMPLETE"
\* A frame is taken if the status of its index at its port is TX.
mux_rx_callback ==
    /\ scenario = "mux" /\ bus.cb = None
    /\ \E f \in bus.net :
         LET expected == context.stat[f.port][f.idx] = "TX"
         IN /\ bus' = [bus EXCEPT !.net = @ \ {f},
                                  !.cb = IF expected THEN [frame |-> f, full |-> FALSE] ELSE None]
            /\ me' = [t \in Tasks |-> [me[t] EXCEPT !.dropped = @ \/ (~expected /\ AwaitedBy(f, t))]]
    /\ UNCHANGED <<scenario, pc, context>>

Queue == context.queue[bus.cb.frame.port][bus.cb.frame.idx]

\* msgQSend: into an empty queue, whose reader will give the buffer back; not into
\* one that was deleted, and the network gives it back; a full one is noticed.
Posted ==
    /\ scenario = "mux" /\ bus.cb # None /\ ~bus.cb.full
    /\ IF Queue = None
       THEN context' = [context EXCEPT !.queue[bus.cb.frame.port][bus.cb.frame.idx] = bus.cb.frame,
                                       !.owned = @ + 1]
       ELSE UNCHANGED context
    /\ bus' = [bus EXCEPT !.cb = IF Queue \in {None, Deleted} THEN None
                                 ELSE [@ EXCEPT !.full = TRUE]]
    /\ UNCHANGED <<scenario, pc, me>>

\* The older frame is thrown away, if its reader has not taken it meanwhile, and the
\* new one is posted again.
Overrun ==
    /\ scenario = "mux" /\ bus.cb # None /\ bus.cb.full
    /\ IF Queue \in {None, Deleted} THEN UNCHANGED context
       ELSE context' = [context EXCEPT !.queue[bus.cb.frame.port][bus.cb.frame.idx] = None,
                                       !.owned = @ - 1]
    /\ bus' = [bus EXCEPT !.cb.full = FALSE]
    /\ UNCHANGED <<scenario, pc, me>>

LoseFrame ==
    /\ scenario = "mux"
    /\ \E f \in bus.net :
         /\ bus' = [bus EXCEPT !.net = @ \ {f}]
         /\ me' = [t \in Tasks |-> [me[t] EXCEPT !.missed = @ \/ me[t].idx = f.idx]]
    /\ UNCHANGED <<scenario, pc, context>>

-------------------------------------------------------------------------------
(* Receiving: ecx_inframe and ecx_recvpkt, ecx_waitinframe_red, ecx_srconfirm *)

\* The message of the index, if there is one, is copied and its buffer given back.
ecx_inframe(t, p) ==
    LET i == me[t].idx
        f == context.queue[p][i]
    IN IF f = None THEN UNCHANGED <<me, context>>
       ELSE /\ me' = [me EXCEPT ![t].in[p] = TRUE]
            /\ context' = [context EXCEPT !.queue[p][i] = None, !.owned = @ - 1,
                                          !.rxbuf[p][i] = f.content, !.rxsa[p][i] = f.sa,
                                          !.stat[p][i] = "COMPLETE"]

\* A port whose frame is in is not read again.
Poll(t, p, label) ==
    /\ IF me[t].in[p] THEN UNCHANGED <<me, context>> ELSE ecx_inframe(t, p)
    /\ Jump(t, label) /\ UNCHANGED bus
PollPrimary(t)   == At(t, "poll1") /\ Poll(t, 1, IF context.setup.red THEN "poll2" ELSE "timer")
PollSecondary(t) == At(t, "poll2") /\ Poll(t, 2, "timer")

PollAgain(t) == /\ At(t, "timer") /\ me[t].in # <<TRUE, TRUE>>
                /\ Jump(t, "poll1") /\ UNCHANGED <<me, context, bus>>

\* Where the frames came from that came in, if any.
Came(t, p) == IF me[t].in[p] THEN context.rxsa[p][me[t].idx] ELSE "none"
\* History: the wait is over before every frame has come in.
Missed(t) == me[t].missed \/ Overdue(me[t].idx) \/ context.queue[1][me[t].idx] # None
\* Both are in, or timer2 is over.
WaitOver(t) ==
    /\ At(t, "timer")
    /\ LET i == me[t].idx
           route == <<Came(t, 1), Came(t, 2)>>
       IN CASE context.setup.red /\ route = <<"secondary", "primary">> ->
                 /\ context' = [context EXCEPT !.rxbuf[1][i] = context.rxbuf[2][i]]
                 /\ Jump(t, "use")
            [] context.setup.red /\ route \in {<<"none", "secondary">>, <<"primary", "secondary">>} ->
                 /\ context' = IF Came(t, 1) = "none" THEN context
                               ELSE [context EXCEPT !.txbuf[i] = context.rxbuf[1][i]]
                 /\ Jump(t, "mark3")
            [] OTHER -> Jump(t, IF me[t].in[1] THEN "use" ELSE "again") /\ UNCHANGED context
    /\ me' = [me EXCEPT ![t].missed = Missed(t)]
    /\ UNCHANGED bus

\* The frame goes out again at the secondary port, and its answer is waited for.
MarkResend(t) == At(t, "mark3") /\ Mark(t, 2, "resend")
Resend(t) ==
    /\ At(t, "resend")
    /\ OutframSend(t, 2, "primary", context.txbuf[me[t].idx], "rewait")
    /\ me' = [me EXCEPT ![t].in[2] = FALSE, ![t].dropped = @ \/ SweepsAnswer(t)]
Rewait(t) ==
    /\ At(t, "rewait") /\ ~me[t].in[2] /\ context.queue[2][me[t].idx] # None
    /\ ecx_inframe(t, 2) /\ Jump(t, "rewait") /\ UNCHANGED bus
RewaitOver(t) ==
    /\ At(t, "rewait")
    /\ IF me[t].in[2]
       THEN /\ context' = [context EXCEPT !.rxbuf[1][me[t].idx] = context.rxbuf[2][me[t].idx]]
            /\ Jump(t, "use")
       ELSE Jump(t, IF me[t].in[1] THEN "use" ELSE "again") /\ UNCHANGED context
    /\ me' = [me EXCEPT ![t].missed = Missed(t)]
    /\ UNCHANGED bus

\* ecx_srconfirm sends again while its time lasts, and gives up after that.
Retry(t) == /\ At(t, "again") /\ me[t].sends < context.setup.sends
            /\ Jump(t, "mark") /\ UNCHANGED <<me, context, bus>>
GiveUp(t) == /\ At(t, "again")
             /\ Jump(t, "release") /\ UNCHANGED <<me, context, bus>>
\* The primitive copies what a slave has counted.
UseAnswer(t) ==
    /\ At(t, "use")
    /\ LET got == context.rxbuf[1][me[t].idx]
       IN me' = [me EXCEPT ![t].answer = IF got.parts = {} THEN None ELSE got]
    /\ Jump(t, "release") /\ UNCHANGED <<context, bus>>
\* ecx_setbufstat, of both ports.
ecx_setbufstat(t) ==
    /\ At(t, "release")
    /\ context' = [context EXCEPT !.stat = [p \in DOMAIN @ |-> [@[p] EXCEPT ![me[t].idx] = "EMPTY"]]]
    /\ me' = [me EXCEPT ![t] = [NoTask EXCEPT !.req = me[t].req]]
    /\ Jump(t, "idle") /\ UNCHANGED bus

-------------------------------------------------------------------------------
(* ecx_closenic empties every queue and deletes it, while tNet0 goes on *)

AllIdle == scenario = "mux" /\ \A t \in Tasks : pc[t] = "idle"
\* The queue is emptied once; a message that is posted before it is deleted is lost
\* with its buffer.
CloseDrain ==
    /\ AllIdle /\ \A t \in Tasks : me[t].req = context.setup.reqs
    /\ \E q \in context.toClose :
         /\ \A r \in context.toClose : q[1] < r[1] \/ (q[1] = r[1] /\ q[2] <= r[2])
         /\ context' = IF context.queue[q[1]][q[2]] = None THEN context
                       ELSE [context EXCEPT !.queue[q[1]][q[2]] = None, !.owned = @ - 1]
         /\ pc' = [t \in Tasks |-> "closing"]
    /\ UNCHANGED <<scenario, me, bus>>
CloseDelete ==
    /\ scenario = "mux" /\ \A t \in Tasks : pc[t] = "closing"
    /\ \E q \in context.toClose :
         /\ \A r \in context.toClose : q[1] < r[1] \/ (q[1] = r[1] /\ q[2] <= r[2])
         /\ context' = [context EXCEPT
                          !.queue[q[1]][q[2]] = Deleted, !.toClose = @ \ {q},
                          !.owned = @ - IF context.queue[q[1]][q[2]] = None THEN 0 ELSE 1]
    /\ pc' = [t \in Tasks |-> "idle"]
    /\ UNCHANGED <<scenario, me, bus>>

Call(t) ==
    \/ ecx_getindex(t) \/ ScanNext(t) \/ Found(t)
    \/ MarkPrimary(t) \/ SendPrimary(t) \/ MarkSecondary(t) \/ SendSecondary(t)
    \/ PollPrimary(t) \/ PollSecondary(t) \/ PollAgain(t) \/ WaitOver(t)
    \/ MarkResend(t) \/ Resend(t) \/ Rewait(t) \/ RewaitOver(t)
    \/ Retry(t) \/ GiveUp(t) \/ UseAnswer(t) \/ ecx_setbufstat(t)

Next == \/ ecx_setupnic
        \/ scenario = "mux" /\ \E t \in Tasks : Call(t)
        \/ mux_rx_callback \/ Posted \/ Overrun \/ LoseFrame
        \/ CloseDrain \/ CloseDelete

-------------------------------------------------------------------------------
Mux == scenario = "mux"
Holding(t) == pc[t] \notin {"idle", "scan", "closing"}

\* Two tasks that have an index have different ones, unless a send failed: its index
\* was then EMPTY under its owner.
IndexExclusive ==
    Mux /\ bus.fails = 0 =>
       \A t, u \in Tasks : t # u /\ Holding(t) /\ Holding(u) => me[t].idx # me[u].idx

\* An answer that a task uses is to its own request, unless frames of an earlier use
\* of the index were still on their way when it got the index (with two
\* ports: when it was sent), or waited in the queue of the secondary port, which
\* nobody empties.
AnswerIsMine ==
    Mux /\ (bus.fails = 0 \/ Cardinality(Tasks) = 1) =>
       \A t \in Tasks : At(t, "release") /\ me[t].answer # None /\ ~me[t].overdue
                          => me[t].answer.req = Req(t)

\* With two ports every slave is in the answer, if no frame was lost or late and the
\* driver did not drop one itself: the send of the dummy empties the queue of the
\* primary port, and what reaches the secondary port before that send is not expected.
AllServiced ==
    Mux /\ context.setup.red /\ bus.fails = 0 =>
       \A t \in Tasks :
          At(t, "release") /\ ~me[t].overdue /\ ~me[t].missed /\ ~me[t].dropped
             => me[t].answer = [req |-> Req(t), parts |-> Parts]

\* The buffers of the network that the port must give back are those of the frames
\* in its queues, one per queue.
BuffersAccounted ==
    Mux => context.owned = Cardinality({q \in Port(context.setup.red) \X Idx :
                                          context.queue[q[1]][q[2]] \notin {None, Deleted}})
===============================================================================
