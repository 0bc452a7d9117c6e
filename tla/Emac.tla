--------------------------------- MODULE Emac ---------------------------------
(* The Ethernet controller of the Blackfin port, lw_emac.c.  The DMA engine puts  *)
(* received frames into two buffers in turn, each followed by a status word, and *)
(* asks nobody whether the last frame there was read; bfin_EMAC_recv polls the    *)
(* status words in the same order.  There is one transmit buffer, which tasks     *)
(* fill in bfin_EMAC_send under no lock.  A frame has two halves, so that it can   *)
(* be seen half written.                                                          *)
EXTENDS Calls

CONSTANTS MaxFrames,  \* bound: frames that come in
          MaxSent     \* bound: frames that the tasks send

ETH_RX_BUF_SIZE == 2
Halves == {1, 2}
Senders == {1, 2}
NoFrame == 0
Free == [state |-> "out", half |-> 0]

\* bfin_EMAC_init: indexes and status words are reset, the receive descriptors are a
\* ring, the transmit descriptors end with the status word.  An ASSERT may be compiled
\* out.  The two directions share nothing, and are looked at apart.
bfin_EMAC_init ==
    \E asserts \in BOOLEAN, bound \in {<<MaxFrames, 0>>, <<0, MaxSent>>} :
       Start("emac",
             [rxIdx |-> 0, rxStatusWord |-> <<"none", "none">>, txStatusWord |-> FALSE,
              rxBuffer |-> [i \in 1 .. ETH_RX_BUF_SIZE |-> [h \in Halves |-> NoFrame]],
              txBuffer |-> [h \in Halves |-> NoFrame], asserts |-> asserts,
              \* of the calls: the reader, the frames it returned, and the senders
              reader |-> "out", copy |-> <<>>, got |-> <<>>, sender |-> [s \in Senders |-> Free]],
             \* external: frames so far, the buffer being filled and how far, the frame
             \* being sent and how far, what went out, who has sent
             [bound |-> bound, frames |-> 0, slot |-> 0, fill |-> 0, bad |-> FALSE,
              tx |-> "off", sending |-> <<>>, wire |-> <<>>, sent |-> 0,
              \* history: a buffer was filled before it was read; two tasks were sending
              overrun |-> FALSE, collided |-> FALSE])

Emac == scenario = "emac"
Keep == UNCHANGED <<scenario, pc, me>>

-------------------------------------------------------------------------------
(* Receiving *)

\* The DMA engine begins a frame, fills the buffer by halves, and writes the status.
DmaBegins ==
    /\ Emac /\ bus.fill = 0 /\ bus.frames < bus.bound[1]
    /\ \E bad \in BOOLEAN :
         bus' = [bus EXCEPT !.frames = @ + 1, !.fill = 1, !.bad = bad,
                            !.overrun = @ \/ context.rxStatusWord[bus.slot + 1] # "none"]
    /\ UNCHANGED context /\ Keep
DmaFills ==
    /\ Emac /\ bus.fill \in Halves
    /\ context' = [context EXCEPT !.rxBuffer[bus.slot + 1][bus.fill] = bus.frames]
    /\ bus' = [bus EXCEPT !.fill = @ + 1]
    /\ Keep
DmaCompletes ==
    /\ Emac /\ bus.fill = 3
    /\ context' = [context EXCEPT !.rxStatusWord[bus.slot + 1] = IF bus.bad THEN "bad" ELSE "ok"]
    /\ bus' = [bus EXCEPT !.fill = 0, !.slot = (@ + 1) % ETH_RX_BUF_SIZE]
    /\ Keep

Status == context.rxStatusWord[context.rxIdx + 1]
\* bfin_EMAC_recv, called under rx_mutex: nothing was received yet.
RecvNothing == Emac /\ context.reader = "out" /\ Status = "none" /\ UNCHANGED vars
\* A frame that is not whole: the ASSERT stops the program; without it the call fails,
\* and the next one will look at the same word.
RecvBad ==
    /\ Emac /\ context.reader = "out" /\ Status = "bad"
    /\ context' = [context EXCEPT !.reader = IF context.asserts THEN "stopped" ELSE "out"]
    /\ UNCHANGED bus /\ Keep
RecvBegins ==
    /\ Emac /\ context.reader = "out" /\ Status = "ok"
    /\ context' = [context EXCEPT !.reader = "copying", !.copy = <<>>]
    /\ UNCHANGED bus /\ Keep
RecvCopies ==
    /\ Emac /\ context.reader = "copying" /\ Len(context.copy) < 2
    /\ context' = [context EXCEPT
                     !.copy = Append(@, context.rxBuffer[context.rxIdx + 1][Len(@) + 1])]
    /\ UNCHANGED bus /\ Keep

\* Variant: the index stays.
RecvReturns_Stay ==
    /\ Emac /\ context.reader = "copying" /\ Len(context.copy) = 2
    /\ context' = [context EXCEPT !.reader = "out", !.got = Append(@, context.copy),
                                  !.copy = <<>>, !.rxStatusWord[context.rxIdx + 1] = "none"]
    /\ UNCHANGED bus /\ Keep

\* The word is cleared, and the other buffer is next.
RecvReturns ==
    /\ Emac /\ context.reader = "copying" /\ Len(context.copy) = 2
    /\ context' = [context EXCEPT !.reader = "out", !.got = Append(@, context.copy),
                                  !.copy = <<>>, !.rxStatusWord[context.rxIdx + 1] = "none",
                                  !.rxIdx = (@ + 1) % ETH_RX_BUF_SIZE]
    /\ UNCHANGED bus /\ Keep

-------------------------------------------------------------------------------
(* Sending: bfin_EMAC_send of task s *)

Sends(s, state) == Emac /\ context.sender[s].state = state

\* The task goes on when the transmit channel signals no interrupt.
SendBegins(s) ==
    /\ Sends(s, "out") /\ bus.sent < bus.bound[2]
    /\ context' = [context EXCEPT !.sender[s] = [state |-> "copying", half |-> 0]]
    /\ bus' = [bus EXCEPT !.sent = @ + 1,
                          !.collided = @ \/ \E r \in Senders : context.sender[r] # Free]
    /\ Keep
SendCopies(s) ==
    /\ Sends(s, "copying") /\ context.sender[s].half < 2
    /\ context' = [context EXCEPT !.sender[s].half = @ + 1,
                                  !.txBuffer[context.sender[s].half + 1] = s]
    /\ UNCHANGED bus /\ Keep
SendEnables(s) ==
    /\ Sends(s, "copying") /\ context.sender[s].half = 2
    /\ context' = [context EXCEPT !.sender[s] = [state |-> "waiting", half |-> 0]]
    /\ bus' = [bus EXCEPT !.tx = "on", !.sending = <<>>]
    /\ Keep

\* TX_COMP is set: the word is cleared.
SendReturns(s) ==
    /\ Sends(s, "waiting") /\ context.txStatusWord
    /\ context' = [context EXCEPT !.sender[s] = Free, !.txStatusWord = FALSE]
    /\ UNCHANGED bus /\ Keep

\* The DMA engine reads the buffer by halves, sends, and writes the status.
DmaSends ==
    /\ Emac /\ bus.tx = "on" /\ Len(bus.sending) < 2
    /\ bus' = [bus EXCEPT !.sending = Append(@, context.txBuffer[Len(@) + 1])]
    /\ UNCHANGED context /\ Keep
DmaSent ==
    /\ Emac /\ bus.tx = "on" /\ Len(bus.sending) = 2
    /\ bus' = [bus EXCEPT !.tx = "off", !.wire = Append(@, bus.sending), !.sending = <<>>]
    /\ context' = [context EXCEPT !.txStatusWord = TRUE]
    /\ Keep

Next == \/ bfin_EMAC_init
        \/ DmaBegins \/ DmaFills \/ DmaCompletes
        \/ RecvNothing \/ RecvBad \/ RecvBegins \/ RecvCopies \/ RecvReturns
        \/ \E s \in Senders : SendBegins(s) \/ SendCopies(s) \/ SendEnables(s) \/ SendReturns(s)
        \/ DmaSends \/ DmaSent

-------------------------------------------------------------------------------
\* Frames are read whole and in the order they came, each once, as long as the DMA
\* engine does not come round to a buffer that was not read.
ReadInOrder == Emac /\ ~bus.overrun =>
                  context.got = [i \in 1 .. Len(context.got) |-> <<i, i>>]

\* What goes out is the frame of the task that sends, and when its call returns it has
\* gone out, if no task calls while another one is sending.
SentWhole ==
    Emac /\ ~bus.collided =>
       /\ \A i \in DOMAIN bus.wire : bus.wire[i][1] = bus.wire[i][2]
       /\ bus.sent - Cardinality({s \in Senders : context.sender[s] # Free}) <= Len(bus.wire)
===============================================================================
