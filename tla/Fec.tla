---------------------------------- MODULE Fec ----------------------------------
(* The Ethernet controller of the Freescale port, fec_ecat.c: rings of buffer     *)
(* descriptors that the driver and the controller hand to each other.  The ring   *)
(* functions fec_buffer_* are not in the repository; here the driver gets and      *)
(* produces descriptors in ring order.                                            *)
EXTENDS Calls

CONSTANTS NUM_BUFFERS,
          MaxFrames,   \* bound: frames that come in
          MaxSent      \* bound: frames sent

Slots == 0 .. NUM_BUFFERS - 1
Up(i) == (i + 1) % NUM_BUFFERS
Empty == [frame |-> 0, kind |-> "none"]

\* fec_ecat_init, which waits for the link and then lets fec_ecat_hotplug reset both
\* rings and enable the controller.  The two directions share nothing, and are looked
\* at apart.
fec_ecat_init ==
    \E bound \in {<<MaxFrames, 0>>, <<0, MaxSent>>} :
       Start("fec",
             [rx |-> [i \in Slots |-> Empty], rxNext |-> 0, got |-> <<>>,
              tx |-> [i \in Slots |-> 0], txNext |-> 0, tdar |-> FALSE,
              sender |-> "out", sent |-> 0],
             [bound |-> bound, rxAt |-> 0, frames |-> 0, kinds |-> <<>>,
              txAt |-> 0, mac |-> "idle", wire |-> <<>>])

Fec == scenario = "fec"
Keep == UNCHANGED <<scenario, pc, me>>

-------------------------------------------------------------------------------
(* The controller, external *)

\* A frame comes in: whole, damaged, longer than the buffer of the reader, or over two
\* descriptors.  It is dropped if the ring is full.
FrameComes ==
    /\ Fec /\ bus.frames < bus.bound[1]
    /\ \E kind \in {"whole", "damaged", "large", "split"} :
         LET n == bus.frames + 1
             split == kind = "split"
             fits == /\ context.rx[bus.rxAt] = Empty
                     /\ split => context.rx[Up(bus.rxAt)] = Empty
         IN IF fits
            THEN /\ context' = [context EXCEPT
                      !.rx = IF split THEN [@ EXCEPT ![bus.rxAt] = [frame |-> n, kind |-> "first"],
                                                     ![Up(bus.rxAt)] = [frame |-> n, kind |-> "last"]]
                             ELSE [@ EXCEPT ![bus.rxAt] = [frame |-> n, kind |-> kind]]]
                 /\ bus' = [bus EXCEPT !.frames = n, !.kinds = Append(@, kind),
                                       !.rxAt = IF split THEN Up(Up(@)) ELSE Up(@)]
            ELSE /\ bus' = [bus EXCEPT !.frames = n, !.kinds = Append(@, "dropped")]
                 /\ UNCHANGED context
    /\ Keep
\* Sends what is ready, and when nothing is, stops; a flag that is set while it stops
\* is lost.
MacSends ==
    /\ Fec /\ context.tdar /\ bus.mac = "idle" /\ context.tx[bus.txAt] # 0
    /\ bus' = [bus EXCEPT !.wire = Append(@, context.tx[bus.txAt]), !.txAt = Up(@)]
    /\ context' = [context EXCEPT !.tx[bus.txAt] = 0]
    /\ Keep
MacStops ==
    /\ Fec /\ context.tdar /\ bus.mac = "idle" /\ context.tx[bus.txAt] = 0
    /\ bus' = [bus EXCEPT !.mac = "stopping"]
    /\ UNCHANGED context /\ Keep
MacStopped ==
    /\ Fec /\ bus.mac = "stopping"
    /\ bus' = [bus EXCEPT !.mac = "idle"]
    /\ context' = [context EXCEPT !.tdar = FALSE]
    /\ Keep

-------------------------------------------------------------------------------
\* A descriptor that is the end of a frame without error, and no longer than the
\* reader's buffer, is a frame; the call fails for any other.  Its buffer is given back
\* in any case.
fec_ecat_recv ==
    /\ Fec /\ context.rx[context.rxNext] # Empty
    /\ LET bd == context.rx[context.rxNext]
           good == bd.kind \in {"whole", "last"}
       IN context' = [context EXCEPT !.rx[context.rxNext] = Empty,
                                     !.rxNext = Up(@),
                                     !.got = IF good THEN Append(@, bd.frame) ELSE @]
    /\ UNCHANGED bus /\ Keep

\* fec_ecat_send waits for a free buffer, fills it, waits until the controller has
\* stopped, and starts it again.
fec_ecat_send ==
    /\ Fec /\ context.sender = "out" /\ context.sent < bus.bound[2]
    /\ context.tx[context.txNext] = 0
    /\ context' = [context EXCEPT !.sender = "produced", !.sent = @ + 1,
                                  !.tx[context.txNext] = context.sent + 1, !.txNext = Up(@)]
    /\ UNCHANGED bus /\ Keep

Transmit ==
    /\ Fec /\ context.sender = "produced" /\ ~context.tdar
    /\ context' = [context EXCEPT !.sender = "out", !.tdar = TRUE]
    /\ UNCHANGED bus /\ Keep

Next == \/ fec_ecat_init \/ FrameComes \/ MacSends \/ MacStops \/ MacStopped
        \/ fec_ecat_recv \/ fec_ecat_send \/ Transmit

-------------------------------------------------------------------------------
Waiting == {i \in Slots : context.rx[i] # Empty}
\* A frame that is damaged, too large or in two parts costs itself and no other: what
\* the reader has got are the whole frames in order, and the ends of those in two
\* parts, which it cannot tell from whole ones.
DamageIsLocal ==
    Fec /\ Waiting = {} =>
       /\ \A i, j \in DOMAIN context.got : i < j => context.got[i] < context.got[j]
       /\ {context.got[i] : i \in DOMAIN context.got} =
             {i \in DOMAIN bus.kinds : bus.kinds[i] \in {"whole", "split"}}

\* The driver holds the buffers that it has not read, and gives back every one it has.
BuffersReturned == Fec /\ context.rxNext = bus.rxAt => Waiting \in {{}, Slots}

\* When the controller has stopped and no call is running, every frame has gone out,
\* in order.
NothingLeftBehind ==
    Fec /\ context.sender = "out" /\ ~context.tdar =>
       bus.wire = [i \in 1 .. context.sent |-> i]
===============================================================================
