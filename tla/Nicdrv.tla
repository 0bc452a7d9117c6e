-------------------------------- MODULE Nicdrv --------------------------------
(* The frame buffers of one ecx_portt and the threads that use them: every    *)
(* datagram primitive (ecx_BRD, ecx_FPWR, ...) takes an index with            *)
(* ecx_getindex, builds its frame in txbuf[idx], runs ecx_srconfirm and        *)
(* releases the index.  All threads read the same socket, so a thread may      *)
(* receive the frame another one is waiting for; the index in the frame and    *)
(* rxbufstat[] sort them out.  Single NIC (redstate = ECT_RED_NONE).           *)
(*                                                                             *)
(* A step is one access to state that another thread may touch at the same     *)
(* time.  What happens under rx_mutex and touches only what rx_mutex guards    *)
(* is one step; rxbufstat[] is written outside of it and gets steps of its     *)
(* own.                                                                        *)
EXTENDS Naturals, FiniteSets

CONSTANTS Threads,    \* threads that use the port
          MaxBuf,     \* EC_MAXBUF
          MaxReq,     \* bound: requests per thread
          MaxSend,    \* bound: transmissions per request
          MaxNet,     \* bound: frames on the wire at one time
          SendFails,  \* TRUE if send() may return -1
          None        \* no thread, no frame, nothing stored

ASSUME ThreadsAssumption == IsFiniteSet(Threads)
ASSUME MaxBufAssumption == MaxBuf \in Nat \ {0}
ASSUME BoundAssumption  == MaxReq \in Nat /\ MaxSend \in Nat /\ MaxNet \in Nat
ASSUME SendAssumption   == SendFails \in BOOLEAN

VARIABLES rxbufstat,       \* port->rxbufstat[]
          rxbuf,           \* port->rxbuf[]: the request whose answer it holds
          txbuf,           \* port->txbuf[]: the request whose frame it holds
          lastidx,         \* port->lastidx
          getindex_mutex,  \* owner of port->getindex_mutex
          rx_mutex,        \* owner of port->rx_mutex
          net,             \* frames on the wire or in the socket
          pc, idx, cnt,    \* per thread: where it is, its idx and loop counter
          nreq, nsend,     \* per thread: requests made, frames sent for this one
          held,            \* per thread: a frame of another index being stored
          got,             \* per thread: what the primitive copied from rxbuf
          overdue,         \* history: idx was handed out with frames outstanding
          mishap           \* history: which of the mishaps below have happened

portVars   == <<rxbufstat, rxbuf, txbuf, lastidx, getindex_mutex, rx_mutex>>
threadVars == <<pc, idx, cnt, nreq, nsend, held, got>>
vars == <<portVars, net, threadVars, overdue, mishap>>

Idx      == 0 .. MaxBuf - 1
Status   == {"EMPTY", "ALLOC", "TX", "RCVD", "COMPLETE"}
Requests == Threads \X (1 .. MaxReq)
Frames   == [idx : Idx, req : Requests, n : 1 .. MaxSend]

ASSUME NoneAssumption ==
          None \notin Threads /\ None \notin Requests /\ None \notin Frames

\* "steal": getindex handed out an index that was not EMPTY;
\* "leak": a frame was stored for an index that had just been released;
\* "sendfail": a failed send marked an index EMPTY that was still in use.
Mishaps == {"steal", "leak", "sendfail"}

\* idx++ with the wrap test "if (idx >= EC_MAXBUF) idx = 0".
NextIdx(i) == IF i + 1 >= MaxBuf THEN 0 ELSE i + 1

Req(t) == <<t, nreq[t]>>

\* A thread owns idx[t] from the end of getindex to ecx_setbufstat(EMPTY).
Owning == {"setup", "out", "send", "check", "lockrx", "recv", "store",
           "timer", "take", "use", "release"}
Owns(t, i) == pc[t] \in Owning /\ idx[t] = i

Goto(t, label) == pc' = [pc EXCEPT ![t] = label]

\* ecx_setupnic for the primary port.
Init ==
    /\ rxbufstat = [i \in Idx |-> "EMPTY"]
    /\ rxbuf = [i \in Idx |-> None]
    /\ txbuf = [i \in Idx |-> None]
    /\ lastidx = 0
    /\ getindex_mutex = None
    /\ rx_mutex = None
    /\ net = {}
    /\ pc = [t \in Threads |-> "idle"]
    /\ idx = [t \in Threads |-> 0]
    /\ cnt = [t \in Threads |-> 0]
    /\ nreq = [t \in Threads |-> 0]
    /\ nsend = [t \in Threads |-> 0]
    /\ held = [t \in Threads |-> None]
    /\ got = [t \in Threads |-> None]
    /\ overdue = [t \in Threads |-> FALSE]
    /\ mishap = {}

-------------------------------------------------------------------------------
(* ecx_getindex *)

\* Variant: getindex_mutex does not exclude.
GetIndexLock_NoWait(t) ==
    /\ pc[t] = "idle"
    /\ nreq[t] < MaxReq
    /\ getindex_mutex' = t
    /\ nreq' = [nreq EXCEPT ![t] = @ + 1]
    /\ idx' = [idx EXCEPT ![t] = NextIdx(lastidx)]
    /\ Goto(t, "scan")
    /\ UNCHANGED <<rxbufstat, rxbuf, txbuf, lastidx, rx_mutex, net, cnt, nsend,
                   held, got, overdue, mishap>>

\* A primitive is called; ecx_getindex takes its mutex and starts its scan at
\* the index after the last one handed out.
GetIndexLock(t) ==
    /\ pc[t] = "idle"
    /\ nreq[t] < MaxReq
    /\ getindex_mutex = None
    /\ getindex_mutex' = t
    /\ nreq' = [nreq EXCEPT ![t] = @ + 1]
    /\ idx' = [idx EXCEPT ![t] = NextIdx(lastidx)]
    /\ Goto(t, "scan")
    /\ UNCHANGED <<rxbufstat, rxbuf, txbuf, lastidx, rx_mutex, net, cnt, nsend,
                   held, got, overdue, mishap>>

\* One turn of the search loop: the slot is in use and the count allows more.
ScanNext(t) ==
    /\ pc[t] = "scan"
    /\ rxbufstat[idx[t]] # "EMPTY"
    /\ cnt[t] < MaxBuf
    /\ idx' = [idx EXCEPT ![t] = NextIdx(@)]
    /\ cnt' = [cnt EXCEPT ![t] = @ + 1]
    /\ UNCHANGED <<portVars, net, pc, nreq, nsend, held, got, overdue, mishap>>

\* The loop ends on an EMPTY slot, or after EC_MAXBUF turns on whatever slot it
\* has reached.
ScanDone(t) ==
    /\ pc[t] = "scan"
    /\ rxbufstat[idx[t]] = "EMPTY" \/ cnt[t] >= MaxBuf
    /\ mishap' = IF rxbufstat[idx[t]] = "EMPTY" THEN mishap
                                                ELSE mishap \cup {"steal"}
    /\ Goto(t, "alloc")
    /\ UNCHANGED <<portVars, net, idx, cnt, nreq, nsend, held, got, overdue>>

\* Frames that will still come up with index i: in the net, or received by a
\* thread that has decided to store them.
Outstanding(i) == \/ \E f \in net : f.idx = i
                  \/ \E u \in Threads : held[u] # None /\ held[u].idx = i

\* Either way the slot is the caller's.
Alloc(t) ==
    /\ pc[t] = "alloc"
    /\ rxbufstat' = [rxbufstat EXCEPT ![idx[t]] = "ALLOC"]
    /\ lastidx' = idx[t]
    /\ getindex_mutex' = None
    /\ overdue' = [overdue EXCEPT ![t] = Outstanding(idx[t])]
    /\ Goto(t, "setup")
    /\ UNCHANGED <<rxbuf, txbuf, rx_mutex, net, idx, cnt, nreq, nsend, held,
                   got, mishap>>

-------------------------------------------------------------------------------
(* ecx_setupdatagram and ecx_srconfirm: ecx_outframe *)

SetupDatagram(t) ==
    /\ pc[t] = "setup"
    /\ txbuf' = [txbuf EXCEPT ![idx[t]] = Req(t)]
    /\ Goto(t, "out")
    /\ UNCHANGED <<rxbufstat, rxbuf, lastidx, getindex_mutex, rx_mutex, net,
                   idx, cnt, nreq, nsend, held, got, overdue, mishap>>

\* The status is TX before the frame is on its way.
OutframeMark(t) ==
    /\ pc[t] = "out"
    /\ rxbufstat' = [rxbufstat EXCEPT ![idx[t]] = "TX"]
    /\ Goto(t, "send")
    /\ UNCHANGED <<rxbuf, txbuf, lastidx, getindex_mutex, rx_mutex, net,
                   idx, cnt, nreq, nsend, held, got, overdue, mishap>>

\* send() puts the contents of txbuf[idx] on the wire.
Send(t) ==
    /\ pc[t] = "send"
    /\ nsend[t] < MaxSend
    /\ Cardinality(net) < MaxNet
    /\ nsend' = [nsend EXCEPT ![t] = @ + 1]
    /\ net' = net \cup {[idx |-> idx[t], req |-> txbuf[idx[t]], n |-> nsend[t] + 1]}
    /\ Goto(t, "check")
    /\ UNCHANGED <<portVars, idx, cnt, nreq, held, got, overdue, mishap>>

\* send() returned -1: the status goes back to EMPTY, although the index is
\* still this thread's; ecx_srconfirm ignores the result and waits all the same.
SendFailed(t) ==
    /\ SendFails
    /\ pc[t] = "send"
    /\ nsend[t] < MaxSend
    /\ nsend' = [nsend EXCEPT ![t] = @ + 1]
    /\ rxbufstat' = [rxbufstat EXCEPT ![idx[t]] = "EMPTY"]
    /\ mishap' = mishap \cup {"sendfail"}
    /\ Goto(t, "check")
    /\ UNCHANGED <<rxbuf, txbuf, lastidx, getindex_mutex, rx_mutex, net,
                   idx, cnt, nreq, held, got, overdue>>

-------------------------------------------------------------------------------
(* ecx_waitinframe_red: ecx_inframe in a loop until timer2 expires *)

\* "check if requested index is already in buffer", without a lock.
InframeStored(t) ==
    /\ pc[t] = "check"
    /\ rxbufstat[idx[t]] = "RCVD"
    /\ Goto(t, "take")
    /\ UNCHANGED <<portVars, net, idx, cnt, nreq, nsend, held, got, overdue, mishap>>

InframeTake(t) ==
    /\ pc[t] = "take"
    /\ rxbufstat' = [rxbufstat EXCEPT ![idx[t]] = "COMPLETE"]
    /\ Goto(t, "use")
    /\ UNCHANGED <<rxbuf, txbuf, lastidx, getindex_mutex, rx_mutex, net,
                   idx, cnt, nreq, nsend, held, got, overdue, mishap>>

InframeNotStored(t) ==
    /\ pc[t] = "check"
    /\ rxbufstat[idx[t]] # "RCVD"
    /\ Goto(t, "lockrx")
    /\ UNCHANGED <<portVars, net, idx, cnt, nreq, nsend, held, got, overdue, mishap>>

InframeLock(t) ==
    /\ pc[t] = "lockrx"
    /\ rx_mutex = None
    /\ rx_mutex' = t
    /\ Goto(t, "recv")
    /\ UNCHANGED <<rxbufstat, rxbuf, txbuf, lastidx, getindex_mutex, net,
                   idx, cnt, nreq, nsend, held, got, overdue, mishap>>

\* recv() finds nothing: EC_NOFRAME.
RecvNothing(t) ==
    /\ pc[t] = "recv"
    /\ rx_mutex' = None
    /\ Goto(t, "timer")
    /\ UNCHANGED <<rxbufstat, rxbuf, txbuf, lastidx, getindex_mutex, net,
                   idx, cnt, nreq, nsend, held, got, overdue, mishap>>

\* recv() returns a frame with the requested index: it is stored and completed
\* whatever the status of the slot.
RecvOwn(t) ==
    /\ pc[t] = "recv"
    /\ \E f \in net :
         /\ f.idx = idx[t]
         /\ net' = net \ {f}
         /\ rxbuf' = [rxbuf EXCEPT ![idx[t]] = f.req]
    /\ rxbufstat' = [rxbufstat EXCEPT ![idx[t]] = "COMPLETE"]
    /\ rx_mutex' = None
    /\ Goto(t, "use")
    /\ UNCHANGED <<txbuf, lastidx, getindex_mutex, idx, cnt, nreq, nsend, held,
                   got, overdue, mishap>>

\* Variant: a frame nobody waits for is dropped without releasing rx_mutex.
RecvOther_KeepLock(t) ==
    /\ pc[t] = "recv"
    /\ \E f \in net :
         /\ f.idx # idx[t]
         /\ net' = net \ {f}
         /\ \/ /\ rxbufstat[f.idx] = "TX"
               /\ held' = [held EXCEPT ![t] = f]
               /\ Goto(t, "store")
            \/ /\ rxbufstat[f.idx] # "TX"
               /\ Goto(t, "timer")
               /\ UNCHANGED held
    /\ UNCHANGED <<portVars, idx, cnt, nreq, nsend, got, overdue, mishap>>

\* recv() returns another thread's frame: it is kept if rxbufstat[] says that
\* someone is waiting for it, and dropped otherwise.
RecvOther(t) ==
    /\ pc[t] = "recv"
    /\ \E f \in net :
         /\ f.idx # idx[t]
         /\ net' = net \ {f}
         /\ \/ /\ rxbufstat[f.idx] = "TX"
               /\ held' = [held EXCEPT ![t] = f]
               /\ Goto(t, "store")
               /\ UNCHANGED rx_mutex
            \/ /\ rxbufstat[f.idx] # "TX"
               /\ rx_mutex' = None
               /\ Goto(t, "timer")
               /\ UNCHANGED held
    /\ UNCHANGED <<rxbufstat, rxbuf, txbuf, lastidx, getindex_mutex, idx, cnt,
                   nreq, nsend, got, overdue, mishap>>

\* The copy into the other thread's rxbuf and the RCVD mark.  The status that
\* RecvOther read may have changed: its owner releases the slot without a lock.
StoreOther(t) ==
    /\ pc[t] = "store"
    /\ rxbuf' = [rxbuf EXCEPT ![held[t].idx] = held[t].req]
    /\ rxbufstat' = [rxbufstat EXCEPT ![held[t].idx] = "RCVD"]
    /\ mishap' = IF rxbufstat[held[t].idx] = "EMPTY" THEN mishap \cup {"leak"}
                                                     ELSE mishap
    /\ held' = [held EXCEPT ![t] = None]
    /\ rx_mutex' = None
    /\ Goto(t, "timer")
    /\ UNCHANGED <<txbuf, lastidx, getindex_mutex, net, idx, cnt, nreq, nsend,
                   got, overdue>>

\* timer2 is not expired: another ecx_inframe.
PollAgain(t) ==
    /\ pc[t] = "timer"
    /\ Goto(t, "check")
    /\ UNCHANGED <<portVars, net, idx, cnt, nreq, nsend, held, got, overdue, mishap>>

\* timer2 is expired and timer1 is not: ecx_srconfirm sends the frame again.
Retry(t) ==
    /\ pc[t] = "timer"
    /\ nsend[t] < MaxSend
    /\ Goto(t, "out")
    /\ UNCHANGED <<portVars, net, idx, cnt, nreq, nsend, held, got, overdue, mishap>>

\* Variant: the caller copies the buffer without looking at the work counter.
GiveUp_Use(t) ==
    /\ pc[t] = "timer"
    /\ Goto(t, "use")
    /\ UNCHANGED <<portVars, net, idx, cnt, nreq, nsend, held, got, overdue, mishap>>

\* Both timers are expired: ecx_srconfirm returns EC_NOFRAME.
GiveUp(t) ==
    /\ pc[t] = "timer"
    /\ Goto(t, "release")
    /\ UNCHANGED <<portVars, net, idx, cnt, nreq, nsend, held, got, overdue, mishap>>

-------------------------------------------------------------------------------
(* Back in the primitive *)

\* The answer is copied out of rxbuf[idx].
UseAnswer(t) ==
    /\ pc[t] = "use"
    /\ got' = [got EXCEPT ![t] = rxbuf[idx[t]]]
    /\ Goto(t, "release")
    /\ UNCHANGED <<portVars, net, idx, cnt, nreq, nsend, held, overdue, mishap>>

\* The locals of a call end with it.
EndCall(t) ==
    /\ idx' = [idx EXCEPT ![t] = 0]
    /\ cnt' = [cnt EXCEPT ![t] = 0]
    /\ nsend' = [nsend EXCEPT ![t] = 0]
    /\ got' = [got EXCEPT ![t] = None]
    /\ overdue' = [overdue EXCEPT ![t] = FALSE]
    /\ Goto(t, "idle")

\* Variant: the index is not released when no frame came back.
Release_KeepOnTimeout(t) ==
    /\ pc[t] = "release"
    /\ rxbufstat' = IF got[t] = None THEN rxbufstat
                                     ELSE [rxbufstat EXCEPT ![idx[t]] = "EMPTY"]
    /\ EndCall(t)
    /\ UNCHANGED <<rxbuf, txbuf, lastidx, getindex_mutex, rx_mutex, net,
                   nreq, held, mishap>>

\* ecx_setbufstat(port, idx, EC_BUF_EMPTY), without a lock.
Release(t) ==
    /\ pc[t] = "release"
    /\ rxbufstat' = [rxbufstat EXCEPT ![idx[t]] = "EMPTY"]
    /\ EndCall(t)
    /\ UNCHANGED <<rxbuf, txbuf, lastidx, getindex_mutex, rx_mutex, net,
                   nreq, held, mishap>>

-------------------------------------------------------------------------------
(* The wire: frames are delayed and reordered by RecvOwn and RecvOther picking *)
(* any of them at any time; here one is lost.                                  *)
LoseFrame ==
    /\ \E f \in net : net' = net \ {f}
    /\ UNCHANGED <<portVars, threadVars, overdue, mishap>>

Inframe(t) ==
    \/ InframeStored(t) \/ InframeTake(t) \/ InframeNotStored(t)
    \/ InframeLock(t) \/ RecvNothing(t) \/ RecvOwn(t) \/ RecvOther(t)
    \/ StoreOther(t)

ThreadStep(t) ==
    \/ GetIndexLock(t) \/ ScanNext(t) \/ ScanDone(t) \/ Alloc(t)
    \/ SetupDatagram(t) \/ OutframeMark(t) \/ Send(t) \/ SendFailed(t)
    \/ Inframe(t) \/ PollAgain(t) \/ Retry(t) \/ GiveUp(t)
    \/ UseAnswer(t) \/ Release(t)

Next == LoseFrame \/ \E t \in Threads : ThreadStep(t)

Spec == Init /\ [][Next]_vars

\* The threads run, the mutexes are granted in turn (PTHREAD_PRIO_INHERIT on
\* real-time threads), and a clock that is polled again and again passes any
\* deadline, so a loop on osal_timer_is_expired does not go on for ever.
Fairness ==
    \A t \in Threads :
       /\ WF_vars(ThreadStep(t) /\ pc[t] # "idle")
       /\ SF_vars(InframeLock(t))
       /\ SF_vars(GiveUp(t))

FairSpec == Spec /\ Fairness

-------------------------------------------------------------------------------
TypeOK ==
    /\ rxbufstat \in [Idx -> Status]
    /\ rxbuf \in [Idx -> Requests \cup {None}]
    /\ txbuf \in [Idx -> Requests \cup {None}]
    /\ lastidx \in Idx
    /\ getindex_mutex \in Threads \cup {None}
    /\ rx_mutex \in Threads \cup {None}
    /\ net \subseteq Frames
    /\ pc \in [Threads -> Owning \cup {"idle", "scan", "alloc"}]
    /\ idx \in [Threads -> Idx]
    /\ cnt \in [Threads -> 0 .. MaxBuf]
    /\ nreq \in [Threads -> 0 .. MaxReq]
    /\ nsend \in [Threads -> 0 .. MaxSend]
    /\ held \in [Threads -> Frames \cup {None}]
    /\ got \in [Threads -> Requests \cup {None}]
    /\ overdue \in [Threads -> BOOLEAN]
    /\ mishap \subseteq Mishaps

\* "get fresh index" (ethercatbase.c): no two threads work with the same frame
\* buffer, unless a slot was stolen or given up by a failed send.
IndexExclusive ==
    \A t, u \in Threads :
       t # u /\ pc[t] \in Owning /\ pc[u] \in Owning /\ idx[t] = idx[u]
         => mishap \cap {"steal", "sendfail"} # {}

\* A slot that is not EMPTY has an owner, who will release it, unless a frame
\* was stored into a slot that had just been released.
NoLeak ==
    \A i \in Idx :
       rxbufstat[i] # "EMPTY" /\ "leak" \notin mishap
         => \E t \in Threads : Owns(t, i)

\* With no more threads than buffers, ecx_getindex runs out of free slots only
\* after slots were leaked, or freed under their owners by failed sends.
StealOnlyAfterLoss ==
    Cardinality(Threads) <= MaxBuf /\ "steal" \in mishap
      => mishap \cap {"leak", "sendfail"} # {}

\* What a primitive copies out of its buffer answers its own request, unless
\* its index came with frames of an earlier request outstanding (or a mishap
\* has put two requests into one buffer).
AnswerIsMine ==
    \A t \in Threads :
       got[t] # None => \/ got[t] = Req(t)
                        \/ overdue[t]
                        \/ mishap \cap {"steal", "sendfail"} # {}

\* Every call of a primitive returns, whatever happens to its frames.
EveryCallReturns == \A t \in Threads : pc[t] # "idle" ~> pc[t] = "idle"
===============================================================================
