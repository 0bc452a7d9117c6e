------------------------------ MODULE Redundancy ------------------------------
(* One ecx_srconfirm over two NICs (redstate = ECT_RED_DOUBLE): slaves         *)
(* 1 .. N hang in a line between the primary and the secondary NIC, any cable  *)
(* of the line may be cut or mended at any time, frames get lost or come late. *)
(* ecx_outframe_red sends the command over the primary and a dummy BRD over    *)
(* the secondary NIC; ecx_waitinframe_red decides from the source MACs of what *)
(* came back on which side where the line is cut, and resends the command over *)
(* the secondary NIC to reach the far part.                                    *)
(*                                                                             *)
(* The frames of one index and one thread are modelled here; module Nicdrv has *)
(* the index buffers and the threads.                                          *)
EXTENDS Integers, Sequences, SequencesExt, FiniteSetsExt

CONSTANTS N,           \* number of slaves
          MaxTry,      \* bound: attempts of one ecx_srconfirm
          MaxChange    \* bound: cable events during it

ASSUME NAssumption     == N \in Nat \ {0}
ASSUME ChangeAssumption == MaxTry \in Nat \ {0} /\ MaxChange \in Nat

Sides == {"prim", "sec"}

\* Cable k joins slave k and slave k+1; cable 0 starts at the primary NIC and
\* cable N ends at the secondary.
Cables == 0 .. N

EC_NOFRAME == -1

\* A frame: which NIC's MAC it carries (sa1), whether it is the command or the
\* dummy, and the slaves that have processed it, in order.
Frame(mac, kind, by) == [mac |-> mac, kind |-> kind, by |-> by]
NoFrame == Frame("none", "none", <<>>)

VARIABLES cut,      \* external: the cables that are cut
          changes,  \* cable events so far
          sock,     \* per side: frames that reached the NIC, oldest first
          redpc,    \* where ecx_srconfirm is
          try,      \* attempts made
          txby,     \* txbuf[idx]: the slaves that processed what it holds
          wkc,      \* per side: wkc and wkc2 of ecx_waitinframe_red
          rx,       \* per side: rxbuf[idx] and rxsa[idx]
          leftover, \* history: an attempt started with frames still to come
          missed    \* history: a frame was lost, or came too late

redvars == <<cut, changes, sock, redpc, try, txby, wkc, rx, leftover, missed>>
history == <<leftover, missed>>
line == <<cut, changes>>

\* The work counter a frame has when it comes back.
Wkc(f) == Len(f.by)

\* The slaves a .. b in the order in which they process a frame.
Run(a, b) == [i \in 1 .. (IF b < a THEN 0 ELSE b - a + 1) |-> a + i - 1]

Arrive(side, f) == sock' = [sock EXCEPT ![side] = Append(@, f)]

\* External: a frame runs from its NIC to the first cut, where the last slave
\* closes its port and sends it back, or to the other NIC.  A slave processes
\* frames only on their way from the primary to the secondary side.
Travel(side, f) ==
    IF side = "prim"
    THEN CASE cut = {} -> Arrive("sec", [f EXCEPT !.by = @ \o Run(1, N)])
           [] 0 \in cut -> UNCHANGED sock
           [] OTHER -> Arrive("prim", [f EXCEPT !.by = @ \o Run(1, Min(cut))])
    ELSE CASE cut = {} -> Arrive("prim", f)
           [] N \in cut -> UNCHANGED sock
           [] OTHER -> Arrive("sec", [f EXCEPT !.by = @ \o Run(Max(cut) + 1, N)])

RedInit ==
    /\ cut \in {{}} \cup {{k} : k \in Cables}
    /\ changes = 0
    /\ sock = [s \in Sides |-> <<>>]
    /\ redpc = "outprim"
    /\ try = 1
    /\ txby = <<>>
    /\ wkc = [s \in Sides |-> EC_NOFRAME]
    /\ rx = [s \in Sides |-> NoFrame]
    /\ leftover = FALSE
    /\ missed = FALSE

-------------------------------------------------------------------------------
(* ecx_outframe_red *)

\* The command goes out over the primary NIC under the primary MAC.
OutPrimary ==
    /\ redpc = "outprim"
    /\ leftover' = (leftover \/ \E s \in Sides : sock[s] # <<>>)
    /\ Travel("prim", Frame("prim", "command", txby))
    /\ wkc' = [s \in Sides |-> EC_NOFRAME]
    /\ redpc' = "outsec"
    /\ UNCHANGED <<line, try, txby, rx, missed>>

\* The dummy goes out over the secondary NIC under the secondary MAC.
OutSecondary ==
    /\ redpc = "outsec"
    /\ Travel("sec", Frame("sec", "dummy", <<>>))
    /\ redpc' = "wait"
    /\ UNCHANGED <<line, try, txby, wkc, rx, history>>

-------------------------------------------------------------------------------
(* ecx_waitinframe_red *)

\* ecx_inframe on one side, which is read only while its frame is not in.
RedInframe(side) ==
    /\ wkc[side] <= EC_NOFRAME
    /\ sock[side] # <<>>
    /\ rx' = [rx EXCEPT ![side] = Head(sock[side])]
    /\ wkc' = [wkc EXCEPT ![side] = Wkc(Head(sock[side]))]
    /\ sock' = [sock EXCEPT ![side] = Tail(@)]

WaitBoth ==
    /\ redpc = "wait"
    /\ \E side \in Sides : RedInframe(side)
    /\ UNCHANGED <<line, redpc, try, txby, history>>

\* primrx and secrx: the MAC of what came in on a side, or "none".
Came(side) == IF wkc[side] > EC_NOFRAME THEN rx[side].mac ELSE "none"

\* The loop ends when both frames are in, or when the timer has expired.
WaitOver == redpc = "wait"

\* It has expired with frames on their way: they were too late.
NoteMissed == missed' = (missed \/ \E s \in Sides : sock[s] # <<>>)

\* Normal: each side got the other side's frame, the secondary has the answer.
Normal ==
    /\ WaitOver
    /\ Came("prim") = "sec" /\ Came("sec") = "prim"
    /\ rx' = [rx EXCEPT !["prim"] = rx["sec"]]
    /\ wkc' = [wkc EXCEPT !["prim"] = wkc["sec"]]
    /\ redpc' = "return"
    /\ NoteMissed
    /\ UNCHANGED <<line, sock, try, txby, leftover>>

\* Variant: the primary answer is not copied into the tx buffer.
Resend_NoCopy ==
    /\ WaitOver
    /\ Came("prim") \in {"none", "prim"} /\ Came("sec") = "sec"
    /\ Travel("sec", Frame("prim", "command", txby))
    /\ wkc' = [wkc EXCEPT !["sec"] = EC_NOFRAME]
    /\ redpc' = "rewait"
    /\ NoteMissed
    /\ UNCHANGED <<line, txby, try, rx, leftover>>

\* The secondary got its own dummy back, the primary its own frame or nothing:
\* what the primary got is sent on over the secondary NIC.
Resend ==
    /\ WaitOver
    /\ Came("prim") \in {"none", "prim"} /\ Came("sec") = "sec"
    /\ txby' = IF Came("prim") = "prim" THEN rx["prim"].by ELSE txby
    /\ Travel("sec", Frame("prim", "command", txby'))
    /\ wkc' = [wkc EXCEPT !["sec"] = EC_NOFRAME]
    /\ redpc' = "rewait"
    /\ NoteMissed
    /\ UNCHANGED <<line, try, rx, leftover>>

\* Every other combination leaves the primary's result as it is.
NoRepair ==
    /\ WaitOver
    /\ ~ (Came("prim") = "sec" /\ Came("sec") = "prim")
    /\ ~ (Came("prim") \in {"none", "prim"} /\ Came("sec") = "sec")
    /\ redpc' = "return"
    /\ NoteMissed
    /\ UNCHANGED <<line, sock, try, txby, wkc, rx, leftover>>

\* Variant: only the work counter of the answer is taken.
Rewait_NoCopy ==
    /\ redpc = "rewait"
    /\ sock["sec"] # <<>>
    /\ wkc' = [s \in Sides |-> Wkc(Head(sock["sec"]))]
    /\ sock' = [sock EXCEPT !["sec"] = Tail(@)]
    /\ redpc' = "return"
    /\ UNCHANGED <<line, try, txby, rx, history>>

\* The answer to the resent frame replaces the primary's.
Rewait ==
    /\ redpc = "rewait"
    /\ sock["sec"] # <<>>
    /\ rx' = [s \in Sides |-> Head(sock["sec"])]
    /\ wkc' = [s \in Sides |-> Wkc(Head(sock["sec"]))]
    /\ sock' = [sock EXCEPT !["sec"] = Tail(@)]
    /\ redpc' = "return"
    /\ UNCHANGED <<line, try, txby, history>>

\* The second timer expires: the primary's result stands.
RewaitOver ==
    /\ redpc = "rewait"
    /\ redpc' = "return"
    /\ NoteMissed
    /\ UNCHANGED <<line, sock, try, txby, wkc, rx, leftover>>

-------------------------------------------------------------------------------
(* ecx_srconfirm *)

\* No frame and time left: the same frame is sent again.
RetryConfirm ==
    /\ redpc = "return"
    /\ wkc["prim"] <= EC_NOFRAME
    /\ try < MaxTry
    /\ try' = try + 1
    /\ redpc' = "outprim"
    /\ UNCHANGED <<line, sock, txby, wkc, rx, history>>

Done ==
    /\ redpc = "return"
    /\ redpc' = "done"
    /\ UNCHANGED <<line, sock, try, txby, wkc, rx, history>>

-------------------------------------------------------------------------------
(* The line *)

CutCable ==
    /\ redpc # "done" /\ changes < MaxChange
    /\ \E k \in Cables \ cut : cut' = cut \cup {k}
    /\ changes' = changes + 1
    /\ UNCHANGED <<sock, redpc, try, txby, wkc, rx, history>>

MendCable ==
    /\ redpc # "done" /\ changes < MaxChange
    /\ \E k \in cut : cut' = cut \ {k}
    /\ changes' = changes + 1
    /\ UNCHANGED <<sock, redpc, try, txby, wkc, rx, history>>

LoseOnLine ==
    /\ redpc # "done"
    /\ \E s \in Sides : \E i \in 1 .. Len(sock[s]) :
          sock' = [sock EXCEPT ![s] = RemoveAt(@, i)]
    /\ missed' = TRUE
    /\ UNCHANGED <<line, redpc, try, txby, wkc, rx, leftover>>

Driver == \/ OutPrimary \/ OutSecondary \/ WaitBoth \/ Normal \/ Resend
          \/ NoRepair \/ Rewait \/ RewaitOver \/ RetryConfirm \/ Done

RedNext == Driver \/ CutCable \/ MendCable \/ LoseOnLine

RedSpec == RedInit /\ [][RedNext]_redvars

-------------------------------------------------------------------------------
RedTypeOK ==
    /\ cut \subseteq Cables /\ changes \in 0 .. MaxChange
    /\ redpc \in {"outprim", "outsec", "wait", "rewait", "return", "done"}
    /\ try \in 1 .. MaxTry
    /\ txby \in Seq(1 .. N)
    /\ \A s \in Sides :
         /\ wkc[s] \in {EC_NOFRAME} \cup Nat
         /\ rx[s].mac \in Sides \cup {"none"}
         /\ wkc[s] > EC_NOFRAME => rx[s] # NoFrame
    /\ leftover \in BOOLEAN /\ missed \in BOOLEAN

\* The primitive got an answer it will copy out of rxbuf[idx] (wkc > 0).
Answered == redpc = "done" /\ wkc["prim"] > 0
Answer   == rx["prim"]

\* The buffer holds the command, not the dummy of the secondary NIC, unless an
\* attempt began with frames of an earlier one still to come.
AnswerIsCommand == Answered /\ ~leftover => Answer.kind = "command"

\* With at most one cable cut, all slaves are serviced, once and in order, if
\* the line does not change meanwhile and no frame is lost or late.
AllServiced ==
    redpc = "done" /\ changes = 0 /\ ~missed =>
       Answered /\ Answer.kind = "command" /\ Answer.by = Run(1, N)

\* No slave executes a command twice in one answer, unless the line changes
\* twice between the two transmissions.
NoSlaveTwice ==
    Answered /\ changes < 2 =>
       \A i, j \in 1 .. Len(Answer.by) : i < j => Answer.by[i] < Answer.by[j]

\* The work counter returned is the number of slaves in the buffer returned.
WkcMatchesBuffer == redpc = "done" /\ wkc["prim"] > EC_NOFRAME =>
                       wkc["prim"] = Len(Answer.by)

\* The answer the caller gets is the command, with the work counter that belongs
\* to it and no slave in it twice.
AnswerSound == RedTypeOK /\ WkcMatchesBuffer /\ AnswerIsCommand /\ NoSlaveTwice
===============================================================================
