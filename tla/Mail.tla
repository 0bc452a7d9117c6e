--------------------------------- MODULE Mail ----------------------------------
(* What the mailbox protocols stand on: one call of the library at a time,     *)
(* which exchanges mails with one slave.  The link layer (module Mailbox) is   *)
(* here what it promises: a mail that is sent arrives, or the call fails and   *)
(* it may have arrived; a mail is received, in order, or the receive times out *)
(* and the mail comes later, or never.                                         *)
(*                                                                             *)
(* The modules that extend this one share its variables: a thread is in one    *)
(* call, and a slave has one pair of mailboxes.                                *)
EXTENDS Integers, Sequences, SequencesExt

CONSTANTS None,         \* no mail
          MaxOut        \* bound: mails of the slave on their way

VARIABLES
  pc,       \* "idle", "request", "receive", ..., "done"
  me,       \* the running call: its service, arguments and local variables
  result,   \* what the call returned: "ok" is a work counter > 0
  \* the slave, external
  in,       \* its in mailbox
  out,      \* its mails on their way to the master
  it        \* what it knows of the running transfer

master == <<pc, me, result>>
slave == <<in, out, it>>
vars == <<master, slave>>

Init ==
    /\ pc = "idle" /\ me = [service |-> "none"] /\ result = "none"
    /\ in = None /\ out = <<>> /\ it = [service |-> "none"]

At(service, label) == me.service = service /\ pc = label

\* A call begins.  One mail of an earlier call may still be waiting, behind one
\* that the draining ecx_mbxreceive took.
Begin(call, session, late) ==
    /\ pc = "idle" /\ pc' = "request"
    /\ me' = call /\ it' = session
    /\ out' \in {<<>>} \cup {<<m>> : m \in late}
    /\ UNCHANGED <<result, in>>

Return(r) == pc' = "done" /\ result' = r

\* ecx_mbxsend: what follows when the mail was placed in the slave, and when the
\* call failed; then it may have arrived all the same.
Post(m, next, fail) ==
    \/ in = None /\ in' = m /\ next
    \/ in' \in {in} \cup (IF in = None THEN {m} ELSE {}) /\ fail

Failed == Return("failed")
Stay(label) == pc' = label /\ UNCHANGED result

\* ecx_mbxreceive returns a mail.
Take(m) == out # <<>> /\ m = Head(out) /\ out' = Tail(out)

\* It does not; a mail whose read was lost is gone.
Miss == out' \in {out} \cup (IF out = <<>> THEN {} ELSE {Tail(out)})

\* The slave answers what is in its in mailbox.
Answer(m) == in' = None /\ Len(out) < MaxOut /\ out' = Append(out, m)
===============================================================================
