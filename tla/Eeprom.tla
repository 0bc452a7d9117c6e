-------------------------------- MODULE Eeprom ---------------------------------
(* Access to the EEPROM of a slave: who controls it, the command interface     *)
(* with its busy and not-acknowledge bits, and the cache of ecx_siigetbyte.    *)
(* A word of an EEPROM is its slave, its address and the call that wrote it.   *)
(* A group of retries of one datagram is one step: all of them may be lost.    *)
EXTENDS Calls

CONSTANTS Slaves, Words,
          EC_MAXEEPBUF,         \* bytes in the cache
          Eight,                \* slaves that answer with eight bytes
          MaxCalls, MaxFaults   \* bounds: calls, and groups of datagrams lost

Zero == [slave |-> 0, word |-> 0, version |-> 0]   \* a word of zeros
Span(s) == IF s \in Eight THEN 4 ELSE 2   \* words of an answer
Zeros(s) == [i \in 1 .. Span(s) |-> Zero]

\* context: eep_pdi of the slaves, esislave, and esibuf as a function on the
\* bytes that esimap marks; suspect, history: bytes that a failed read filled.
\* bus: faults counts what was lost; a slave has
\* the control of its EEPROM (pdi) or not, runs a command (op) or not, and rom
\* has what each word was, one after the other.
StartEeprom ==
    scenario = "none" /\ \E pdi \in [Slaves -> BOOLEAN] :
      Start("eeprom",
        [eep_pdi |-> pdi, esislave |-> 0, esibuf |-> <<>>, suspect |-> {},
         calls |-> 0],
        [faults |-> 0,
         slave |-> [s \in Slaves |->
           [pdi |-> pdi[s], here |-> TRUE, op |-> "none", nack |-> FALSE,
            addr |-> 0, data |-> Zeros(s),
            rom |-> [w \in Words |-> <<[slave |-> s, word |-> w, version |-> 0]>>]]]])

At(label) == In("eeprom", label)
Slave == bus.slave[me.slave]

\* word is the address of the request, data the words read; bad, history:
\* something went wrong in this access; eectl as in the ecx_sii functions.
Call(service, s, word, label) ==
    /\ At("idle") /\ context.calls < MaxCalls
    /\ me' = [service |-> service, slave |-> s, word |-> word, address |-> 0,
              nackcnt |-> 0, estat |-> "none", bad |-> FALSE, rval |-> 0,
              data |-> Zeros(s), eectl |-> context.eep_pdi[s]]
    /\ context' = [context EXCEPT !.calls = @ + 1]
    /\ Goto(label) /\ UNCHANGED bus

readeeprom  == \E s \in Slaves, w \in Words : Call("read", s, w, "take")
writeeeprom == \E s \in Slaves, w \in Words : Call("write", s, w, "take")
\* By position: the same, but the control of the EEPROM is left as it is.
readeepromAP  == \E s \in Slaves, w \in Words : Call("read", s, w, "wait")
writeeepromAP == \E s \in Slaves, w \in Words : Call("write", s, w, "wait")
\* One word of every slave: ecx_readeeprom1 for all, then ecx_readeeprom2.
ReadAll == \E w \in Words : Call("all", 1, w, "ask")
\* ecx_siifind and its siblings, which read byte by byte.
Sii     == \E s \in Slaves : Call("sii", s, 0, "sii")
esidump == \E s \in Slaves : Call("dump", s, 0, "take")

-------------------------------------------------------------------------------
(* Datagrams *)

\* They reach the slave, which becomes new.
Reach(new) == Slave.here /\ bus' = [bus EXCEPT !.slave[me.slave] = new]

\* They do not: lost, or the slave is gone.
Miss == \/ Slave.here /\ bus.faults < MaxFaults /\ bus' = [bus EXCEPT !.faults = @ + 1]
        \/ ~Slave.here /\ UNCHANGED bus

Bad(m) == [m EXCEPT !.bad = TRUE]

\* ecx_eeprom2master and ecx_eeprom2pdi.  The hand-over is noted whether or not
\* it reached the slave.
HandOver(pdi) ==
    IF context.eep_pdi[me.slave] = pdi THEN UNCHANGED <<context, bus>>
    ELSE /\ context' = [context EXCEPT !.eep_pdi[me.slave] = pdi]
         /\ Reach([Slave EXCEPT !.pdi = pdi]) \/ Miss

eeprom2master ==
    /\ At("take")
    /\ HandOver(FALSE)
    /\ Goto("wait") /\ UNCHANGED me

\* ecx_eeprom_waitnotbusyAP and FP.  A status that could not be read counts as
\* not busy and without error; waiting ends at the timeout.
WaitNotBusy(status) ==
    \/ status \in {"ready", "nack"} /\ Slave.op = "none" /\ Reach(Slave)
       /\ (status = "nack" <=> Slave.nack)
    \/ status = "busy" /\ Slave.op # "none" /\ Slave.here /\ Miss
    \/ status = "unread" /\ Miss
Statuses == {"ready", "nack", "busy", "unread"}
Told(status) == LET m == [me EXCEPT !.estat = status]
                IN  IF status \in {"busy", "unread"} THEN Bad(m) ELSE m

-------------------------------------------------------------------------------
(* ecx_readeepromFP and ecx_writeeepromFP *)

\* What a turn of the loop begins with.
Turn(m) == IF m.service = "write" THEN "data" ELSE "command"

\* Variant: it is repeated when anything went wrong.
Loop_Patient(m) == /\ me' = m
                   /\ Goto(IF m.bad /\ m.nackcnt < 3 THEN Turn(m) ELSE "accessed")
\* The command is repeated when it was not acknowledged, at most twice.
Loop(m) == /\ me' = m
           /\ Goto(IF m.nackcnt > 0 /\ m.nackcnt < 3 THEN Turn(m) ELSE "accessed")

\* A slave that stays busy is not accessed at all.
Waited(m) == /\ me' = m
             /\ Goto(CASE m.estat = "busy" -> "accessed"
                        [] m.estat = "nack" -> "clear" [] OTHER -> Turn(m))

Wait ==
    /\ At("wait")
    /\ \E status \in Statuses : WaitNotBusy(status) /\ Waited(Told(status))
    /\ UNCHANGED context

\* A NOP clears the error bits.
ClearError ==
    /\ At("clear")
    /\ \/ Reach([Slave EXCEPT !.nack = FALSE]) /\ UNCHANGED me
       \/ Miss /\ me' = Bad(me)
    /\ Goto(Turn(me))
    /\ UNCHANGED context

Written == [slave |-> me.slave, word |-> me.word, version |-> context.calls]

\* Nobody looks whether the data arrived.
WriteData ==
    /\ At("data")
    /\ \/ Reach([Slave EXCEPT !.data[1] = Written]) /\ UNCHANGED me
       \/ Miss /\ me' = Bad(me)
    /\ Goto("command")
    /\ UNCHANGED context

\* The slave takes a command when it is not busy, and the master's only when PDI
\* does not have the control.
Takes == Slave.op = "none" /\ ~Slave.pdi
Commanded(op) == IF Takes THEN [Slave EXCEPT !.op = op, !.addr = me.word, !.nack = FALSE]
                          ELSE Slave

\* Work counter 0 skips the rest of the turn, no answer at all does not.
Command ==
    /\ At("command")
    /\ \/ /\ Reach(Commanded(me.service))
          /\ me' = [me EXCEPT !.bad = @ \/ ~Takes] /\ Goto("poll")
       \/ Miss /\ me' = Bad(me) /\ Goto("poll")
       \/ Miss /\ Loop(Bad(me))
    /\ UNCHANGED context

Polled(m) ==
    CASE m.estat = "busy" -> Loop(m)
      [] m.estat = "nack" -> Loop([m EXCEPT !.nackcnt = @ + 1])
      [] m.service = "write" -> Loop([m EXCEPT !.nackcnt = 0, !.rval = 1])
      [] OTHER -> me' = [m EXCEPT !.nackcnt = 0] /\ Goto("fetch")

Poll ==
    /\ At("poll")
    /\ \E status \in Statuses : WaitNotBusy(status) /\ Polled(Told(status))
    /\ UNCHANGED context

\* How much there is to read is a bit of the status.
Answer == [i \in 1 .. Span(me.slave) |->
             IF me.estat = "unread" /\ i > 2 THEN Zero ELSE Slave.data[i]]

Fetch ==
    /\ At("fetch")
    /\ \/ Reach(Slave) /\ Loop([me EXCEPT !.data = Answer])
       \/ Miss /\ Loop(Bad(me))
    /\ UNCHANGED context

\* ecx_readeeprom and ecx_writeeeprom return.
Accessed ==
    /\ At("accessed") /\ me.service \in {"read", "write"}
    /\ Goto("done")
    /\ UNCHANGED <<me, context, bus>>

-------------------------------------------------------------------------------
(* ecx_siigetbyte *)

Cached(address) == me.slave = context.esislave /\ address \in DOMAIN context.esibuf

\* Variant: the cache is kept when the slave changes.
ForSlave_Kept(s) == [context EXCEPT !.esislave = s]
\* The cache is that of one slave.
ForSlave(s) == IF s = context.esislave THEN context
               ELSE [context EXCEPT !.esislave = s, !.esibuf = <<>>, !.suspect = {}]

GetByte ==
    /\ At("sii")
    /\ \E address \in 0 .. EC_MAXEEPBUF - 1 :
         /\ ~Cached(address)
         /\ me' = [me EXCEPT !.address = address, !.word = address \div 2,
                             !.nackcnt = 0, !.bad = FALSE, !.data = Zeros(me.slave)]
    /\ context' = ForSlave(me.slave)
    /\ Goto("take") /\ UNCHANGED bus

\* The bytes of the answer are marked, whether or not they could be read.
Filled ==
    /\ At("accessed") /\ me.service = "sii"
    /\ LET first == 2 * me.word
           bytes == first .. first + 2 * Span(me.slave) - 1
       IN  context' = [context EXCEPT
             !.esibuf = [b \in DOMAIN @ \cup bytes |->
                IF b \in bytes THEN me.data[(b - first) \div 2 + 1] ELSE @[b]],
             !.suspect = IF me.bad \/ me.nackcnt > 0 THEN @ \cup bytes ELSE @ \ bytes]
    /\ Goto("sii") /\ UNCHANGED <<me, bus>>

\* PDI gets back the control it had.  ecx_siifind does so inside of its callers,
\* which go on reading.
Restore(label) ==
    /\ IF me.eectl THEN HandOver(TRUE) ELSE UNCHANGED <<context, bus>>
    /\ Goto(label) /\ UNCHANGED me

SiiFound == At("sii") /\ Restore("sii")
SiiEnd == At("sii") /\ Restore("done")

\* ecx_esidump: on to the next words, up to the limit or a word without data.
DumpNext ==
    /\ At("accessed") /\ me.service = "dump"
    /\ \/ /\ me.word + Span(me.slave) \in Words
          /\ me' = [me EXCEPT !.word = @ + Span(me.slave), !.bad = FALSE,
                              !.nackcnt = 0, !.data = Zeros(me.slave)]
          /\ Goto("wait") /\ UNCHANGED <<context, bus>>
       \/ Restore("done")

-------------------------------------------------------------------------------
(* All slaves in parallel *)

\* Request to one slave.  data collects the words that are read.
NextSlave(m, label, last) ==
    IF m.slave + 1 \in Slaves
    THEN me' = [m EXCEPT !.slave = @ + 1] /\ Goto(label)
    ELSE me' = [m EXCEPT !.slave = 1] /\ Goto(last)

readeeprom1 ==
    /\ At("ask")
    /\ context' = [context EXCEPT !.eep_pdi[me.slave] = FALSE]
    /\ LET pdi == IF context.eep_pdi[me.slave] THEN FALSE ELSE Slave.pdi
           new == IF Slave.op = "none" /\ ~pdi
                  THEN [Slave EXCEPT !.pdi = pdi, !.op = "read", !.addr = me.word,
                                     !.nack = FALSE]
                  ELSE [Slave EXCEPT !.pdi = pdi]
           taken == new.op = "read" /\ new.addr = me.word
       IN  \/ Reach(new) /\ NextSlave(IF taken THEN me ELSE Bad(me), "ask", "get")
           \/ Miss /\ NextSlave(Bad(me), "ask", "get")

\* Nobody looks at the error bits.
Got(m) == IF m.estat = "busy" THEN NextSlave(m, "get", "done")
          ELSE NextSlave([m EXCEPT !.data = Append(@, Slave.data[1]),
                                   !.bad = @ \/ m.estat # "ready"], "get", "done")

readeeprom2 ==
    /\ At("get")
    /\ \E status \in Statuses : WaitNotBusy(status) /\ Got(Told(status))
    /\ UNCHANGED context

Return ==
    /\ At("done")
    /\ me' = NoCall
    /\ Goto("idle") /\ UNCHANGED <<context, bus>>

-------------------------------------------------------------------------------
(* The slaves, external *)

RomFrom(r, w) == IF w \in Words THEN r.rom[w] ELSE <<Zero>>

\* A command ends; one that is not acknowledged did nothing.
CommandEnds ==
    \E s \in Slaves :
      LET r == bus.slave[s]
          end == [r EXCEPT !.op = "none"]
      IN  /\ scenario = "eeprom" /\ r.op # "none"
          /\ \/ bus' = [bus EXCEPT !.slave[s] =
                  IF r.op = "write" THEN [end EXCEPT !.rom[r.addr] = Append(@, r.data[1])]
                  ELSE [end EXCEPT !.data = [i \in 1 .. Span(s) |->
                                               Last(RomFrom(r, r.addr + i - 1))]]]
             \/ /\ bus.faults < MaxFaults
                /\ bus' = [bus EXCEPT !.slave[s] = [end EXCEPT !.nack = TRUE],
                                      !.faults = @ + 1]
          /\ UNCHANGED <<scenario, pc, me, context>>

Leave ==
    \E s \in Slaves :
      /\ scenario = "eeprom" /\ bus.slave[s].here /\ bus.faults < MaxFaults
      /\ bus' = [bus EXCEPT !.slave[s].here = FALSE, !.faults = @ + 1]
      /\ UNCHANGED <<scenario, pc, me, context>>

Calling == \/ readeeprom \/ writeeeprom \/ readeepromAP \/ writeeepromAP
           \/ ReadAll \/ Sii \/ esidump \/ GetByte \/ SiiFound

Master == \/ eeprom2master \/ Wait \/ ClearError \/ WriteData \/ Command
          \/ Poll \/ Fetch \/ Accessed \/ Filled \/ SiiEnd \/ DumpNext
          \/ readeeprom1 \/ readeeprom2 \/ Return

Next == StartEeprom \/ Calling \/ Master \/ CommandEnds \/ Leave

-------------------------------------------------------------------------------
\* A byte in the cache of ecx_siigetbyte is one the EEPROM of its slave has, or
\* had before a write, at that address, however calls for several slaves, for
\* words and for bytes follow each other.  A read that failed fills the cache too.
CacheIsRom == scenario = "eeprom" =>
    \A b \in DOMAIN context.esibuf \ context.suspect :
       context.esibuf[b] \in
          ToSet(RomFrom(bus.slave[context.esislave], b \div 2))

\* A call that reads for itself gives PDI back the control it had, and what the
\* master notes of the control is the slave's, as long as no hand-over is lost.
ControlReturned == scenario = "eeprom" =>
    /\ pc = "done" /\ me.service \in {"sii", "dump"} =>
         (me.eectl => context.eep_pdi[me.slave])
    /\ bus.faults = 0 => \A s \in Slaves : context.eep_pdi[s] = bus.slave[s].pdi

\* A word that is read is that of its address, also after a command that was not
\* acknowledged and when all slaves are read in parallel; a write that returns 1
\* is in the EEPROM.
WordIsOwn == scenario = "eeprom" /\ pc = "done" /\ ~me.bad =>
    /\ me.service = "read" /\ me.nackcnt = 0 =>
         me.data[1] = Last(bus.slave[me.slave].rom[me.word])
    /\ me.service = "all" =>
         \A s \in Slaves : \E i \in DOMAIN me.data :
            me.data[i] = Last(bus.slave[s].rom[me.word])
    /\ me.service = "write" /\ me.rval = 1 =>
         Last(bus.slave[me.slave].rom[me.word]) = Written

\* ecx_readeepromFP goes round for ever when a command was not acknowledged once
\* and the slave answers no more.
InNack == scenario = "eeprom" /\ pc \in {"command", "poll", "data"}
            /\ me.nackcnt > 0
===============================================================================
