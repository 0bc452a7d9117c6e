------------------------------- MODULE Discovery -------------------------------
(* ecx_config_init: how many slaves there are, an address for each, who they    *)
(* are, their mailbox, their place in the tree of cables, and what their SII    *)
(* says, read once for slaves of one identity.  The words of the EEPROMs are   *)
(* asked for in all slaves before the first is read.                           *)
(* A datagram may be lost with all its repetitions, except those that give a   *)
(* slave its address.                                                          *)
EXTENDS Calls

CONSTANTS Buses,        \* the devices that are there, with their place in the tree
          EC_MAXSLAVE,
          MaxLost       \* bound: datagrams lost

\* A device has words in its EEPROM: manufacturer, id, revision, mailboxes to it
\* (rx) and from it (tx) as address and length, and protocols; the numbers are
\* below 2^16.  info stands for what else its SII says, with block and ebus of the
\* general section and the first two sync managers, if there are any; dc, links
\* and parent are the hardware; table is whether ec_configlist has it.
Number(word) == word \in {"man", "id", "rev", "proto"}
Empty(word) == IF Number(word) THEN 0 ELSE [address |-> 0, length |-> 0]

NoInfo == [rest |-> "none", block |-> FALSE, ebus |-> 0, SM |-> <<>>]

\* What ecx_init_context leaves of a slave, configured state and all.
NewSlave == [configadr |-> 0, alias |-> 0, eep_8byte |-> FALSE, man |-> 0, id |-> 0,
             rev |-> 0, rx |-> Empty("rx"), tx |-> Empty("tx"), proto |-> 0,
             hasdc |-> FALSE, topology |-> 0, parent |-> 0, configindex |-> FALSE,
             info |-> NoInfo, SM |-> <<0, 0>>, eep_pdi |-> FALSE]

At(label) == In("discovery", label)
Count == Len(bus.device)

\* bus: addr is the register with the address, asked the word the EEPROM of each
\* slave was asked for last, lost what was lost, by slave.
StartDiscovery ==
    scenario = "none" /\ \E devices \in Buses :
      Start("discovery",
            [slavecount |-> 0, slave |-> <<>>, block |-> 0, ebus |-> 0],
            [device |-> devices, addr |-> [i \in DOMAIN devices |-> 0],
             asked |-> [i \in DOMAIN devices |-> "none"],
             sm |-> [i \in DOMAIN devices |-> <<0, 0>>],
             preop |-> {}, lost |-> {}])

\* ecx_detect_slaves; ecx_set_slaves_to_default gives the EEPROMs to the master.
detect_slaves ==
    /\ At("idle") /\ me = NoCall
    /\ \E usetable \in BOOLEAN :
         me' = [service |-> "init", slave |-> 1, usetable |-> usetable,
                last |-> [alias |-> 0, eep_8byte |-> FALSE]]
    /\ context' = IF Count < EC_MAXSLAVE
                  THEN [context EXCEPT !.slavecount = Count,
                                       !.slave = [i \in 1 .. Count |-> NewSlave]]
                  ELSE context
    /\ Goto(IF Count < EC_MAXSLAVE THEN "address" ELSE "exceeded")
    /\ UNCHANGED bus

-------------------------------------------------------------------------------
\* What of the datagrams of a step is lost.
LostOf(datagrams) ==
    {{}} \cup (IF Cardinality(bus.lost) < MaxLost THEN {{d} : d \in datagrams} ELSE {})
Note(lost) == bus.lost \cup {<<me.slave, d>> : d \in lost}

NextSlave(m, pass) ==
    LET next == IF m.slave < context.slavecount THEN m.slave + 1 ELSE 1
    IN  /\ me' = [m EXCEPT !.slave = next]
        /\ Goto(IF next = 1 THEN pass ELSE pc)

\* The request for a word may be lost (ask), and then the word asked for before
\* is there to be read; or the answer (get), and it is zero.
Asked(s, word, lost) == IF "ask" \in lost THEN bus.asked[s] ELSE word
Got(s, word, lost) ==
    LET w == bus.asked[s]
        there == bus.device[s].word[w]
    IN  CASE "get" \in lost \/ w = "none" -> Empty(word)
          [] Number(w) = Number(word) -> there
          [] OTHER -> [address |-> there, length |-> 0]

\* The buffers of alias and status are not cleared from slave to slave.
Address ==
    /\ At("address")
    /\ \E lost \in LostOf({"alias", "estat", "ask"}) :
         LET s == me.slave
             d == bus.device[s]
             read == [alias |-> IF "alias" \in lost THEN me.last.alias ELSE d.alias,
                      eep_8byte |-> IF "estat" \in lost THEN me.last.eep_8byte
                                    ELSE d.eep_8byte]
         IN  /\ bus' = [bus EXCEPT !.addr[s] = 4096 + s, !.lost = Note(lost),
                                   !.asked[s] = Asked(s, "man", lost)]
             /\ context' = [context EXCEPT
                  !.slave[s].configadr = 4096 + s,
                  !.slave[s].alias = read.alias,
                  !.slave[s].eep_8byte = read.eep_8byte]
             /\ NextSlave([me EXCEPT !.last = read], "man")

\* One of the passes that read a word and ask for the next.
Pass(word, next, asks(_)) ==
    /\ At(word)
    /\ \E lost \in LostOf({"ask", "get"}) :
         LET s == me.slave
             got == Got(s, word, lost)
         IN  /\ context' = [context EXCEPT !.slave[s][word] = got]
             /\ bus' = [bus EXCEPT !.lost = Note(lost),
                          !.asked[s] = IF asks(got) THEN Asked(s, next, lost) ELSE @]
    /\ NextSlave(me, IF next = "tx" THEN "own" ELSE next)

Always(got) == TRUE
PassMan == Pass("man", "id", Always)
PassId  == Pass("id", "rev", Always)
PassRev == Pass("rev", "rx", Always)
PassRx  == Pass("rx", "tx", LAMBDA got : got.length > 0)

-------------------------------------------------------------------------------
(* The last pass *)

\* Variant: the search goes up only from ends of lines.
Open_Ends(topology) == IF topology = 1 THEN -1 ELSE 0
\* How many branches a slave closes or opens.
Open(topology) == CASE topology = 1 -> -1 [] topology = 3 -> 1 [] topology = 4 -> 2 [] OTHER -> 0

\* Backwards to the first slave with a branch that is still open.
Parent(slaves, s) ==
    LET topoc(i) == FoldLeft(LAMBDA x, k : x + Open(slaves[k].topology), 0,
                             [k \in 1 .. s - i |-> i + k - 1])
        found == {i \in 1 .. s - 1 : i = 1 \/ (topoc(i) >= 0 /\ slaves[i].topology > 1)}
    IN  IF s = 1 THEN 0 ELSE Max(found)

Same(x, y) == x.man = y.man /\ x.id = y.id /\ x.rev = y.rev

\* The slaves before this one with its identity.
lookup_prev_sii(slaves, s) == {i \in 1 .. s - 1 : Same(slaves[i], slaves[s])}

\* What the SII says of the slave, and what slave 0 sums up.
Informed(c, s, info) ==
    [c EXCEPT !.slave[s].info = info,
              !.block = IF info.block THEN @ + 1 ELSE @,
              !.ebus = @ + info.ebus]

\* ec_findconfig: the table is searched for manufacturer and id.
findconfig(slave) == \E d \in ToSet(bus.device) :
    d.table /\ d.word.man = slave.man /\ d.word.id = slave.id

\* From the table (ecx_config_from_table), the first slave of the same identity
\* with its sync managers, or the SII.
Configure(c, s) ==
    LET d == bus.device[s]
        before == lookup_prev_sii(c.slave, s)
        from == c.slave[Min(before)]
    IN  CASE me.usetable /\ findconfig(c.slave[s]) ->
               [c EXCEPT !.slave[s].configindex = TRUE]
          [] before # {} -> [Informed(c, s, from.info) EXCEPT !.slave[s].SM = from.SM]
          [] OTHER -> [Informed(c, s, d.info) EXCEPT
                         !.slave[s].SM = IF d.info.SM = <<>> THEN @ ELSE d.info.SM]

\* Mailboxes without an address have a default one.
Proper(sm) == <<IF sm[1] = 0 THEN 4096 ELSE sm[1], IF sm[2] = 0 THEN 4224 ELSE sm[2]>>

\* A mailbox of no length is as long as the other.
TxOf(got, rx) == [got EXCEPT !.length = IF @ = 0 THEN rx.length ELSE @]

Own ==
    /\ At("own")
    /\ \E lost \in LostOf({"get", "ask", "get proto", "dc", "topology"}) :
         LET s == me.slave
             d == bus.device[s]
             old == context.slave[s]
             mbx == old.rx.length > 0
             asked == IF mbx THEN Asked(s, "proto", lost) ELSE bus.asked[s]
             tx == IF mbx THEN TxOf(Got(s, "tx", lost), old.rx) ELSE old.tx
             proto == CASE "get proto" \in lost -> 0
                        [] Number(asked) -> d.word[asked]
                        [] OTHER -> d.word[asked].address
             new == [old EXCEPT
                       !.tx = tx, !.proto = IF mbx THEN proto ELSE @,
                       !.SM = IF mbx THEN <<old.rx.address, tx.address>> ELSE @,
                       !.hasdc = "dc" \notin lost /\ d.dc,
                       !.topology = IF "topology" \in lost THEN 0 ELSE d.links]
             placed == [context EXCEPT !.slave[s] =
                          [new EXCEPT !.parent = Parent([context.slave EXCEPT ![s] = new], s)]]
             known == Configure(placed, s)
             sm == IF mbx THEN Proper(known.slave[s].SM) ELSE known.slave[s].SM
         IN  /\ context' = [known EXCEPT !.slave[s].SM = sm, !.slave[s].eep_pdi = TRUE]
             /\ bus' = [bus EXCEPT !.lost = Note(lost), !.asked[s] = asked,
                          !.sm[s] = IF mbx THEN sm ELSE @, !.preop = @ \cup {s}]
    /\ NextSlave(me, "done")

Master == detect_slaves \/ Address \/ PassMan \/ PassId \/ PassRev \/ PassRx \/ Own
Next == StartDiscovery \/ Master

-------------------------------------------------------------------------------
Missing(datagrams) == \E l \in bus.lost : l[2] \in datagrams
Done == scenario = "discovery" /\ pc = "done"

\* The tree that is found is that of the cables, for every tree of splits and
\* crossings, when the links of every slave could be read.
TreeIsFound == Done /\ ~Missing({"topology"}) =>
    \A s \in 1 .. Count : context.slave[s].parent = bus.device[s].parent

\* What is noted of a slave is its own, copied from a slave of its identity or
\* not, when no word of the EEPROMs was lost; and the sums in slave 0 are those
\* of the slaves in any case.
InfoIsOwn == Done =>
    /\ ~Missing({"ask", "get"}) => \A s \in 1 .. Count :
         LET d == bus.device[s]
             slave == context.slave[s]
             mbx == d.word.rx.length > 0
             words == IF mbx THEN <<d.word.rx.address, d.word.tx.address>> ELSE <<0, 0>>
         IN  /\ Same(slave, d.word) /\ slave.rx = d.word.rx
             /\ slave.configindex <=> me.usetable /\ d.table
             /\ ~slave.configindex => slave.info = d.info
             /\ mbx => /\ slave.tx = TxOf(d.word.tx, d.word.rx)
                       /\ ~Missing({"get proto"}) => slave.proto = d.word.proto
                       /\ bus.sm[s] = Proper(IF slave.configindex \/ d.info.SM = <<>>
                                             THEN words ELSE d.info.SM)
    /\ context.block = Cardinality({s \in 1 .. Count : context.slave[s].info.block})
    /\ context.ebus = FoldLeft(LAMBDA x, s : x + context.slave[s].info.ebus, 0,
                               [s \in 1 .. Count |-> s])
===============================================================================
