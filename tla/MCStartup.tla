------------------------------- MODULE MCStartup --------------------------------
(* What prepares the slaves, side by side: a behaviour is about the EEPROM, the *)
(* SII, the size of the process data, the discovery of a bus, the recovery of   *)
(* slaves, or their clocks.  The constants that are sets of devices are below.  *)
EXTENDS Calls

CONSTANTS Slaves, Words, EC_MAXEEPBUF, Eight, MaxCalls, MaxFaults,
          EC_MAXSM, EC_MAXEEPDO, EC_MAXNAME,
          EC_MAXSLAVE, MaxLost,
          Units, MaxMissed, MaxPower,
          Cycles, SyncDelay, Int32, MaxTime, MaxSyncs, MaxSynced, MaxMissing

-------------------------------------------------------------------------------
(* SII: categories in several orders, and more of a thing than there is room.   *)

Entry(index, sm, bits) == [index |-> index, sm |-> sm, bits |-> bits]
SyncManagers == <<[start |-> 4096, length |-> 128, control |-> 38, activate |-> 1],
                  [start |-> 4224, length |-> 300, control |-> 34, activate |-> 1],
                  [start |-> 4600, length |-> 6, control |-> 100, activate |-> 1]>>
PDOs == {<<Entry(6656, 1, <<>>)>>, <<Entry(6656, 0, <<16, 8>>)>>,
         <<Entry(6657, 255, <<32>>), Entry(6658, 2, <<1, 7>>),
           Entry(6659, 2, <<16>>), Entry(6660, 1, <<8>>)>>}
TheDevices ==
    [strings : {<<>>, << <<65>> >>, << <<65, 66>>, <<>>, <<67, 68, 69, 70>> >>},
     fmmu : {<<1>>, <<1, 2>>, <<1, 2, 3>>, <<2, 1, 3, 3, 1>>},
     sm : {SubSeq(SyncManagers, 1, 1), SyncManagers},
     pdo : [{0, 1} -> PDOs],
     order : {<<>>, <<30>>, <<10, 40, 41, 50, 51>>, <<51, 50, 30, 10, 41, 40>>,
              <<30, 41, 10>>, <<50>>, <<51, 40>>}]

-------------------------------------------------------------------------------
(* Process data: slaves with CoE and without, complete access, drives, a table. *)

SM(start, length, type) ==
    [start |-> start, length |-> length, type |-> type, enabled |-> length > 0]
MailboxSM == [sm \in 0 .. 4 |-> CASE sm = 0 -> SM(1, 8, 1) [] sm = 1 -> SM(2, 8, 2)
                                  [] sm = 2 -> SM(3, 2, 3) [] sm = 3 -> SM(4, 1, 4)
                                  [] OTHER -> SM(0, 0, 0)]
PlainSM == [sm \in 0 .. 4 |-> CASE sm = 0 -> SM(1, 1, 0) [] sm = 1 -> SM(2, 1, 0)
                                [] OTHER -> SM(0, 0, 0)]
NoBits == [sm \in 0 .. 4 |-> 0]
OutIn(out, in) == [sm \in 2 .. 3 |-> IF sm = 2 THEN out ELSE in]
SiiBits(out, in) == [out |-> out, in |-> in]
NoTable == [found |-> FALSE, Obits |-> 0, Ibits |-> 0, SM2a |-> 0, SM3a |-> 0]
Device(id, protocols, sm) ==
    [id |-> id, mbx_proto |-> protocols, SDOCA |-> TRUE, types |-> <<1, 2>>,
     role |-> OutIn("out", "in"), assign |-> OutIn(<<>>, <<>>), drives |-> <<>>,
     sii |-> SiiBits(NoBits, NoBits), SM |-> sm, table |-> NoTable]
CoE(id, ca, types, assign) ==
    [Device(id, {"CoE"}, MailboxSM) EXCEPT !.SDOCA = ca, !.types = types, !.assign = assign]
TwoPDOs == OutIn(<<<<16, 8>>, <<4>>>>, <<<<8>>>>)
DeviceKinds == {
  CoE(1, TRUE, <<1, 2, 3, 4>>, TwoPDOs),
  CoE(2, FALSE, <<1, 2, 3, 4>>, OutIn(<<>>, <<<<8>>, <<16>>>>)),
  CoE(3, TRUE, <<0, 1, 2, 3>>, OutIn(<<<<16>>>>, <<<<255>>>>)),
  CoE(4, FALSE, <<1, 2, 0, 0>>, OutIn(<<<<16>>>>, <<<<8>>>>)),
  [Device(5, {"CoE", "SoE"}, MailboxSM) EXCEPT
     !.drives = <<[out |-> <<32>>, in |-> <<>>], [out |-> <<>>, in |-> <<16, 32>>]>>],
  [Device(6, {}, PlainSM) EXCEPT !.sii = SiiBits([NoBits EXCEPT ![0] = 4], NoBits)],
  [Device(7, {}, PlainSM) EXCEPT
     !.sii = SiiBits([NoBits EXCEPT ![0] = 8], [NoBits EXCEPT ![1] = 12])],
  [Device(8, {"CoE"}, MailboxSM) EXCEPT
     !.sii = SiiBits([NoBits EXCEPT ![2] = 8], [NoBits EXCEPT ![3] = 12])],
  [Device(9, {}, PlainSM) EXCEPT
     !.table = [found |-> TRUE, Obits |-> 4, Ibits |-> 12, SM2a |-> 0, SM3a |-> 0]],
  [CoE(10, TRUE, <<1, 2, 3, 4>>, TwoPDOs) EXCEPT
     !.table = [found |-> TRUE, Obits |-> 20, Ibits |-> 12, SM2a |-> 4, SM3a |-> 5]]}

-------------------------------------------------------------------------------
(* Trees of cables, a slave numbered when the frame first passes it.            *)

RECURSIVE Ancestors(_, _)
Ancestors(tree, i) == IF i = 0 THEN {} ELSE {i} \cup Ancestors(tree, tree[i])
Children(tree, i) == {j \in DOMAIN tree : tree[j] = i}
Trees(n) == {tree \in [1 .. n -> 0 .. n - 1] :
               /\ tree[1] = 0
               /\ \A i \in 2 .. n : tree[i] \in Ancestors(tree, i - 1) \ {0}
               /\ \A i \in 1 .. n : Cardinality(Children(tree, i)) <= 3}

(* Discovery: all trees of up to six slaves of one kind, and lines of all kinds. *)

Mbx(address, length) == [address |-> address, length |-> length]
Identity(man, id, rev, rx, tx, proto) ==
    [man |-> man, id |-> id, rev |-> rev, rx |-> rx, tx |-> tx, proto |-> proto]
About(rest, block, ebus, sm) == [rest |-> rest, block |-> block, ebus |-> ebus, SM |-> sm]
Slave(alias, eight, word, info, table) ==
    [alias |-> alias, eep_8byte |-> eight, word |-> word, info |-> info,
     table |-> table, dc |-> TRUE]
PlainSlave == Slave(3, FALSE, Identity(5, 3, 1, Mbx(0, 0), Mbx(0, 0), 0),
                    About("c", FALSE, 9, <<4000, 5000>>), FALSE)
SlaveKinds == {
  Slave(1, TRUE, Identity(2, 3, 1, Mbx(4096, 128), Mbx(4224, 0), 4),
        About("a", TRUE, 5, <<>>), FALSE),
  Slave(2, FALSE, Identity(2, 3, 4, Mbx(4096, 128), Mbx(4352, 256), 12),
        About("b", FALSE, 7, <<4096, 4352>>), FALSE),
  PlainSlave,
  Slave(4, FALSE, Identity(5, 6, 1, Mbx(4096, 128), Mbx(0, 64), 4),
        About("d", FALSE, 9, <<>>), TRUE)}
Placed(kinds, tree) ==
    [i \in DOMAIN tree |-> kinds[i] @@ [links |-> 1 + Cardinality(Children(tree, i)),
                                        parent |-> tree[i]]]
TheBuses == {Placed([i \in DOMAIN tree |-> PlainSlave], tree) : tree \in Trees(5) \cup Trees(6)}
       \cup {Placed(kinds, [i \in 1 .. 3 |-> i - 1]) : kinds \in [1 .. 3 -> SlaveKinds]}

(* Clocks: all trees of up to four slaves with and without a clock; up to three *)
(* with every choice of ports.                                                  *)

Delays == <<1, 3, 2, 4>>
AnyPorts(children) ==
    IF children = 0 THEN {<<0, {0}>>, <<3, {3}>>, <<2, {2}>>}
    ELSE {<<0, {0} \cup out>> : out \in {x \in SUBSET {1, 2, 3} : Cardinality(x) = children}}
SomePorts(children) ==
    CASE children = 0 -> {<<1, {1}>>} [] children = 1 -> {<<0, {0, 1}>>}
      [] children = 2 -> {<<0, {0, 1, 3}>>, <<0, {0, 2, 3}>>} [] OTHER -> AnyPorts(3)
LinesOn(tree, Ports(_)) ==
    {[i \in DOMAIN tree |-> [parent |-> tree[i], entry |-> ports[i][1],
                             ports |-> ports[i][2], dc |-> clocks[i],
                             delay |-> Delays[i], base |-> 7 * i - 9]]
       : clocks \in [DOMAIN tree -> BOOLEAN],
         ports \in {f \in [DOMAIN tree -> UNION {Ports(k) : k \in 0 .. 3}] :
                      \A i \in DOMAIN tree : f[i] \in Ports(Cardinality(Children(tree, i)))}}
ClockLines ==
    UNION {LinesOn(tree, AnyPorts) : tree \in Trees(1) \cup Trees(2) \cup Trees(3)}
    \cup UNION {LinesOn(tree, SomePorts) : tree \in Trees(4)}

-------------------------------------------------------------------------------
EE == INSTANCE Eeprom
SI == INSTANCE Sii WITH Devices <- TheDevices
PM == INSTANCE PdoMap WITH Lines <- {<<a, b>> : a, b \in DeviceKinds}
DI == INSTANCE Discovery WITH Buses <- TheBuses
RE == INSTANCE Recovery
DC == INSTANCE DC WITH Lines <- ClockLines, Shifts <- {-1, 2}

Next == EE!Next \/ SI!Next \/ PM!Next \/ DI!Next \/ RE!Next \/ DC!Next
Spec == Init /\ [][Next]_vars
FairSpec == Spec /\ WF_vars(EE!Master) /\ WF_vars(EE!CommandEnds)

\* What is read of an EEPROM is what it has there: word by word, in parallel from
\* all slaves, and byte by byte through the cache; and the control of an EEPROM goes
\* back to PDI when it came from there.
EepromIsRead == EE!CacheIsRom /\ EE!WordIsOwn /\ EE!ControlReturned

\* What is found in the SII is what the manufacturer wrote there.
SiiIsDevice == SI!SiiIsDevice

\* The sizes of the process data are those of the slave, and sync managers have
\* the lengths for it.
MappingIsSlaves == PM!SizesAreSlaves /\ PM!LengthsCarrySizes

\* The tree of cables is found, and what is noted of each slave is its own.
BusIsFound == DI!TreeIsFound /\ DI!InfoIsOwn

\* Slaves come back under their own addresses, ready when it is said that they are.
RecoveredIsOwn == RE!AddressIsOwn /\ RE!RecoveredIsReady

\* The clocks of all slaves show one time; sync pulses fall together, and begin in the
\* future.
ClocksAgree == DC!ClocksAgree /\ DC!PulsesOnGrid

\* Every call for an EEPROM returns, whatever is lost and whichever slave leaves;
\* but a slave that does not acknowledge a command and then answers no more keeps
\* ecx_readeepromFP for ever.
EepromReturns == scenario = "eeprom" /\ pc # "idle" ~> (pc \in {"idle", "sii"} \/ EE!InNack)
===============================================================================
