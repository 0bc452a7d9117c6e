--------------------------------- MODULE PdoMap --------------------------------
(* ecx_config_find_mappings: how many bits each slave exchanges, asked by CoE   *)
(* with and without complete access, by SoE, copied from a slave of the same   *)
(* identity, or from the SII; then the sync managers are programmed.           *)
(* A read of an object or an IDN is one of its address: it answers what the    *)
(* slave has there, or it fails and leaves the zero it began with.             *)
EXTENDS Calls

CONSTANTS Lines,      \* the sequences of devices on the bus, see Start below
          MaxLost     \* bound: reads that fail

SumOf(seq) == FoldLeft(LAMBDA x, y : x + y, 0, seq)
\* Variant: bits that do not fill a byte are left out.
Bytes_Down(bits) == bits \div 8
Bytes(bits) == (bits + 7) \div 8
Lost(key) == key \in me.lost

-------------------------------------------------------------------------------
(* CoE.  A device has the types of its sync managers, from 0, and for each of   *)
(* them the PDOs assigned to it, each the sequence of its entries' bits.       *)

readPDOassign(d, sm) ==
    IF Lost(<<"assign", sm>>) THEN 0
    ELSE SumOf([k \in DOMAIN d.assign[sm] |->
           IF Lost(<<"assign", sm, k>>) \/ Lost(<<"pdo", sm, k>>) THEN 0
           ELSE SumOf([j \in DOMAIN d.assign[sm][k] |->
                  IF Lost(<<"pdo", sm, k, j>>) THEN 0 ELSE d.assign[sm][k][j]])])

readPDOassignCA(d, sm) ==
    IF Lost(<<"assign CA", sm>>) THEN 0
    ELSE SumOf([k \in DOMAIN d.assign[sm] |->
                  IF Lost(<<"pdo CA", sm, k>>) THEN 0 ELSE SumOf(d.assign[sm][k])])

\* Slaves that number the types of 2 and 3 too low are corrected.
Bug(d) == Len(d.types) > 2 /\ d.types[3] = 2
Added(d, t) == IF t > 0 /\ Bug(d) THEN t + 1 ELSE t
Type(d, sm) == LET t == Added(d, d.types[sm + 1])
               IN  CASE t = 0 /\ sm = 2 -> 3 [] t = 0 /\ sm = 3 -> 4 [] OTHER -> t
TypeCA(d, sm) == Added(d, d.types[sm + 1])

Nothing == [Obits |-> 0, Ibits |-> 0]

\* What is known of a slave after the sync manager sm was found to be of a type,
\* with a number of bits assigned.
Typed(s, sm, t, bits) ==
    LET typed == [s EXCEPT !.SM[sm].type = t, !.SM[sm].enabled = @ /\ t # 0]
    IN  IF t \notin {3, 4} \/ bits = 0 THEN typed
        ELSE [typed EXCEPT !.SM[sm].length = Bytes(bits),
                           !.Obits = IF t = 3 THEN @ + bits ELSE @,
                           !.Ibits = IF t = 4 THEN @ + bits ELSE @]

\* The sync managers from 2 on.
Managers(d) == [i \in 1 .. Max({Len(d.types) - 2, 0}) |-> i + 1]

readPDOmap(s, d) ==
    LET One(r, sm) == IF Lost(<<"type", sm>>) THEN r
                      ELSE Typed(r, sm, Type(d, sm), readPDOassign(d, sm))
        begin == [s EXCEPT !.Obits = 0, !.Ibits = 0]
    IN  IF Lost(<<"types">>) THEN begin ELSE FoldLeft(One, begin, Managers(d))

readPDOmapCA(s, d) ==
    LET One(r, sm) == Typed(r, sm, TypeCA(d, sm), readPDOassignCA(d, sm))
        begin == [s EXCEPT !.Obits = 0, !.Ibits = 0]
    IN  IF Lost(<<"types CA">>) THEN begin ELSE FoldLeft(One, begin, Managers(d))

-------------------------------------------------------------------------------
(* SoE: each drive has the IDNs of its outputs and inputs by their bits, and a  *)
(* command or status word of 16 bits in front that no list names.              *)

IdnBits(d, drive, way) ==
    LET list == d.drives[drive][way]
    IN  IF Lost(<<"idn", drive, way>>) \/ list = <<>> THEN 0
        ELSE 16 + SumOf([k \in DOMAIN list |->
                    IF Lost(<<"attribute", drive, way, k>>) THEN 0 ELSE list[k]])

readIDNmap(s, d) ==
    LET O == SumOf([i \in DOMAIN d.drives |-> IdnBits(d, i, "out")])
        I == SumOf([i \in DOMAIN d.drives |-> IdnBits(d, i, "in")])
    IN  [s EXCEPT !.Obits = O, !.Ibits = I,
                  !.SM[2].length = Bytes(O), !.SM[3].length = Bytes(I)]

-------------------------------------------------------------------------------
(* One slave after the other *)

Unmapped(s) == s.Obits = 0 /\ s.Ibits = 0

map_coe(s, d) ==
    IF "CoE" \notin d.mbx_proto THEN [s EXCEPT !.Obits = 0, !.Ibits = 0]
    ELSE LET ca == IF d.SDOCA THEN readPDOmapCA(s, d) ELSE s
         IN  IF d.SDOCA /\ ~Unmapped(ca) THEN ca ELSE readPDOmap(ca, d)

map_coe_soe(s, d) ==
    LET coe == map_coe(s, d)
    IN  IF d.table.found THEN s
        ELSE IF Unmapped(coe) /\ "SoE" \in d.mbx_proto THEN readIDNmap(coe, d) ELSE coe

\* The first slave of the same identity that comes before this one.
SameBefore(slave) == {i \in 1 .. slave - 1 : bus.line[i].id = bus.line[slave].id}

\* ecx_lookup_mapping takes sizes, lengths and types of the sync managers.
lookup_mapping(slave) ==
    LET s == context.slave[slave]
        from == context.slave[Min(SameBefore(slave))]
    IN  IF SameBefore(slave) = {} THEN s
        ELSE [s EXCEPT !.Obits = from.Obits, !.Ibits = from.Ibits,
                       !.SM = [sm \in DOMAIN @ |->
                                 [@[sm] EXCEPT !.length = from.SM[sm].length,
                                               !.type = from.SM[sm].type]]]

\* d.sii: for outputs and inputs, the bits of each sync manager.
SiiSizes(s, d) ==
    LET Sized(r, way, t) ==
          [r EXCEPT !.SM = [sm \in DOMAIN @ |->
             IF d.sii[way][sm] = 0 THEN @[sm]
             ELSE [@[sm] EXCEPT !.length = Bytes(d.sii[way][sm]), !.type = t]]]
        Bits(way) == FoldFunction(LAMBDA x, y : x + y, 0, d.sii[way])
    IN  [Sized(Sized(s, "in", 4), "out", 3) EXCEPT !.Obits = Bits("out"),
                                                   !.Ibits = Bits("in")]

map_sii(slave) ==
    LET s == context.slave[slave]
        found == IF Unmapped(s) THEN lookup_mapping(slave) ELSE s
    IN  IF Unmapped(found) THEN SiiSizes(found, bus.line[slave]) ELSE found

\* The sync managers that have an address; 0 and 1 only when they are no mailbox.
Programmed(s, d) == {sm \in DOMAIN s.SM : s.SM[sm].start > 0
                                          /\ (sm < 2 => d.mbx_proto = {})}
map_sm(s, d) ==
    [s EXCEPT !.SM = [sm \in DOMAIN @ |->
        IF sm \in Programmed(s, d) /\ sm >= 2
        THEN [@[sm] EXCEPT !.enabled = s.SM[sm].length > 0] ELSE @[sm]]]

-------------------------------------------------------------------------------
\* A slave of ec_configlist: its data are in the sync managers 2 and 3, or when
\* these have no address in 0 and 1.
Manager(start, bits, type, enabled) ==
    [start |-> start, length |-> Bytes(bits), type |-> type, enabled |-> enabled]

config_from_table(SM, e) ==
    [Obits |-> e.Obits, Ibits |-> e.Ibits,
     SM |-> [sm \in DOMAIN SM |->
        CASE ~e.found -> SM[sm]
          [] sm = 0 /\ e.Obits > 0 /\ e.SM2a = 0 -> Manager(3840, e.Obits, 3, TRUE)
          [] sm = 1 /\ e.Ibits > 0 /\ e.SM3a = 0 -> Manager(4096, e.Ibits, 4, FALSE)
          [] sm = 2 /\ ~(e.Obits > 0 /\ e.SM2a = 0) -> Manager(e.SM2a, e.Obits, 3, TRUE)
          [] sm = 3 /\ ~(e.Ibits > 0 /\ e.SM3a = 0) -> Manager(e.SM3a, e.Ibits, 4, TRUE)
          [] OTHER -> SM[sm]]]

\* A bus as ecx_config_init leaves it: what the SII says of the sync managers.
StartPdoMap ==
    scenario = "none" /\ \E line \in Lines :
      Start("pdomap",
            [slave |-> [i \in DOMAIN line |->
                          config_from_table(line[i].SM, line[i].table)]],
            [line |-> line, programmed |-> [i \in DOMAIN line |-> <<>>]])

At(label) == In("pdomap", label)

\* Every read that a device answers.
Reads(d) ==
    {<<"types">>, <<"types CA">>}
    \cup {<<"type", sm>> : sm \in DOMAIN d.assign}
    \cup UNION {{<<"assign", sm>>, <<"assign CA", sm>>} : sm \in DOMAIN d.assign}
    \cup UNION {UNION {{<<"assign", sm, k>>, <<"pdo", sm, k>>, <<"pdo CA", sm, k>>,
                        <<"pdo", sm, k, 1>>} : k \in DOMAIN d.assign[sm]}
                : sm \in DOMAIN d.assign}
    \cup UNION {{<<"idn", i, way>>, <<"attribute", i, way, 1>>}
                : i \in DOMAIN d.drives, way \in {"out", "in"}}

find_mappings ==
    /\ At("idle") /\ me = NoCall
    /\ \E lost \in {{}} \cup UNION {{{<<i, k>>} : k \in Reads(bus.line[i])} : i \in DOMAIN bus.line} :
         /\ Cardinality(lost) <= MaxLost
         /\ me' = [service |-> "map", slave |-> 1, faults |-> lost,
                   lost |-> {f[2] : f \in {g \in lost : g[1] = 1}}]
    /\ Goto("coe_soe") /\ UNCHANGED <<context, bus>>

\* On to the next slave, or to the next pass.
NextSlave(pass) ==
    LET next == IF me.slave < Len(bus.line) THEN me.slave + 1 ELSE 1
    IN  /\ me' = [me EXCEPT !.slave = next,
                            !.lost = {f[2] : f \in {g \in me.faults : g[1] = next}}]
        /\ Goto(IF next = 1 THEN pass ELSE pc)

MapCoeSoe ==
    /\ At("coe_soe")
    /\ context' = [context EXCEPT !.slave[me.slave] = map_coe_soe(@, bus.line[me.slave])]
    /\ NextSlave("sii") /\ UNCHANGED bus

MapSii ==
    /\ At("sii")
    /\ LET d == bus.line[me.slave]
           new == map_sm(map_sii(me.slave), d)
       IN  /\ context' = [context EXCEPT !.slave[me.slave] = new]
           /\ bus' = [bus EXCEPT !.programmed[me.slave] =
                        [sm \in Programmed(new, d) |-> new.SM[sm]]]
    /\ NextSlave("done")

Master == find_mappings \/ MapCoeSoe \/ MapSii
Next == StartPdoMap \/ Master

-------------------------------------------------------------------------------
\* What a device exchanges in the direction of a sync manager's role: said by
\* CoE, or else by SoE, or else by its SII.
CoEBits(d, role) == IF "CoE" \notin d.mbx_proto THEN 0
    ELSE SumOf([i \in DOMAIN Managers(d) |->
           LET sm == Managers(d)[i]
           IN  IF d.role[sm] = role THEN SumOf(FlattenSeq(d.assign[sm])) ELSE 0])
SoEBits(d, role) == IF "SoE" \notin d.mbx_proto THEN 0
    ELSE SumOf([i \in DOMAIN d.drives |->
           IF d.drives[i][role] = <<>> THEN 0 ELSE 16 + SumOf(d.drives[i][role])])
SiiBits(d, role) == FoldFunction(LAMBDA x, y : x + y, 0, d.sii[role])
Exchanged(d, role) ==
    CASE d.table.found -> IF role = "out" THEN d.table.Obits ELSE d.table.Ibits
      [] CoEBits(d, "out") + CoEBits(d, "in") > 0 -> CoEBits(d, role)
      [] SoEBits(d, "out") + SoEBits(d, "in") > 0 -> SoEBits(d, role)
      [] OTHER -> SiiBits(d, role)

\* When every read was answered, the sizes noted for each slave are those of its
\* own device, by whichever protocol it says them, copied or not, also when it
\* numbers the types of its sync managers wrongly.
SizesAreSlaves == scenario = "pdomap" /\ pc = "done" /\ me.faults = {} =>
    \A i \in DOMAIN bus.line :
       /\ context.slave[i].Obits = Exchanged(bus.line[i], "out")
       /\ context.slave[i].Ibits = Exchanged(bus.line[i], "in")

\* Also when a read failed: the sync managers of a direction are long enough for
\* the bits noted, and the slave was given what was noted, enabled if it has a
\* length.
Room(s, t) == SumOf([sm \in 1 .. Cardinality(DOMAIN s.SM) |->
                       IF s.SM[sm - 1].type = t THEN 8 * s.SM[sm - 1].length ELSE 0])
LengthsCarrySizes == scenario = "pdomap" /\ pc = "done" =>
    \A i \in DOMAIN bus.line :
       LET s == context.slave[i]
       IN  /\ Room(s, 3) >= s.Obits /\ Room(s, 4) >= s.Ibits
           /\ \A sm \in DOMAIN bus.programmed[i] :
                /\ bus.programmed[i][sm] = s.SM[sm]
                /\ sm >= 2 => (s.SM[sm].enabled <=> s.SM[sm].length > 0)
===============================================================================
