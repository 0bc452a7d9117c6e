---------------------------------- MODULE Sii ----------------------------------
(* The readers of the slave information in the EEPROM: ecx_siifind and those   *)
(* that use it.  How a byte comes from the EEPROM is in the module Eeprom; here *)
(* the EEPROM is its bytes, and each function a function of them.              *)
EXTENDS Calls

CONSTANTS Devices,      \* what the manufacturers wrote, see Contents
          EC_MAXSM, EC_MAXEEPDO, EC_MAXNAME

ECT_SII_STRING == 10
ECT_SII_FMMU   == 40
ECT_SII_SM     == 41
ECT_SII_PDO    == 50

-------------------------------------------------------------------------------
(* The EEPROM, external: sections of a category, a length in words and the     *)
(* words, in any order, and erased bytes after the last.                       *)

Low(w)  == w % 256
High(w) == w \div 256
Even(s) == IF Len(s) % 2 = 0 THEN s ELSE Append(s, 255)
Section(cat, content) == LET words == Even(content)
    IN  <<Low(cat), High(cat), Low(Len(words) \div 2), High(Len(words) \div 2)>> \o words

StringBytes(s) == <<Len(s)>> \o s
SMBytes(sm) == <<Low(sm.start), High(sm.start), Low(sm.length), High(sm.length),
                 sm.control, 0, sm.activate, 0>>
EntryBytes(bits) == <<1, 2, 3, 4, 5, bits, 7, 8>>
PDOBytes(pdo) == <<Low(pdo.index), High(pdo.index), Len(pdo.bits), pdo.sm, 0, 0, 0, 0>>
                   \o FlattenSeq([i \in DOMAIN pdo.bits |-> EntryBytes(pdo.bits[i])])
Each(Bytes(_), seq) == FlattenSeq([i \in DOMAIN seq |-> Bytes(seq[i])])

Contents(d, cat) ==
    CASE cat = ECT_SII_STRING  -> <<Len(d.strings)>> \o Each(StringBytes, d.strings)
      [] cat = ECT_SII_FMMU    -> d.fmmu
      [] cat = ECT_SII_SM      -> Each(SMBytes, d.sm)
      [] cat = ECT_SII_PDO     -> Each(PDOBytes, d.pdo[0])
      [] cat = ECT_SII_PDO + 1 -> Each(PDOBytes, d.pdo[1])
      [] OTHER -> <<1, 2, 3, 4>>

Sections(d) == FlattenSeq([i \in DOMAIN d.order |-> Section(d.order[i], Contents(d, d.order[i]))])

-------------------------------------------------------------------------------
(* Bytes *)

ECT_SII_START == 64
CacheBytes == 4096   \* EC_MAXEEPBUF

\* ecx_siigetbyte, whatever it took to read the byte.
siigetbyte(rom, a) ==
    LET i == a - 2 * ECT_SII_START + 1
    IN  IF a < CacheBytes /\ i \in DOMAIN rom THEN rom[i] ELSE 255

Word(rom, a) == siigetbyte(rom, a) + 256 * siigetbyte(rom, a + 1)

\* From section to section; the address of the length, or 0.
siifind(rom, cat) ==
    LET From[a \in 0 .. 65535] ==
          LET p == Word(rom, a)
          IN  CASE p = cat -> a + 2
                [] p = 65535 -> 0
                [] OTHER -> From[(a + 4 + 2 * Word(rom, a + 2)) % 65536]
    IN  From[2 * ECT_SII_START]

\* The string of a number, cut to EC_MAXNAME; none leaves the caller's buffer.
siistring(rom, sn) ==
    LET a == siifind(rom, ECT_SII_STRING) + 2
        Nth[i \in 1 .. sn] ==
          IF i = 1 THEN a + 1 ELSE Nth[i - 1] + 1 + siigetbyte(rom, Nth[i - 1])
        l == siigetbyte(rom, Nth[sn])
    IN  IF a = 2 THEN <<"unset">>
        ELSE IF sn > siigetbyte(rom, a) \/ sn = 0 THEN <<>>
        ELSE [j \in 1 .. Min({l, EC_MAXNAME}) |-> siigetbyte(rom, Nth[sn] + j)]

siiFMMU(rom) ==
    LET a == siifind(rom, ECT_SII_FMMU)
        n == 2 * Word(rom, a)
    IN  IF a = 0 THEN [n |-> 0, func |-> <<0, 0, 0, 0>>]
        ELSE [n |-> n, func |-> [i \in 1 .. 4 |->
               IF i > 2 /\ n <= 2 THEN 0 ELSE siigetbyte(rom, a + 1 + i)]]

siiSM(rom) == LET a == siifind(rom, ECT_SII_SM)
    IN  [startpos |-> a, nSM |-> IF a = 0 THEN 0 ELSE (Word(rom, a) \div 4) % 256]

\* The sync manager n, counted from 0.
siiSMnext(rom, sm, n) ==
    LET a == sm.startpos + 2 + 8 * n
    IN  [start |-> Word(rom, a), length |-> Word(rom, a + 2),
         control |-> siigetbyte(rom, a + 4), activate |-> siigetbyte(rom, a + 6)]

-------------------------------------------------------------------------------
(* ecx_siiPDO *)

SumBits(seq) == FoldLeft(LAMBDA x, y : x + y, 0, seq)
NoPDOs == [nPDO |-> 0, SMbitsize |-> [s \in 0 .. EC_MAXSM - 1 |-> 0], size |-> 0]

\* Variant: a PDO that no sync manager has counts, too.
Counted_All(pdo, s, bits) ==
    LET all == [pdo EXCEPT !.nPDO = @ + 1, !.size = @ + bits]
    IN  IF s < EC_MAXSM THEN [all EXCEPT !.SMbitsize[s] = @ + bits] ELSE all
\* The entries of a PDO whose sync manager is in range.
Counted(pdo, s, bits) ==
    IF s < EC_MAXSM
    THEN [pdo EXCEPT !.nPDO = @ + 1, !.size = @ + bits, !.SMbitsize[s] = @ + bits]
    ELSE [pdo EXCEPT !.nPDO = @ + 1]

RECURSIVE PDOsFrom(_, _, _, _, _)

\* From the address a and the word c on, counted from 1: the first PDO is read
\* whatever the length is.
PDOsFrom(rom, a, c, length, pdos) ==
    LET e    == siigetbyte(rom, a + 2)
        bits == SumBits([i \in 1 .. e |-> siigetbyte(rom, a + 8 * i + 5)])
        more == Counted(pdos, siigetbyte(rom, a + 3), bits)
        next == c + 4 + 4 * e
    IN  IF next >= length \/ more.nPDO >= EC_MAXEEPDO - 1 THEN more
        ELSE PDOsFrom(rom, a + 8 + 8 * e, next, length, more)

siiPDO(rom, t) ==
    LET start == siifind(rom, ECT_SII_PDO + Min({t, 1}))
    IN  IF start = 0 THEN NoPDOs
        ELSE PDOsFrom(rom, start + 2, 1, Word(rom, start), NoPDOs)

-------------------------------------------------------------------------------
(* Calls *)

StartSii == /\ scenario = "none"
            /\ \E d \in Devices : Start("sii", [device |-> d], [rom |-> Sections(d)])

Read(service, arg, value) ==
    /\ In("sii", "idle")
    /\ me' = [service |-> service, arg |-> arg, value |-> value]
    /\ Goto("done") /\ UNCHANGED <<context, bus>>

ReadString == \E sn \in 0 .. 3 : Read("string", sn, siistring(bus.rom, sn))
ReadFMMU   == Read("FMMU", 0, siiFMMU(bus.rom))
ReadPDO    == \E t \in {0, 1} : Read("PDO", t, siiPDO(bus.rom, t))
\* As ecx_config_init goes through them: the first, then the next ones.
ReadSM == LET sm == siiSM(bus.rom)
          IN  Read("SM", 0, [n \in 1 .. Min({sm.nSM, EC_MAXSM}) |->
                               siiSMnext(bus.rom, sm, n - 1)])

Return == /\ In("sii", "done") /\ me' = NoCall
          /\ Goto("idle") /\ UNCHANGED <<context, bus>>

Master == ReadString \/ ReadFMMU \/ ReadPDO \/ ReadSM \/ Return
Next == StartSii \/ Master

-------------------------------------------------------------------------------
\* What the device says, without the bytes.
Has(cat) == cat \in ToSet(context.device.order)
Bits(pdo) == SumBits(pdo.bits)
Known(t) == SubSeq(context.device.pdo[t], 1,
                   Min({Len(context.device.pdo[t]), EC_MAXEEPDO - 1}))
InSM(t, s) == SelectSeq(Known(t), LAMBDA pdo : pdo.sm = s)
BitsOf(pdos) == SumBits([i \in DOMAIN pdos |-> Bits(pdos[i])])

Said ==
    LET d == context.device
    IN  CASE me.service = "string" ->
               IF ~Has(ECT_SII_STRING) THEN <<"unset">>
               ELSE IF me.arg \in DOMAIN d.strings
                    THEN SubSeq(d.strings[me.arg], 1,
                                Min({Len(d.strings[me.arg]), EC_MAXNAME}))
                    ELSE <<>>
          [] me.service = "FMMU" ->
               IF ~Has(ECT_SII_FMMU) THEN [n |-> 0, func |-> <<0, 0, 0, 0>>]
               ELSE LET f == Even(d.fmmu)
                    IN  [n |-> Len(f), func |-> SubSeq(f \o <<0, 0>>, 1, 4)]
          [] me.service = "SM" ->
               IF Has(ECT_SII_SM) THEN SubSeq(d.sm, 1, Min({Len(d.sm), EC_MAXSM}))
               ELSE <<>>
          [] me.service = "PDO" ->
               IF ~Has(ECT_SII_PDO + me.arg) THEN NoPDOs
               ELSE [nPDO |-> Len(Known(me.arg)),
                     SMbitsize |-> [s \in 0 .. EC_MAXSM - 1 |-> BitsOf(InSM(me.arg, s))],
                     size |-> BitsOf(SelectSeq(Known(me.arg), LAMBDA pdo : pdo.sm < EC_MAXSM))]

\* What the readers find in the EEPROM is what the manufacturer wrote, whichever
\* sections there are and in which order: strings cut to EC_MAXNAME, sync
\* managers, FMMUs, and the bits of the PDOs of each sync manager without those
\* that have none.  A PDO section is not empty: one that is takes the bytes
\* behind it for a PDO.
SiiIsDevice == scenario = "sii" /\ pc = "done" => me.value = Said
===============================================================================
