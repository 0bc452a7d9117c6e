------------------------------- MODULE ConfigMap -------------------------------
(* The mapping of a group's slaves to the logical addresses and to the IOmap:  *)
(* ecx_config_map_group (inputs after outputs) and                             *)
(* ecx_config_overlap_map_group (inputs over outputs), with the segments that  *)
(* ecx_send_processdata_group makes its datagrams of.                          *)
(*                                                                             *)
(* LogAddr and BitPos are one position in bits, 8 * LogAddr + BitPos, counted  *)
(* from logstartaddr.  The FMMUs of a slave in one direction follow one        *)
(* another and are one range of positions.  A slave is a record of its Obits,  *)
(* its Ibits and whether it blocks LRW.                                        *)
EXTENDS Integers, Sequences, SequencesExt

CONSTANTS MaxData,            \* EC_MAXLRWDATA - EC_FIRSTDCDATAGRAM
          EC_MAXIOSEGMENTS

ASSUME SegmentAssumption == /\ MaxData \in Nat \ {0}
                            /\ EC_MAXIOSEGMENTS \in Nat \ {0}

Align(pos) == 8 * ((pos + 7) \div 8)
Addr(pos)  == pos \div 8

\* A slave of less than 8 bits has no bytes and is bit-oriented.
BitOriented(bits) == bits < 8

Span(first, next) == [first |-> first, next |-> next]

\* Variant: a byte-oriented slave starts in the byte of the bits before it.
Place_Packed(pos, bits) ==
    IF BitOriented(bits) THEN Span(pos, pos + bits)
    ELSE Span(8 * Addr(pos), 8 * Addr(pos) + Align(bits))

\* Bits are packed; bytes start at a byte.
Place(pos, bits) ==
    IF BitOriented(bits) THEN Span(pos, pos + bits)
    ELSE Span(Align(pos), Align(pos) + Align(bits))

\* The segment that is being filled is the last; one that has no room is
\* closed, and the bytes are dropped when no further segment is left.
Grow(segs, diff) ==
    LET n == Len(segs)
    IN  IF segs[n] + diff <= MaxData THEN [segs EXCEPT ![n] = @ + diff]
        ELSE IF n < EC_MAXIOSEGMENTS THEN Append(segs, diff) ELSE segs

\* One direction of one slave.
MapOne(m, bits) ==
    LET r == Place(m.pos, bits)
    IN  [pos  |-> r.next,
         segs |-> Grow(m.segs, Addr(r.next) - Addr(m.pos)),
         at   |-> Append(m.at, r)]

\* A last byte with bits in it.
Flush(m) == IF m.pos % 8 = 0 THEN m
            ELSE [m EXCEPT !.pos = Align(@), !.segs = Grow(@, 1)]

Field(f, slaves) == [i \in 1 .. Len(slaves) |-> slaves[i][f]]
Blocked(slaves)  == \E i \in 1 .. Len(slaves) : slaves[i].blockLRW

\* The group record.  out and in are the ranges of the slaves' FMMUs, and inputs
\* what is added to a logical address to find an input in the IOmap; size is the
\* IOmap size the function returns.
config_map_group(slaves) ==
    LET outs == Flush(FoldLeft(MapOne, [pos |-> 0, segs |-> <<0>>, at |-> <<>>],
                               Field("Obits", slaves)))
        ins  == Flush(FoldLeft(MapOne, [outs EXCEPT !.at = <<>>],
                               Field("Ibits", slaves)))
    IN  [overlap   |-> FALSE,
         Obytes    |-> Addr(outs.pos),
         Ibytes    |-> Addr(ins.pos) - Addr(outs.pos),
         IOsegment |-> ins.segs,
         Isegment  |-> Len(outs.segs),
         Ioffset   |-> outs.segs[Len(outs.segs)],
         blockLRW  |-> Blocked(slaves),
         out       |-> outs.at,
         in        |-> ins.at,
         inputs    |-> 0,
         size      |-> Addr(ins.pos)]

\* Both directions of one slave start at the same address.
OverlapOne(m, slave) ==
    LET out == Place(m.pos, slave.Obits)
        in  == Place(m.pos, slave.Ibits)
        so  == Align(out.next)
        si  == Align(in.next)
        pos == IF si > so THEN si ELSE so
    IN  [pos  |-> pos, so |-> so, si |-> si,
         segs |-> Grow(m.segs, Addr(pos) - Addr(m.pos)),
         out  |-> Append(m.out, out),
         in   |-> Append(m.in, in)]

config_overlap_map_group(slaves) ==
    LET m == FoldLeft(OverlapOne, [pos |-> 0, so |-> 0, si |-> 0, segs |-> <<0>>,
                                   out |-> <<>>, in |-> <<>>], slaves)
    IN  [overlap   |-> TRUE,
         Obytes    |-> Addr(m.so),
         Ibytes    |-> Addr(m.si),
         IOsegment |-> m.segs,
         Isegment  |-> 1,
         Ioffset   |-> 0,
         blockLRW  |-> Blocked(slaves),
         out       |-> m.out,
         in        |-> m.in,
         inputs    |-> Addr(m.so),
         size      |-> Addr(m.so) + Addr(m.si)]

\* A range that holds something, and its bytes.
Used(r)  == r.first < r.next
Octets(r) == Addr(r.first) .. Addr(r.next - 1)

outputsWKC(slaves) == Len(SelectSeq(Field("Obits", slaves), LAMBDA b : b > 0))
inputsWKC(slaves)  == Len(SelectSeq(Field("Ibits", slaves), LAMBDA b : b > 0))
===============================================================================
