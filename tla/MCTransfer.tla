------------------------------ MODULE MCTransfer -------------------------------
(* The mailbox protocols side by side: any one call of any of them, with the   *)
(* sizes around the lengths of their frames.                                   *)
EXTENDS Mail

CONSTANTS maxdata, MaxSize, MaxTwice, SDOdata, Lengths,
          EC_MAXODLIST, PerFrame, MaxCount, MaxSubs,
          SoEdata, SoELengths,
          Block, EoEdata, Stamp, EoELengths, Buffers, MaxFrames

\* A packet of a file has at least one byte: the mailbox is longer than its headers.
ASSUME SizeAssumption == maxdata \in Nat \ {0} /\ MaxSize \in Nat

\* An object has a size.
ASSUME SDOAssumption == SDOdata \in Nat /\ Lengths \subseteq Nat

\* A fragment of a list has more than the kind of list, and the fragments that
\* ecx_readODlist takes are enough to fill it.
ASSUME InfoAssumption == /\ EC_MAXODLIST \in Nat /\ PerFrame \in Nat \ {0, 1}
                         /\ 129 * PerFrame > EC_MAXODLIST

\* An IDN has a size; an Ethernet frame is cut into blocks, and stamped with its time.
ASSUME SoEAssumption == SoEdata \in Nat /\ SoELengths \subseteq Nat
ASSUME EoEAssumption == /\ Block \in Nat \ {0} /\ EoEdata \in Nat /\ Stamp \in Nat
                        /\ EoELengths \subseteq Nat /\ Buffers \subseteq Nat

\* None is no mail.
ASSUME NoneAssumption ==
    /\ None \notin [op : {"rxpdo"}, data : Seq(Nat)]
    /\ None \notin [op : {"writereq"}, data : Seq(Nat), incomplete : BOOLEAN]
    /\ None \notin [op : {"fragment"}, frame : Nat, no : Nat, last : BOOLEAN,
                    offset : Nat, stamp : BOOLEAN,
                    data : Seq((Nat \cup {"time"}) \X Nat)]

FW == INSTANCE FoEWrite
FR == INSTANCE FoERead
SR == INSTANCE SDORead
SW == INSTANCE SDOWrite
SI == INSTANCE SDOInfo
SE == INSTANCE SoE
EE == INSTANCE EoE

\* What the thread does that runs the call.
Master == \/ FW!Master \/ FR!Master \/ SR!Master \/ SW!Master \/ SI!Master
          \/ SE!Master \/ EE!Master
Next == \/ FW!Next \/ FR!Next \/ SR!Next \/ SW!Next \/ SI!Next \/ SE!Next
        \/ EE!Next
Spec == Init /\ [][Next]_vars
FairSpec == Spec /\ WF_vars(Master)

\* A FoE download stores a beginning of the file and, when it succeeds, the file;
\* an upload stays inside of the buffer, and is whole when it succeeds.
FilesAreWhole == FW!StoresPrefix /\ FW!FileIsStored /\ FR!FileIsRead

\* An SDO upload that succeeds has the whole object, a download has stored it; a list
\* of objects is whole, or as long as there is room, and the entries of an object are
\* those of its subindexes.
ObjectsAreWhole ==
    SR!ObjectIsRead /\ SW!ObjectIsWritten /\ SI!ListIsWhole /\ SI!EntriesAreOwn

\* An IDN, and an Ethernet frame, goes both ways as a whole, however many fragments.
FragmentsAreJoined == SE!IdnIsWhole /\ EE!FrameIsWhole

\* ethercatfoe.c, on a BUSY: "resend if data has been send before".
BusyIsResent == FW!BusyIsResent

\* A call of any mailbox protocol returns, whatever the slave does or does not
\* do; but the segments of an upload may fail for ever.
CallReturns == pc = "request" ~> (pc = "done" \/ SR!InSegments)
===============================================================================
