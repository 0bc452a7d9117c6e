------------------------------ MODULE MCHardware ------------------------------
(* The layers under the library: the frames it builds, the timers it waits on,  *)
(* and the buffers and controllers of the ports that have their own.            *)
EXTENDS Calls, Timer

CONSTANTS Line, Bits, Sizes, Pointers, MaxSend,
          UsecsPerTick, TickModulus, Epoch, Starts, Timeouts, MaxPassed,
          Setups, None, Deleted, NUM_BUFFERS, MaxFrames, MaxSent

\* Two tasks, or one task that repeats a request for which a send may fail, on one
\* port; one task on two ports.
Setup(n, red, reqs, sends) ==
    [tasks |-> 1 .. n, maxbuf |-> n, red |-> red, reqs |-> reqs, sends |-> sends,
     fails |-> sends - 1]
Ports == {Setup(2, FALSE, 2, 1), Setup(2, FALSE, 1, 2), Setup(1, FALSE, 2, 2),
          Setup(1, TRUE, 2, 1), Setup(1, TRUE, 1, 2)}

\* There are no more tasks than frame buffers.
ASSUME SetupsAssumption ==
    \A s \in Setups : /\ IsFiniteSet(s.tasks) /\ s.maxbuf \in Nat \ {0}
                      /\ Cardinality(s.tasks) <= s.maxbuf
                      /\ s.red \in BOOLEAN /\ s.reqs \in Nat /\ s.fails \in Nat

\* The frames there can be, and what is none of them.
Ways == {"primary", "secondary"}
Contents == [req : {None} \cup ((UNION {s.tasks : s \in Setups}) \X Nat), parts : SUBSET {1, 2}]
Frames == [idx : Nat, n : Nat, sa : Ways, port : {1, 2}, content : Contents]
ASSUME NoneAssumption ==
    /\ None \notin Ways \cup Frames \cup [frame : Frames, full : BOOLEAN]
    /\ None # Deleted /\ Deleted \notin Frames

\* A second has a whole number of ticks (USECS_PER_TICK is defined by a division).
ASSUME ClockAssumption == /\ UsecsPerTick \in Nat \ {0} /\ TickModulus \in Nat \ {0}
                          /\ USECS_PER_SEC % UsecsPerTick = 0
                          /\ Epoch \in Nat /\ Starts \subseteq Nat /\ Timeouts \subseteq Nat

\* A frame in two parts has a descriptor for each.
ASSUME BuffersAssumption == NUM_BUFFERS \in Nat /\ NUM_BUFFERS >= 2

FR == INSTANCE Frame
CL == INSTANCE Osal
MX == INSTANCE MuxNicdrv
EM == INSTANCE Emac
FE == INSTANCE Fec

Next == FR!Next \/ CL!Next \/ MX!Next \/ EM!Next \/ FE!Next
Spec == Init /\ [][Next]_vars

\* What a primitive of ethercatbase.c returns is what the slaves it addresses hold
\* or were told, with one datagram in the frame or with two.
FrameSound == FR!ChainIsFrame /\ FR!DataIsSlaves /\ FR!ReferenceReachesAll /\ FR!ProcessDataWithTime

\* A timer of any layer expires when its time is over, whatever its seconds carry.
TimersExpire == CL!ExpiresOnTime /\ CL!DiffIsElapsed

\* Through the queues of the VxWorks port a task gets the answer to its own request,
\* of all slaves, and every buffer of the network is given back.
QueuesSound == /\ MX!IndexExclusive /\ MX!AnswerIsMine
               /\ MX!AllServiced /\ MX!BuffersAccounted

\* The controllers of the rtk ports give frames up whole and in order, send them
\* whole, and lose no buffer.
RingsSound == /\ EM!ReadInOrder /\ EM!SentWhole
              /\ FE!DamageIsLocal /\ FE!BuffersReturned /\ FE!NothingLeftBehind
===============================================================================
