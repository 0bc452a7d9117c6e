----------------------------- MODULE AlState_proofs -----------------------------
(* What the calls about AL states return, for any number of slaves, any size of  *)
(* a frame of ecx_FPRD_multi, and slaves that change, come and go at any time.   *)
EXTENDS AlState, FiniteSetTheorems, TLAPS

USE NAssumption, MultiAssumption, BoundAssumption

Entries == Statuses \cup {NoStatus}
Lows == States \cup {NoStatus, Unset}

\* TypeOK, with functions for what it says entry by entry.
TypeInv ==
    /\ al \in [Line -> Statuses] /\ here \subseteq Line /\ events \in 0 .. MaxEvents
    /\ list \in [0 .. N -> SUBSET (0 .. 4)]
    /\ \A s \in Known : list[s] \in Entries
    /\ pc \in {"idle", "brd", "multi", "check", "returned"}
    /\ calls \in 0 .. MaxCalls /\ fslave \in 1 .. N + 1 /\ lowest \in Lows
    /\ target \in [slave : 0 .. N, state : States]
    /\ result \in SUBSET (0 .. 3) /\ via \in {"same", "multi", "check"}
    /\ seen \in [Line -> SUBSET Entries] /\ joined \in BOOLEAN

\* While a call runs, the history has what the slaves are in now.
NowSeen ==
    pc # "idle" => /\ \A s \in Line : Now(s) \in seen[s]
                   /\ ~joined => N + 1 \notin here

\* What ListIsObserved and AllAtLeast say of one slave.
Observed(s) == list[s] = NoStatus \/ State(list[s]) \in {State(v) : v \in seen[s]}
AtLeast(s, low) ==
    low = NoStatus \/ \E v \in seen[s] : Number(State(v)) >= Number(low)

\* They hold of the slaves in the frames before, and there is one to ask.
MultiInv ==
    pc = "multi" =>
       /\ fslave <= N
       /\ \A s \in 1 .. fslave - 1 : Observed(s) /\ AtLeast(s, lowest)

IInv == TypeInv /\ NowSeen /\ MultiInv /\ ListIsObserved /\ AllAtLeast /\ CheckedOrAbsent

-------------------------------------------------------------------------------
(* The states *)

LEMMA Distinct ==
  /\ NoStatus # INIT /\ NoStatus # PRE_OP /\ NoStatus # BOOT
  /\ NoStatus # SAFE_OP /\ NoStatus # OPERATIONAL /\ NoStatus # Unset
  /\ INIT # PRE_OP /\ INIT # BOOT /\ INIT # SAFE_OP /\ INIT # OPERATIONAL
  /\ INIT # Unset /\ PRE_OP # BOOT /\ PRE_OP # SAFE_OP /\ PRE_OP # OPERATIONAL
  /\ PRE_OP # Unset /\ BOOT # SAFE_OP /\ BOOT # OPERATIONAL /\ BOOT # Unset
  /\ SAFE_OP # OPERATIONAL /\ SAFE_OP # Unset /\ OPERATIONAL # Unset
  <1>1. /\ 0 \in INIT /\ 1 \notin INIT /\ 2 \notin INIT /\ 3 \notin INIT
        /\ 0 \notin PRE_OP /\ 1 \in PRE_OP /\ 2 \notin PRE_OP /\ 3 \notin PRE_OP
        /\ 0 \in BOOT /\ 1 \in BOOT /\ 2 \notin BOOT /\ 3 \notin BOOT
        /\ 0 \notin SAFE_OP /\ 1 \notin SAFE_OP /\ 2 \in SAFE_OP /\ 3 \notin SAFE_OP
        /\ 0 \notin OPERATIONAL /\ 1 \notin OPERATIONAL
        /\ 2 \notin OPERATIONAL /\ 3 \in OPERATIONAL
        /\ 0 \notin NoStatus /\ 1 \notin NoStatus
        /\ 2 \notin NoStatus /\ 3 \notin NoStatus
        /\ 0 \in Unset /\ 1 \in Unset /\ 2 \in Unset /\ 3 \in Unset
    BY DEF INIT, PRE_OP, BOOT, SAFE_OP, OPERATIONAL, NoStatus, Unset
  <1> QED BY <1>1

LEMMA NumberOf ==
  /\ Number(NoStatus) = 0 /\ Number(INIT) = 1 /\ Number(PRE_OP) = 2
  /\ Number(BOOT) = 3 /\ Number(SAFE_OP) = 4 /\ Number(OPERATIONAL) = 8
  /\ Number(Unset) = 255
  BY Distinct DEF Number

LEMMA LowNumbers == \A v \in Lows : Number(v) \in Nat
  BY NumberOf DEF Lows, States

\* The lowest of some states is one of them, and no other is lower.
LEMMA LowestIs ==
  ASSUME NEW S \in SUBSET Lows, S # {}
  PROVE  Lowest(S) \in S /\ \A w \in S : Number(Lowest(S)) <= Number(w)
  <1>1. \E v \in S : \A w \in S : Number(v) <= Number(w)
    BY NumberOf DEF Lows, States
  <1> QED BY <1>1 DEF Lowest

\* Only no status at all is as low as none.
LEMMA LowestNone ==
  ASSUME NEW v \in Lows, Number(v) <= 0
  PROVE  v = NoStatus
  BY NumberOf DEF Lows, States

\* Without its error bit, a status is a state.
LEMMA StateOf ==
  /\ \A v \in States : State(v) = v /\ State(v \cup ERROR) = v
  /\ \A v \in Statuses : State(v) \in States
  /\ State(NoStatus) = NoStatus
  /\ States \subseteq SUBSET (0 .. 3) /\ Statuses \subseteq SUBSET (0 .. 4)
  /\ {} \notin States
  <1>1. States \subseteq SUBSET (0 .. 3) /\ {} \notin States
    BY DEF States, INIT, PRE_OP, BOOT, SAFE_OP, OPERATIONAL
  <1>2. \A v \in States : State(v) = v /\ State(v \cup ERROR) = v
    BY <1>1 DEF State, ERROR
  <1>3. State(NoStatus) = NoStatus
    BY DEF State, NoStatus
  <1>4. Statuses \subseteq SUBSET (0 .. 4)
    <2>1. \A v \in States : v \subseteq 0 .. 4 /\ v \cup ERROR \subseteq 0 .. 4
      BY <1>1 DEF ERROR
    <2> QED BY <2>1 DEF Statuses
  <1> QED BY <1>1, <1>2, <1>3, <1>4 DEF Statuses

LEMMA Subsets ==
  /\ \A v \in States \cup {NoStatus} : v \in SUBSET (0 .. 3) /\ v \in SUBSET (0 .. 4)
  /\ \A v \in SUBSET (0 .. 4) : State(v) \in SUBSET (0 .. 3)
  <1>1. \A v \in States \cup {NoStatus} : v \in SUBSET (0 .. 3)
    BY StateOf DEF NoStatus
  <1>2. \A v \in SUBSET (0 .. 3) : v \in SUBSET (0 .. 4)
    OBVIOUS
  <1>3. \A v \in SUBSET (0 .. 4) : State(v) \in SUBSET (0 .. 3)
    BY DEF State, ERROR
  <1> QED BY <1>1, <1>2, <1>3

\* One bit of a state but BOOT stands for that state alone.
LEMMA OneBit ==
  ASSUME NEW v \in Statuses, NEW st \in States, st # BOOT, State(v) \subseteq st
  PROVE  State(v) = st
  <1>1. State(v) \in States /\ State(v) # {}
    BY StateOf
  <1>2. \E b \in 0 .. 3 : st = {b}
    BY DEF States, INIT, PRE_OP, BOOT, SAFE_OP, OPERATIONAL
  <1> QED BY <1>1, <1>2

-------------------------------------------------------------------------------
(* The calls *)

\* What a slave has now is an entry of the list.
LEMMA NowType ==
  ASSUME TypeInv, NEW s \in Line
  PROVE  Now(s) \in Entries /\ (s \in here => Now(s) \in Statuses)
  BY DEF TypeInv, Now, Entries

\* The broadcast read has nothing but bits of states and errors.
LEMMA BitsType ==
  ASSUME TypeInv
  PROVE  Bits \subseteq 0 .. 4
  <1>1. \A s \in here : al[s] \subseteq 0 .. 4
    BY StateOf DEF TypeInv
  <1> QED BY <1>1 DEF Bits

LEMMA AskedType ==
  ASSUME TypeInv
  PROVE  Asked \subseteq 0 .. 4 /\ (target.slave # 0 => Asked \in Entries)
  <1>1. CASE target.slave = 0
    BY <1>1, BitsType DEF Asked
  <1>2. CASE target.slave # 0
    <2>1. target.slave \in Line
      BY <1>2 DEF TypeInv, Line
    <2> QED BY <1>2, <2>1, NowType, StateOf DEF Asked, Entries, NoStatus
  <1> QED BY <1>1, <1>2

\* One frame of ecx_FPRD_multi: the slaves from fslave to lslave are entered as
\* they are or as absent, and lowest becomes the lowest of theirs and its own.
LEMMA OneFrame ==
  ASSUME TypeInv, MultiInv, FPRD_multi
  PROVE  /\ pc = "multi" /\ fslave \in 1 .. N /\ lslave \in fslave .. N
         /\ lslave - fslave < FPRD_MULTI
         /\ lowest' \in States \cup {NoStatus}
         /\ list' \in [0 .. N -> SUBSET (0 .. 4)]
         /\ \A s \in Known : list'[s] \in Entries
         /\ \A s \in fslave .. lslave :
               /\ list'[s] \in {Now(s), NoStatus}
               /\ Number(lowest') <= Number(State(list'[s]))
         /\ \A s \in 1 .. fslave - 1 : list'[s] = list[s]
         /\ Number(lowest') <= Number(lowest)
         /\ fslave' = lslave + 1
         /\ IF lslave < N THEN UNCHANGED <<pc, result, via>>
                          ELSE Return("multi", lowest')
         /\ UNCHANGED <<slaves, calls, target, history>>
  <1> DEFINE chunk == fslave .. lslave
  <1>1. /\ pc = "multi" /\ fslave \in 1 .. N /\ lslave \in fslave .. N
        /\ lslave - fslave < FPRD_MULTI /\ lowest \in Lows
    BY DEF FPRD_multi, MultiInv, TypeInv, lslave, Lows
  <1>2. PICK answered \in BOOLEAN :
          LET got == [s \in chunk |-> IF answered THEN Now(s) ELSE NoStatus]
              low == Lowest({lowest} \cup {State(got[s]) : s \in chunk})
          IN  /\ lowest' = low
              /\ list' = [s \in 0 .. N |-> IF s \in chunk THEN got[s]
                                            ELSE IF s = 0 /\ lslave = N THEN low
                                            ELSE list[s]]
              /\ IF lslave < N THEN UNCHANGED <<pc, result, via>>
                               ELSE Return("multi", low)
    BY DEF FPRD_multi
  <1> DEFINE got == [s \in chunk |-> IF answered THEN Now(s) ELSE NoStatus]
             S == {lowest} \cup {State(got[s]) : s \in chunk}
  <1>3. \A s \in chunk : got[s] \in Entries /\ got[s] \in {Now(s), NoStatus}
    BY <1>1, NowType DEF Entries, Line
  <1>4. \A s \in chunk : State(got[s]) \in States \cup {NoStatus}
    BY <1>3, StateOf DEF Entries
  <1>5. lowest' = Lowest(S)
    BY <1>2
  <1>6. /\ list' = [s \in 0 .. N |-> IF s \in chunk THEN got[s]
                                      ELSE IF s = 0 /\ lslave = N THEN lowest'
                                      ELSE list[s]]
        /\ IF lslave < N THEN UNCHANGED <<pc, result, via>>
                         ELSE Return("multi", lowest')
    BY <1>2
  <1>7. S \in SUBSET Lows /\ lowest \in S /\ \A s \in chunk : State(got[s]) \in S
    BY <1>1, <1>4 DEF Lows
  <1> HIDE DEF S, got
  <1>8. /\ lowest' \in Lows /\ \A w \in S : Number(lowest') <= Number(w)
    BY <1>5, <1>7, LowestIs
  <1>9. lowest' # Unset
    <2>1. PICK s \in chunk : TRUE
      BY <1>1
    <2>2. State(got[s]) \in S /\ State(got[s]) \in States \cup {NoStatus}
      BY <1>4, <1>7
    <2>3. Number(State(got[s])) \in 0 .. 8
      BY <2>2, NumberOf DEF States
    <2> QED BY <1>8, <2>2, <2>3, NumberOf
  <1>10. lowest' \in States \cup {NoStatus}
    BY <1>8, <1>9 DEF Lows
  <1>11. chunk \subseteq Known /\ 0 \notin chunk
    BY <1>1 DEF Known
  <1>12. \A s \in 0 .. N : list'[s] = IF s \in chunk THEN got[s]
                                       ELSE IF s = 0 /\ lslave = N THEN lowest'
                                       ELSE list[s]
    BY <1>6
  <1>13. \A s \in Known : list'[s] \in Entries
    BY <1>3, <1>11, <1>12 DEF Known, TypeInv
  <1>14. list' \in [0 .. N -> SUBSET (0 .. 4)]
    <2>1. lowest' \in SUBSET (0 .. 4) /\ \A v \in Entries : v \in SUBSET (0 .. 4)
      BY <1>10, StateOf DEF Entries, NoStatus
    <2>2. \A s \in 0 .. N : list'[s] \in SUBSET (0 .. 4)
      BY <1>3, <1>12, <2>1 DEF TypeInv
    <2> QED BY <1>6, <2>2
  <1>15. \A s \in chunk : /\ list'[s] \in {Now(s), NoStatus}
                          /\ Number(lowest') <= Number(State(list'[s]))
    BY <1>3, <1>7, <1>8, <1>11, <1>12 DEF Known
  <1>16. \A s \in 1 .. fslave - 1 : list'[s] = list[s]
    BY <1>1, <1>12
  <1>17. fslave' = lslave + 1 /\ UNCHANGED <<slaves, calls, target, history>>
    BY DEF FPRD_multi
  <1> QED BY <1>1, <1>6, <1>7, <1>8, <1>10, <1>13, <1>14, <1>15, <1>16, <1>17

LEMMA TypesAreOK == TypeInv => TypeOK
  BY DEF TypeInv, TypeOK, Lows, Entries

LEMMA InitType == Init => TypeInv
  <1> SUFFICES ASSUME Init PROVE TypeInv
    OBVIOUS
  <1>1. al \in [Line -> Statuses]
    BY DEF Init, Statuses
  <1>2. NoStatus \in SUBSET (0 .. 4) /\ NoStatus \in Entries /\ NoStatus \in SUBSET (0 .. 3)
    BY DEF Entries, NoStatus
  <1>3. list \in [0 .. N -> SUBSET (0 .. 4)] /\ \A s \in Known : list[s] \in Entries
    BY <1>2 DEF Init, Known
  <1>4. target \in [slave : 0 .. N, state : States]
    BY DEF Init, States
  <1>5. here \subseteq Line /\ fslave \in 1 .. N + 1 /\ lowest \in Lows
    BY DEF Init, Known, Line, Lows
  <1>6. seen \in [Line -> SUBSET Entries] /\ result \in SUBSET (0 .. 3)
    BY <1>2 DEF Init
  <1>7. events \in 0 .. MaxEvents /\ calls \in 0 .. MaxCalls
    BY DEF Init
  <1>9. joined \in BOOLEAN
    BY DEF Init
  <1>8. via \in {"same", "multi", "check"}
        /\ pc \in {"idle", "brd", "multi", "check", "returned"}
    BY DEF Init
  <1> QED BY <1>1, <1>3, <1>4, <1>5, <1>6, <1>7, <1>8, <1>9 DEF TypeInv

\* What a change of a slave leaves of the rest.
LEMMA EventType ==
  ASSUME TypeInv, Event, al' \in [Line -> Statuses], here' \subseteq Line
  PROVE  TypeInv'
  <1>1. \A s \in Line : Now(s)' \in Entries
    BY DEF Now, Entries
  <1>2. seen' \in [Line -> SUBSET Entries]
    BY <1>1 DEF Event, TypeInv
  <1>3. events' \in 0 .. MaxEvents
    BY DEF Event, TypeInv
  <1> QED BY <1>2, <1>3 DEF Event, TypeInv

\* A call, and its end.
LEMMA CallType ==
  ASSUME TypeInv, NEW next \in {"brd", "check"}, Call(next),
         target' \in [slave : 0 .. N, state : States],
         UNCHANGED <<slaves, list, fslave, lowest, result, via>>
  PROVE  TypeInv'
  <1>1. seen' \in [Line -> SUBSET Entries]
    BY NowType DEF Call
  <1>2. joined' \in BOOLEAN /\ pc' \in {"brd", "check"} /\ calls' \in 0 .. MaxCalls
    BY DEF Call, TypeInv
  <1> QED BY <1>1, <1>2 DEF slaves, TypeInv

LEMMA TypeStep ==
  ASSUME TypeInv, MultiInv, [Next]_vars
  PROVE  TypeInv'
  <1>1. CASE ReadState
    BY <1>1, CallType DEF ReadState, TypeInv
  <1>2. CASE ReadSame
    <2>1. Bits \in States /\ Bits \in SUBSET (0 .. 3) /\ Bits \in SUBSET (0 .. 4)
          /\ Bits \in Entries
      BY <1>2, StateOf DEF ReadSame, Same, Entries, Statuses
    <2>2. list' \in [0 .. N -> SUBSET (0 .. 4)] /\ \A s \in Known : list'[s] \in Entries
      BY <1>2, <2>1 DEF ReadSame, Known
    <2> QED BY <1>2, <2>1, <2>2 DEF ReadSame, Return, slaves, history, TypeInv
  <1>3. CASE ReadDifferent
    <2>1. list' \in [0 .. N -> SUBSET (0 .. 4)] /\ \A s \in Known : list'[s] \in Entries
      <3>1. CASE UNCHANGED list
        BY <3>1 DEF TypeInv
      <3>2. CASE ~(UNCHANGED list)
        <4>1. list' = [list EXCEPT ![0] = IF State(Bits) \in States THEN State(Bits)
                                                                   ELSE @]
          BY <1>3, <3>2 DEF ReadDifferent
        <4>2. State(Bits) \in States => State(Bits) \in SUBSET (0 .. 4)
          BY Subsets
        <4> QED BY <4>1, <4>2 DEF TypeInv, Known
      <3> QED BY <3>1, <3>2
    <2> QED BY <1>3, <2>1 DEF ReadDifferent, slaves, history, TypeInv, Lows
  <1>4. CASE FPRD_multi
    <2>1. lowest' \in Lows /\ fslave' \in 1 .. N + 1 /\ lowest' \in SUBSET (0 .. 3)
      BY <1>4, OneFrame, Subsets DEF Lows
    <2>2. pc' \in {"idle", "brd", "multi", "check", "returned"}
          /\ result' \in SUBSET (0 .. 3) /\ via' \in {"same", "multi", "check"}
      BY <1>4, <2>1, OneFrame DEF Return, TypeInv
    <2>3. /\ list' \in [0 .. N -> SUBSET (0 .. 4)]
          /\ \A s \in Known : list'[s] \in Entries
          /\ UNCHANGED <<slaves, calls, target, history>>
      BY <1>4, OneFrame
    <2> QED BY <2>1, <2>2, <2>3 DEF slaves, history, TypeInv
  <1>5. CASE StateCheck
    <2>1. target' \in [slave : 0 .. N, state : States]
      BY <1>5 DEF StateCheck
    <2> QED BY <1>5, <2>1, CallType DEF StateCheck
  <1>6. CASE PollReached \/ PollExpired
    <2>1. PICK v \in {Asked, NoStatus}, r \in SUBSET (0 .. 3) :
            /\ r \in {State(v), target.state}
            /\ list' = [list EXCEPT ![target.slave] = v] /\ Return("check", r)
            /\ UNCHANGED <<slaves, calls, fslave, lowest, target, history>>
      <3>1. target.state \in SUBSET (0 .. 3)
        BY Subsets DEF TypeInv
      <3>2. State(Asked) \in SUBSET (0 .. 3) /\ State(NoStatus) \in SUBSET (0 .. 3)
        BY AskedType, Subsets DEF NoStatus
      <3>3. CASE PollReached
        BY <3>1, <3>3 DEF PollReached
      <3>4. CASE PollExpired
        BY <3>2, <3>4 DEF PollExpired
      <3> QED BY <1>6, <3>3, <3>4
    <2>2. v \in SUBSET (0 .. 4) /\ (target.slave # 0 => v \in Entries)
      BY AskedType DEF NoStatus, Entries
    <2>3. target.slave \in 0 .. N /\ target.state \in States
      BY DEF TypeInv
    <2>5. list' \in [0 .. N -> SUBSET (0 .. 4)] /\ \A s \in Known : list'[s] \in Entries
      BY <2>1, <2>2, <2>3 DEF TypeInv, Known
    <2> QED BY <2>1, <2>5 DEF Return, slaves, history, TypeInv
  <1>7. CASE Continue
    BY <1>7 DEF Continue, slaves, history, TypeInv
  <1>8. CASE ChangeState
    BY <1>8, EventType DEF ChangeState, TypeInv
  <1>9. CASE Disconnect
    BY <1>9, EventType DEF Disconnect, TypeInv
  <1>10. CASE Connect
    <2>1. INIT \in Statuses
      BY DEF Statuses, States
    <2> QED BY <1>10, <2>1, EventType DEF Connect, TypeInv
  <1>11. CASE UNCHANGED vars
    BY <1>11 DEF vars, slaves, history, TypeInv
  <1> QED BY <1>1, <1>2, <1>3, <1>4, <1>5, <1>6, <1>7, <1>8, <1>9, <1>10, <1>11
          DEF Next

-------------------------------------------------------------------------------
(* The history *)

LEMMA Unmoved ==
  ASSUME UNCHANGED slaves
  PROVE  \A s : Now(s)' = Now(s)
  BY DEF slaves, Now

\* The steps that leave the history and the slaves alone.
LEMMA NowStays ==
  ASSUME NowSeen, UNCHANGED <<slaves, history>>, pc # "idle" \/ pc' = "idle"
  PROVE  NowSeen'
  BY Unmoved DEF slaves, history, NowSeen

LEMMA NowStep ==
  ASSUME TypeInv, NowSeen, [Next]_vars
  PROVE  NowSeen'
  <1>1. ASSUME NEW next \in {"brd", "check"}, Call(next), UNCHANGED slaves
        PROVE  NowSeen'
    BY <1>1, Unmoved DEF Call, NowSeen, slaves
  <1>2. CASE ReadState \/ StateCheck
    BY <1>1, <1>2 DEF ReadState, StateCheck
  <1>3. CASE ReadSame \/ ReadDifferent \/ FPRD_multi \/ PollReached \/ PollExpired
                \/ Continue
    BY <1>3, NowStays DEF ReadSame, ReadDifferent, FPRD_multi, PollReached,
       PollExpired, Continue
  <1>4. CASE ChangeState \/ Disconnect \/ Connect
    <2>1. Event
      BY <1>4 DEF ChangeState, Disconnect, Connect
    <2> QED BY <2>1 DEF Event, NowSeen
  <1>5. CASE UNCHANGED vars
    BY <1>5, Unmoved DEF vars, slaves, history, NowSeen
  <1> QED BY <1>2, <1>3, <1>4, <1>5 DEF Next

\* While a call runs, the history only grows.
LEMMA SeenGrows ==
  ASSUME TypeInv, [Next]_vars, pc # "idle"
  PROVE  /\ \A s \in Line : seen[s] \subseteq seen'[s]
         /\ joined => joined'
  <1>1. CASE ReadState \/ StateCheck
    BY <1>1 DEF ReadState, StateCheck, Call
  <1>2. CASE ReadSame \/ ReadDifferent \/ FPRD_multi \/ PollReached \/ PollExpired
                \/ Continue
    BY <1>2 DEF ReadSame, ReadDifferent, FPRD_multi, PollReached,
       PollExpired, Continue, history
  <1>3. CASE ChangeState \/ Disconnect \/ Connect
    <2>1. Event
      BY <1>3 DEF ChangeState, Disconnect, Connect
    <2> QED BY <2>1 DEF Event
  <1>4. CASE UNCHANGED vars
    BY <1>4 DEF vars, history
  <1> QED BY <1>1, <1>2, <1>3, <1>4 DEF Next

\* What was seen stays seen.
LEMMA StaysObserved ==
  ASSUME NEW s \in Line, seen[s] \subseteq seen'[s]
  PROVE  /\ Observed(s) /\ list'[s] = list[s] => Observed(s)'
         /\ AtLeast(s, lowest) /\ lowest' = lowest => AtLeast(s, lowest)'
         /\ AtLeast(s, result) /\ result' = result => AtLeast(s, result)'
  BY DEF Observed, AtLeast, State, Number

\* A broadcast that all slaves answered, with the bit of one state: that is the
\* state of each.
LEMMA SameIsAll ==
  ASSUME TypeInv, NowSeen, ReadSame, ~joined, Bits # BOOT
  PROVE  \A s \in Known : Now(s) = Bits /\ State(Bits) = Bits
  <1>1. here \subseteq Known
    BY DEF NowSeen, ReadSame, TypeInv, Line, Known
  <1>2. IsFiniteSet(Known) /\ Cardinality(Known) = N
    BY FS_Interval DEF Known
  <1>3. IsFiniteSet(here) /\ Cardinality(here) <= N
        /\ (Cardinality(here) = N => here = Known)
    BY <1>1, <1>2, FS_Subset
  <1>4. here = Known
    <2>1. Cardinality(here) >= N /\ Cardinality(here) \in Nat
      BY <1>3, FS_CardinalityType DEF ReadSame, Same
    <2> QED BY <1>3, <2>1
  <1>5. Bits \in States /\ ERROR \cap Bits = {}
    BY DEF ReadSame, Same
  <1>6. ASSUME NEW s \in Known PROVE al[s] = Bits
    <2>1. al[s] \in Statuses /\ al[s] \subseteq Bits
      BY <1>4 DEF Bits, TypeInv, Known, Line
    <2>2. State(al[s]) = al[s]
      BY <1>5, <2>1 DEF State
    <2> QED BY <1>5, <2>1, <2>2, OneBit
  <1> QED BY <1>4, <1>5, <1>6, StateOf DEF Now

\* The slaves that a broadcast found in a state, or that were absent.
LEMMA BitsAreAll ==
  ASSUME TypeInv, NEW st \in States, st # BOOT, State(Bits) = st, NEW s \in Line
  PROVE  Now(s) = NoStatus \/ State(Now(s)) = st
  <1>1. CASE s \notin here
    BY <1>1 DEF Now
  <1>2. CASE s \in here
    <2>1. al[s] \in Statuses /\ al[s] \subseteq Bits
      BY <1>2 DEF Bits, TypeInv
    <2>2. State(al[s]) \subseteq st
      BY <2>1 DEF State
    <2> QED BY <1>2, <2>1, <2>2, OneBit DEF Now
  <1> QED BY <1>1, <1>2

-------------------------------------------------------------------------------
(* The invariant *)

LEMMA FrameSeen ==
  ASSUME TypeInv, NowSeen, MultiInv, FPRD_multi
  PROVE  \A s \in 1 .. lslave : Observed(s)' /\ AtLeast(s, lowest)'
  <1>1. /\ pc = "multi" /\ fslave \in 1 .. N /\ lslave \in fslave .. N
        /\ lowest \in Lows /\ lowest' \in Lows
        /\ Number(lowest') \in Nat /\ Number(lowest) \in Nat
        /\ Number(lowest') <= Number(lowest)
        /\ UNCHANGED <<slaves, history>>
    BY OneFrame, LowNumbers DEF Lows, TypeInv
  <1>2. seen' = seen
    BY <1>1 DEF history
  <1>3. ASSUME NEW s \in 1 .. fslave - 1
        PROVE  Observed(s)' /\ AtLeast(s, lowest)'
    <2>1. s \in Line /\ list'[s] = list[s] /\ Observed(s) /\ AtLeast(s, lowest)
      BY <1>1, OneFrame DEF MultiInv, Line
    <2>2. Observed(s)'
      BY <1>2, <2>1, StaysObserved
    <2>3. AtLeast(s, lowest')
      <3>1. CASE lowest = NoStatus
        BY <1>1, <3>1, NumberOf, LowestNone DEF AtLeast
      <3>2. CASE lowest # NoStatus
        <4>1. PICK v \in seen[s] : Number(State(v)) >= Number(lowest)
          BY <2>1, <3>2 DEF AtLeast
        <4>2. v \in Entries
          BY <2>1 DEF TypeInv
        <4>3. State(v) \in Lows
          BY <4>2, StateOf DEF Entries, Lows
        <4>4. Number(State(v)) >= Number(lowest')
          BY <1>1, <4>1, <4>3, LowNumbers
        <4> QED BY <4>4 DEF AtLeast
      <3> QED BY <3>1, <3>2
    <2> QED BY <1>2, <2>2, <2>3 DEF AtLeast
  <1>4. ASSUME NEW s \in fslave .. lslave
        PROVE  Observed(s)' /\ AtLeast(s, lowest)'
    <2>1. /\ s \in Line /\ Now(s) \in seen'[s] /\ list'[s] \in {Now(s), NoStatus}
          /\ Number(lowest') <= Number(State(list'[s]))
      BY <1>1, <1>2, OneFrame DEF NowSeen, Line
    <2>2. Observed(s)'
      BY <2>1 DEF Observed
    <2>3. AtLeast(s, lowest)'
      <3>1. CASE list'[s] = NoStatus
        <4>1. Number(lowest') <= 0
          BY <2>1, <3>1, StateOf, NumberOf
        <4> QED BY <1>1, <4>1, LowestNone DEF AtLeast
      <3>2. CASE list'[s] = Now(s)
        <4>1. State(Now(s)) \in Lows
          BY <2>1, NowType, StateOf DEF Entries, Lows
        <4>2. Number(State(Now(s))) >= Number(lowest')
          BY <1>1, <2>1, <3>2, <4>1, LowNumbers
        <4> QED BY <2>1, <4>2 DEF AtLeast
      <3> QED BY <2>1, <3>1, <3>2
    <2> QED BY <2>2, <2>3
  <1> QED BY <1>1, <1>3, <1>4

\* A step of the slaves, or none: the master is where it was.
Outside == ChangeState \/ Disconnect \/ Connect \/ UNCHANGED vars

LEMMA OutsideStep ==
  ASSUME TypeInv, Outside
  PROVE  UNCHANGED <<list, pc, calls, fslave, lowest, target, result, via>>
  BY DEF Outside, ChangeState, Disconnect, Connect, Event, vars

LEMMA MultiStep ==
  ASSUME TypeInv, NowSeen, MultiInv, [Next]_vars
  PROVE  MultiInv'
  <1>1. CASE Outside
    <2> SUFFICES ASSUME pc = "multi"
                 PROVE  MultiInv'
      BY <1>1, OutsideStep DEF MultiInv
    <2>1. /\ UNCHANGED <<list, fslave, lowest>> /\ fslave \in 1 .. N + 1
          /\ \A s \in Line : seen[s] \subseteq seen'[s]
      BY <1>1, OutsideStep, SeenGrows DEF TypeInv
    <2>2. ASSUME NEW s \in 1 .. fslave - 1
          PROVE  Observed(s)' /\ AtLeast(s, lowest)'
      <3>1. s \in Line /\ Observed(s) /\ AtLeast(s, lowest)
        BY <2>1 DEF MultiInv, Line
      <3> QED BY <2>1, <3>1, StaysObserved
    <2> QED BY <2>1, <2>2 DEF MultiInv
  <1>2. CASE ReadDifferent
    BY <1>2 DEF ReadDifferent, MultiInv
  <1>3. CASE FPRD_multi
    <2> SUFFICES ASSUME pc' = "multi"
                 PROVE  MultiInv'
      BY DEF MultiInv
    <2>1. lslave \in 1 .. N /\ lslave < N /\ fslave' = lslave + 1
      BY <1>3, OneFrame DEF Return
    <2> QED BY <1>3, <2>1, FrameSeen DEF MultiInv
  <1>4. CASE ReadState \/ ReadSame \/ StateCheck \/ PollReached \/ PollExpired
                \/ Continue
    <2>1. pc' # "multi"
      BY <1>4 DEF ReadState, ReadSame, StateCheck, PollReached, PollExpired,
         Continue, Call, Return
    <2> QED BY <2>1 DEF MultiInv
  <1> QED BY <1>1, <1>2, <1>3, <1>4 DEF Next, Outside

\* What ecx_readstate has entered and returned was seen.
LEMMA ReadStep ==
  ASSUME IInv, TypeInv', TypeOK', [Next]_vars
  PROVE  ListIsObserved' /\ AllAtLeast'
  <1>1. CASE Outside
    <2>1. UNCHANGED <<list, pc, fslave, result, via>>
      BY <1>1, OutsideStep DEF IInv
    <2>2. TypeOK' /\ ChunksFit'
      BY <1>1, <2>1, OutsideStep DEF IInv, ListIsObserved, ChunksFit, lslave, ReadReturned
    <2>3. CASE ~(ReadReturned /\ ~joined')
      BY <2>1, <2>2, <2>3 DEF ListIsObserved, AllAtLeast, ReadReturned
    <2>4. CASE ReadReturned /\ ~joined'
      <3>1. ~joined /\ \A s \in Line : seen[s] \subseteq seen'[s]
        BY <2>4, SeenGrows DEF IInv, ReadReturned
      <3>2. Known \subseteq Line
        BY DEF Known, Line
      <3>3. ASSUME ~(via = "same" /\ result = BOOT)
            PROVE  \A s \in Known : Observed(s)'
        BY <2>1, <2>4, <3>1, <3>2, <3>3, StaysObserved
           DEF IInv, ListIsObserved, Observed
      <3>4. ASSUME result \notin {NoStatus, BOOT}
            PROVE  \A s \in Known : AtLeast(s, result)'
        BY <2>1, <2>4, <3>1, <3>2, <3>4, StaysObserved
           DEF IInv, AllAtLeast, AtLeast
      <3>5. ListIsObserved'
        BY <2>1, <2>2, <3>3 DEF ListIsObserved, Observed, ReadReturned
      <3>6. AllAtLeast'
        BY <2>1, <3>4 DEF AllAtLeast, AtLeast, ReadReturned
      <3> QED BY <3>5, <3>6
    <2> QED BY <2>3, <2>4
  <1>2. CASE ReadSame
    <2>1. /\ list' = [s \in 0 .. N |-> Bits] /\ pc' = "returned" /\ via' = "same"
          /\ result' = Bits /\ UNCHANGED <<seen, joined>> /\ pc = "brd"
      BY <1>2 DEF ReadSame, Return, history
    <2>2. TypeOK' /\ ChunksFit'
      BY <2>1 DEF ChunksFit, ReadReturned
    <2>3. ASSUME ~joined, Bits # BOOT, NEW s \in Known
          PROVE  list'[s] = Bits /\ Now(s) = Bits /\ Now(s) \in seen'[s] /\ State(Bits) = Bits
                 /\ Number(Bits) \in Nat
      <3>1. list'[s] = Bits /\ s \in Line
        BY <2>1 DEF Known, Line
      <3>2. Now(s) = Bits /\ State(Bits) = Bits
        BY <1>2, <2>3, SameIsAll DEF IInv
      <3>3. Number(Bits) \in Nat
        BY <1>2, LowNumbers DEF ReadSame, Same, Lows
      <3> QED BY <2>1, <3>1, <3>2, <3>3 DEF IInv, NowSeen
    <2>4. ListIsObserved'
      BY <2>1, <2>2, <2>3 DEF ListIsObserved, ReadReturned
    <2>5. AllAtLeast'
      <3> SUFFICES ASSUME ~joined, Bits # BOOT, NEW s \in Known
                   PROVE  \E v \in seen'[s] : Number(State(v)) >= Number(Bits)
        BY <2>1 DEF AllAtLeast
      <3> QED BY <2>3
    <2> QED BY <2>4, <2>5
  <1>3. CASE FPRD_multi
    <2>1. /\ lslave \in 1 .. N /\ fslave' = lslave + 1 /\ lslave - fslave < FPRD_MULTI
          /\ IF lslave < N THEN UNCHANGED <<pc, result, via>>
                           ELSE Return("multi", lowest')
          /\ pc = "multi"
      BY <1>3, OneFrame DEF IInv
    <2>2. CASE lslave < N
      <3>1. TypeOK' /\ ChunksFit' /\ ~ReadReturned'
        BY <2>1, <2>2 DEF ChunksFit, ReadReturned, lslave
      <3> QED BY <3>1 DEF ListIsObserved, AllAtLeast
    <2>3. CASE lslave = N
      <3>1. /\ pc' = "returned" /\ via' = "multi" /\ result' = lowest' /\ fslave' = N + 1
        BY <2>1, <2>3 DEF Return
      <3>2. TypeOK' /\ ChunksFit'
        BY <3>1 DEF ChunksFit, ReadReturned
      <3>3. \A s \in Known : Observed(s)' /\ AtLeast(s, lowest)'
        BY <1>3, <2>3, FrameSeen DEF IInv, Known
      <3> QED BY <3>1, <3>2, <3>3 DEF ListIsObserved, AllAtLeast, Observed, AtLeast
    <2> QED BY <2>1, <2>2, <2>3
  <1>4. CASE ReadState \/ ReadDifferent \/ StateCheck \/ PollReached \/ PollExpired
                \/ Continue
    <2>1. ~ReadReturned'
      BY <1>4 DEF ReadState, ReadDifferent, StateCheck, PollReached, PollExpired,
         Continue, Call, Return, ReadReturned
    <2>2. pc' = "multi" => fslave' = 1
      BY <1>4 DEF ReadState, ReadDifferent, StateCheck, PollReached, PollExpired,
         Continue, Call, Return
    <2>3. ChunksFit'
      BY <2>1, <2>2 DEF ChunksFit, lslave
    <2> QED BY <2>1, <2>3 DEF ListIsObserved, AllAtLeast
  <1> QED BY <1>1, <1>2, <1>3, <1>4 DEF Next, Outside

\* And so was what ecx_statecheck has found.
LEMMA CheckStep ==
  ASSUME IInv, [Next]_vars
  PROVE  CheckedOrAbsent'
  <1>1. CASE Outside
    <2>1. UNCHANGED <<pc, target, result, via>>
      BY <1>1, OutsideStep DEF IInv
    <2> SUFFICES ASSUME CheckReturned, result = target.state, target.state # BOOT,
                        NEW s \in Known, target.slave \in {0, s}
                 PROVE  \E v \in seen'[s] : v = NoStatus \/ State(v) = target.state
      BY <2>1 DEF CheckedOrAbsent, CheckReturned
    <2>2. s \in Line /\ seen[s] \subseteq seen'[s]
      BY SeenGrows DEF IInv, CheckReturned, Known, Line
    <2> QED BY <2>2 DEF IInv, CheckedOrAbsent
  <1>2. CASE PollReached
    <2>1. /\ pc = "check" /\ State(Asked) = target.state
          /\ UNCHANGED <<target, seen>>
      BY <1>2 DEF PollReached, Reached, history
    <2> SUFFICES ASSUME target.state # BOOT, NEW s \in Known, target.slave \in {0, s}
                 PROVE  \E v \in seen[s] : v = NoStatus \/ State(v) = target.state
      BY <2>1 DEF CheckedOrAbsent
    <2>2. s \in Line /\ Now(s) \in seen[s] /\ s # 0 /\ target.state \in States
      BY <2>1 DEF IInv, NowSeen, Known, Line, TypeInv
    <2>3. Now(s) = NoStatus \/ State(Now(s)) = target.state
      <3>1. CASE target.slave = 0
        BY <2>1, <2>2, <3>1, BitsAreAll DEF Asked, IInv
      <3>2. CASE target.slave = s
        BY <2>1, <2>2, <3>2 DEF Asked
      <3> QED BY <3>1, <3>2
    <2> QED BY <2>2, <2>3
  <1>3. CASE PollExpired
    <2>1. result' # target.state /\ target' = target
      BY <1>3 DEF PollExpired, Return
    <2> QED BY <2>1 DEF CheckedOrAbsent
  <1>4. CASE ReadState \/ ReadSame \/ ReadDifferent \/ StateCheck \/ Continue
    <2>1. ~CheckReturned'
      BY <1>4 DEF ReadState, ReadSame, ReadDifferent, StateCheck, Continue, Call,
         Return, CheckReturned
    <2> QED BY <2>1 DEF CheckedOrAbsent
  <1>5. CASE FPRD_multi
    <2>1. ~CheckReturned'
      BY <1>5, OneFrame DEF IInv, Return, CheckReturned
    <2> QED BY <2>1 DEF CheckedOrAbsent
  <1> QED BY <1>1, <1>2, <1>3, <1>4, <1>5 DEF Next, Outside

LEMMA InitIInv == Init => IInv
  <1> SUFFICES ASSUME Init PROVE IInv
    OBVIOUS
  <1>1. TypeInv /\ TypeOK
    BY InitType, TypesAreOK
  <1>2. pc = "idle"
    BY DEF Init
  <1> QED BY <1>1, <1>2 DEF IInv, NowSeen, MultiInv, ListIsObserved, ChunksFit,
             AllAtLeast, CheckedOrAbsent, ReadReturned, CheckReturned

LEMMA Invariant == Spec => []IInv
  <1>0. TypeInv' => TypeOK'
    BY TypesAreOK, PTL
  <1>1. IInv /\ [Next]_vars => IInv'
    BY <1>0, TypeStep, NowStep, MultiStep, ReadStep, CheckStep DEF IInv
  <1> QED BY InitIInv, <1>1, PTL DEF Spec

\* ecx_readstate enters only states that the slaves had while it ran, and its
\* frames leave no slave out, whatever the number of slaves and the size of a
\* frame, and whichever frames are lost.
THEOREM ReadIsObserved == Spec => []ListIsObserved
  <1>1. IInv => ListIsObserved
    BY DEF IInv
  <1> QED BY Invariant, <1>1, PTL

\* No slave was always below the state that ecx_readstate returns.
THEOREM ReadIsLowest == Spec => []AllAtLeast
  <1>1. IInv => AllAtLeast
    BY DEF IInv
  <1> QED BY Invariant, <1>1, PTL

\* When ecx_statecheck finds the state it waits for, every slave asked was in it
\* or did not answer.
THEOREM CheckIsObserved == Spec => []CheckedOrAbsent
  <1>1. IInv => CheckedOrAbsent
    BY DEF IInv
  <1> QED BY Invariant, <1>1, PTL
===============================================================================
