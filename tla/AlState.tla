-------------------------------- MODULE AlState --------------------------------
(* The AL states of the slaves as the master sees them: ecx_writestate,        *)
(* ecx_readstate and ecx_statecheck.  An AL status is the set of its bits, so  *)
(* that a broadcast read, into which every slave ORs its own, returns their    *)
(* union.  Slave N + 1 is not in the master's list: it was connected later.    *)
EXTENDS Integers, FiniteSets

CONSTANTS N,              \* ec_slavecount
          FPRD_MULTI,     \* slaves in one frame of ecx_FPRD_multi (64)
          MaxEvents,      \* bound: slaves that change, come and go
          MaxCalls        \* bound: calls of the master

ASSUME NAssumption     == N \in Nat \ {0}
ASSUME MultiAssumption == FPRD_MULTI \in Nat \ {0}
ASSUME BoundAssumption == MaxEvents \in Nat /\ MaxCalls \in Nat

INIT        == {0}
PRE_OP      == {1}
BOOT        == {0, 1}
SAFE_OP     == {2}
OPERATIONAL == {3}
ERROR       == {4}
States   == {INIT, PRE_OP, BOOT, SAFE_OP, OPERATIONAL}
Statuses == States \cup {s \cup ERROR : s \in States}
NoStatus == {}               \* what a read leaves that no slave has answered

Known  == 1 .. N
Line   == 1 .. N + 1

VARIABLES
  \* external: the slaves
  al,        \* their AL status
  here,      \* the slaves that are connected
  events,    \* changes so far
  \* the master
  list,      \* ec_slave[0 .. N].state
  pc,        \* "idle", "brd", "multi", "check", "returned"
  calls,     \* calls so far
  fslave,    \* first slave of the next ecx_FPRD_multi
  lowest,    \* lowest state so far
  target,    \* the slave and the state an ecx_statecheck is about
  result,    \* what the call returned
  via,       \* how: "same" or "multi" of ecx_readstate, or "check"
  \* history
  seen,      \* per slave: its statuses during the call, NoStatus if absent
  joined     \* slave N + 1 was connected during the call

slaves == <<al, here, events>>
history == <<seen, joined>>
vars == <<slaves, list, pc, calls, fslave, lowest, target, result, via, history>>

State(v) == v \ ERROR
\* As numbers, which "lowest" compares; it starts with 0xff.
Unset == 0 .. 7
Number(v) == CASE v = NoStatus -> 0 [] v = INIT -> 1 [] v = PRE_OP -> 2
               [] v = BOOT -> 3 [] v = SAFE_OP -> 4 [] v = OPERATIONAL -> 8
               [] v = Unset -> 255
Lowest(S) == CHOOSE v \in S : \A w \in S : Number(v) <= Number(w)

Now(s) == IF s \in here THEN al[s] ELSE NoStatus

Init ==
    /\ al \in [Line -> States] /\ al[N + 1] = INIT /\ here = Known /\ events = 0
    /\ list = [s \in 0 .. N |-> NoStatus]
    /\ pc = "idle" /\ calls = 0 /\ fslave = 1 /\ lowest = Unset /\ result = NoStatus
    /\ target = [slave |-> 0, state |-> INIT] /\ via = "same"
    /\ seen = [s \in Line |-> {}] /\ joined = FALSE

Call(next) ==
    /\ pc = "idle" /\ calls < MaxCalls
    /\ pc' = next /\ calls' = calls + 1
    /\ seen' = [s \in Line |-> {Now(s)}] /\ joined' = (N + 1 \in here)

Return(how, v) == pc' = "returned" /\ via' = how /\ result' = v

-------------------------------------------------------------------------------
(* ecx_readstate *)

ReadState ==
    /\ Call("brd")
    /\ UNCHANGED <<slaves, list, fslave, lowest, target, result, via>>

\* What the broadcast read returns, and its work counter; a lost frame returns
\* nothing.
Bits == UNION {al[s] : s \in here}

\* Variant: the work counter is not looked at.
Same_AnyWkc == ERROR \cap Bits = {} /\ Bits \in States
\* No slave has an error, the combined state is a state, and all have answered.
Same == ERROR \cap Bits = {} /\ Bits \in States /\ Cardinality(here) >= N

ReadSame ==
    /\ pc = "brd" /\ Same
    /\ list' = [s \in 0 .. N |-> Bits]
    /\ Return("same", Bits)
    /\ UNCHANGED <<slaves, calls, fslave, lowest, target, history>>

\* Otherwise, and when the frame was lost, every slave is asked.
ReadDifferent ==
    /\ pc = "brd"
    /\ \/ ~Same /\ list' = [list EXCEPT ![0] =
                              IF State(Bits) \in States THEN State(Bits) ELSE @]
       \/ UNCHANGED list
    /\ pc' = "multi" /\ fslave' = 1 /\ lowest' = Unset
    /\ UNCHANGED <<slaves, calls, target, result, via, history>>

\* The last slave of the frame that starts with fslave.
lslave == IF N - fslave >= FPRD_MULTI THEN fslave + FPRD_MULTI - 1 ELSE N

\* Variant: the lowest state of the last frame is returned.
FPRD_multi_LastFrame ==
    /\ pc = "multi"
    /\ \E answered \in BOOLEAN :
         LET chunk == fslave .. lslave
             got == [s \in chunk |-> IF answered THEN Now(s) ELSE NoStatus]
             low == Lowest({State(got[s]) : s \in chunk})
         IN  /\ lowest' = low
             /\ list' = [s \in 0 .. N |-> IF s \in chunk THEN got[s]
                                           ELSE IF s = 0 /\ lslave = N THEN low
                                           ELSE list[s]]
             /\ IF lslave < N THEN UNCHANGED <<pc, result, via>>
                              ELSE Return("multi", low)
    /\ fslave' = lslave + 1
    /\ UNCHANGED <<slaves, calls, target, history>>

\* One ecx_FPRD_multi: what a slave does not answer stays 0, and the work
\* counter is not looked at.
FPRD_multi ==
    /\ pc = "multi"
    /\ \E answered \in BOOLEAN :
         LET chunk == fslave .. lslave
             got == [s \in chunk |-> IF answered THEN Now(s) ELSE NoStatus]
             low == Lowest({lowest} \cup {State(got[s]) : s \in chunk})
         IN  /\ lowest' = low
             /\ list' = [s \in 0 .. N |-> IF s \in chunk THEN got[s]
                                           ELSE IF s = 0 /\ lslave = N THEN low
                                           ELSE list[s]]
             /\ IF lslave < N THEN UNCHANGED <<pc, result, via>>
                              ELSE Return("multi", low)
    /\ fslave' = lslave + 1
    /\ UNCHANGED <<slaves, calls, target, history>>

-------------------------------------------------------------------------------
(* ecx_statecheck *)

StateCheck ==
    /\ \E s \in 0 .. N, st \in States : target' = [slave |-> s, state |-> st]
    /\ Call("check")
    /\ UNCHANGED <<slaves, list, fslave, lowest, result, via>>

Asked == IF target.slave = 0 THEN Bits ELSE Now(target.slave)

\* Variant: the bits of the state are enough.
Reached_Bits(v) == target.state \subseteq State(v)

\* The state that is compared: the error bit is left out.
Reached(v) == State(v) = target.state

\* The last poll of the call: it finds the state, or whatever it finds, or
\* nothing if the frame is lost, when the timer has expired.  A poll before it
\* changes nothing.
PollReached ==
    /\ pc = "check" /\ Reached(Asked)
    /\ list' = [list EXCEPT ![target.slave] = Asked]
    /\ Return("check", target.state)
    /\ UNCHANGED <<slaves, calls, fslave, lowest, target, history>>

PollExpired ==
    /\ pc = "check"
    /\ \E v \in {Asked, NoStatus} :
          /\ State(v) # target.state
          /\ list' = [list EXCEPT ![target.slave] = v]
          /\ Return("check", State(v))
    /\ UNCHANGED <<slaves, calls, fslave, lowest, target, history>>

-------------------------------------------------------------------------------
\* The caller goes on.
Continue ==
    /\ pc = "returned"
    /\ pc' = "idle"
    /\ UNCHANGED <<slaves, list, calls, fslave, lowest, target, result, via, history>>

(* The slaves, external.  A request of ecx_writestate, or an error of its own, *)
(* changes the status of a slave at any time.                                  *)
Event ==
    /\ events < MaxEvents
    /\ events' = events + 1
    /\ seen' = [s \in Line |-> seen[s] \cup {Now(s)'}]
    /\ joined' = (joined \/ N + 1 \in here')
    /\ UNCHANGED <<list, pc, calls, fslave, lowest, target, result, via>>

ChangeState ==
    /\ \E s \in here, v \in Statuses : al' = [al EXCEPT ![s] = v]
    /\ UNCHANGED here
    /\ Event

Disconnect ==
    /\ \E s \in here : here' = here \ {s}
    /\ UNCHANGED al
    /\ Event

Connect ==
    /\ \E s \in Line \ here : /\ here' = here \cup {s}
                              /\ al' = [al EXCEPT ![s] = INIT]
    /\ Event

Next == \/ ReadState \/ ReadSame \/ ReadDifferent \/ FPRD_multi
        \/ StateCheck \/ PollReached \/ PollExpired \/ Continue
        \/ ChangeState \/ Disconnect \/ Connect

Spec == Init /\ [][Next]_vars

-------------------------------------------------------------------------------
TypeOK ==
    /\ al \in [Line -> Statuses] /\ here \subseteq Line /\ events \in 0 .. MaxEvents
    /\ \A s \in 0 .. N : list[s] \subseteq 0 .. 4
    /\ \A s \in Known : list[s] \in Statuses \cup {NoStatus} \/ via = "same"
    /\ pc \in {"idle", "brd", "multi", "check", "returned"}
    /\ calls \in 0 .. MaxCalls /\ fslave \in 1 .. N + 1 /\ lowest \in States \cup {NoStatus, Unset}
    /\ target \in [slave : 0 .. N, state : States]
    /\ result \subseteq 0 .. 3 /\ via \in {"same", "multi", "check"}
    /\ \A s \in Line : seen[s] \subseteq Statuses \cup {NoStatus}
    /\ joined \in BOOLEAN

ReadReturned  == pc = "returned" /\ via # "check"
CheckReturned == pc = "returned" /\ via = "check"

\* The frames of ecx_readstate hold what its arrays hold, and no slave is left
\* out between two of them.
ChunksFit ==
    /\ pc = "multi" => lslave - fslave < FPRD_MULTI
    /\ ReadReturned /\ via = "multi" => fslave = N + 1

\* The states that ecx_readstate enters in the list are states that the slaves
\* had while it ran; a slave that is gone is not entered as present.  This needs
\* that no slave joined, whose answer makes up for one that is missing, and that
\* the list is not one of slaves in BOOT, which INIT and PRE_OP add up to.  And
\* the arrays of ecx_readstate and the list stay inside their bounds.
ListIsObserved ==
    /\ TypeOK /\ ChunksFit
    /\ ReadReturned /\ ~joined /\ ~(via = "same" /\ result = BOOT) =>
         \A s \in Known : list[s] = NoStatus \/ State(list[s]) \in {State(v) : v \in seen[s]}

\* When ecx_readstate returns a state, no slave was always below it.
AllAtLeast ==
    ReadReturned /\ ~joined /\ result \notin {NoStatus, BOOT} =>
       \A s \in Known : \E v \in seen[s] : Number(State(v)) >= Number(result)

\* When ecx_statecheck finds the state it was asked for in all slaves, every one
\* of them was in it or was not there; BOOT is an exception as above.
CheckedOrAbsent ==
    CheckReturned /\ result = target.state /\ target.state # BOOT =>
       \A s \in Known : target.slave \in {0, s} =>
          \E v \in seen[s] : v = NoStatus \/ State(v) = target.state
===============================================================================
