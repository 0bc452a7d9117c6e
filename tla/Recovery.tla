-------------------------------- MODULE Recovery -------------------------------
(* ecx_recover_slave gives a slave that lost its address that address again,    *)
(* after it was found to be the slave that is expected at the position, and     *)
(* ecx_reconfig_slave brings it to Safe-Op.  Slaves lose power and come back    *)
(* while this goes on; a datagram or its answer may be lost.                    *)
EXTENDS Calls

CONSTANTS Units,        \* the slaves, numbered by their position when all are there
          MaxMissed,    \* bound: datagrams or answers lost
          MaxPower      \* bound: power failures

None == 0               \* no address
Temp == -1              \* EC_TEMPNODE; the address of slave s is s

\* bus.here: the slaves with power, in the order of the cable; each has addr, its
\* AL state, and whether its sync managers and FMMUs are programmed.
StartRecovery ==
    Start("recovery", [configadr |-> [s \in Units |-> s]],
          [here |-> [i \in 1 .. Cardinality(Units) |-> i], missed |-> 0, power |-> 0,
           unit |-> [s \in Units |-> [addr |-> s, state |-> "safeop",
                                      sm |-> TRUE, fmmu |-> TRUE]]])

At(label) == In("recovery", label)
Fresh == [addr |-> None, state |-> "init", sm |-> FALSE, fmmu |-> FALSE]

PowerFails ==
    /\ scenario = "recovery" /\ bus.power < MaxPower
    /\ \E s \in ToSet(bus.here) :
         bus' = [bus EXCEPT !.here = Remove(@, s), !.power = @ + 1,
                               !.unit[s] = Fresh]
    /\ UNCHANGED <<scenario, pc, me, context>>

PowerReturns ==
    /\ scenario = "recovery"
    /\ \E s \in Units \ ToSet(bus.here) :
         bus' = [bus EXCEPT !.here = SetToSortSeq(ToSet(@) \cup {s}, <)]
    /\ UNCHANGED <<scenario, pc, me, context>>

-------------------------------------------------------------------------------
(* Datagrams by position and by address; wkc is how many slaves they reached.  *)

AtPosition(s) == IF s \in DOMAIN bus.here THEN {bus.here[s]} ELSE {}
AtAddress(a)  == {s \in ToSet(bus.here) : bus.unit[s].addr = a}

\* The datagram does something to the slaves it reaches.
Apply(slaves, f(_)) ==
    [bus EXCEPT !.unit = [s \in DOMAIN @ |-> IF s \in slaves THEN f(@[s]) ELSE @[s]]]
MayMiss == bus.missed < MaxMissed
Missed(b) == [b EXCEPT !.missed = @ + 1]

\* It arrives, it is lost, or its answer is.
Write(slaves, f(_), Then(_)) ==
    \/ bus' = Apply(slaves, f) /\ Then(Cardinality(slaves))
    \/ MayMiss /\ bus' = Missed(bus) /\ Then(0)
    \/ MayMiss /\ slaves # {} /\ bus' = Missed(Apply(slaves, f)) /\ Then(0)

At0(u) == [u EXCEPT !.addr = None]
AtTemp(u) == [u EXCEPT !.addr = Temp]
To(label) == me' = me /\ Goto(label)
Returns(rval) == me' = [me EXCEPT !.rval = rval] /\ Goto("done")

Call(service) == \E s \in Units :
    /\ At("idle")
    /\ me' = [service |-> service, slave |-> s, rval |-> 0,
              configadr |-> context.configadr[s],
              missed |-> bus.missed, power |-> bus.power]
    /\ Goto(service) /\ UNCHANGED <<context, bus>>

recover_slave  == Call("recover")
reconfig_slave == Call("reconfig")

-------------------------------------------------------------------------------
(* ecx_recover_slave *)

\* Only a slave without an address is taken.
ReadAddress ==
    /\ At("recover")
    /\ LET found == AtPosition(me.slave)
       IN  \/ /\ UNCHANGED bus
              /\ CASE \E u \in found : bus.unit[u].addr = context.configadr[me.slave] -> Returns(1)
                   [] \E u \in found : bus.unit[u].addr = None -> To("clear")
                   [] OTHER -> Returns(0)
           \/ MayMiss /\ bus' = Missed(bus) /\ Returns(0)
    /\ UNCHANGED context

\* The address in the slave list, the temporary one for a while.
Configadr(a) == context' = [context EXCEPT !.configadr[me.slave] = a]

ClearTemp ==
    /\ At("clear")
    /\ Write(AtAddress(Temp), At0, LAMBDA wkc : To("temp"))
    /\ UNCHANGED context

SetTemp ==
    /\ At("temp")
    /\ Write(AtPosition(me.slave), AtTemp,
             LAMBDA wkc : IF wkc > 0
                          THEN To("identify") /\ Configadr(Temp)
                          ELSE To("give up") /\ UNCHANGED context)

GiveUp ==
    /\ At("give up")
    /\ Write(AtAddress(Temp), At0, LAMBDA wkc : Returns(0))
    /\ UNCHANGED context

\* Alias and identity are those of the slave that was configured before.  Of
\* several slaves the last one on the cable is read.
Expected(found) == found # {} /\ Max(found) = me.slave

\* Variant: whatever answers is taken.
Identify_Any ==
    /\ At("identify")
    /\ To(IF AtAddress(Temp) # {} THEN "give" ELSE "remove") /\ UNCHANGED bus
    /\ UNCHANGED context
\* Four reads, each of which may fail.
Identify ==
    /\ At("identify")
    /\ \/ To(IF Expected(AtAddress(Temp)) THEN "give" ELSE "remove") /\ UNCHANGED bus
       \/ MayMiss /\ bus' = Missed(bus) /\ To("remove")
    /\ UNCHANGED context

GiveAddress ==
    /\ At("give")
    /\ Write(AtAddress(Temp), LAMBDA u : [u EXCEPT !.addr = me.configadr], Returns)
    /\ Configadr(me.configadr)

RemoveAddress ==
    /\ At("remove")
    /\ Write(AtAddress(Temp), At0, LAMBDA wkc : Returns(0))
    /\ Configadr(me.configadr)

-------------------------------------------------------------------------------
(* ecx_reconfig_slave *)

Own == AtAddress(context.configadr[me.slave])

RequestInit ==
    /\ At("reconfig")
    /\ Write(Own, LAMBDA u : [u EXCEPT !.state = "init"], LAMBDA wkc : IF wkc > 0 THEN To("init") ELSE Returns(0))
    /\ UNCHANGED context

\* ecx_statecheck: the state that is read in the end, 0 when none was.
Check(state, yes, no) ==
    \/ \E u \in Own : bus.unit[u].state = state /\ To(yes) /\ UNCHANGED bus
    \/ /\ \A u \in Own : bus.unit[u].state # state
       /\ me' = [me EXCEPT !.rval = 0] /\ Goto(no) /\ UNCHANGED bus
    \/ MayMiss /\ bus' = Missed(bus) /\ me' = [me EXCEPT !.rval = 0] /\ Goto(no)

CheckInit == At("init") /\ Check("init", "sm", "done") /\ UNCHANGED context

ProgramSM ==
    /\ At("sm")
    /\ Write(Own, LAMBDA u : [u EXCEPT !.sm = TRUE], LAMBDA wkc : To("preop"))
    /\ UNCHANGED context

\* A slave does not go to Pre-Op or on without its sync managers.
Up(u, from, to) == IF u.state = from /\ u.sm THEN [u EXCEPT !.state = to] ELSE u

RequestPreOp ==
    /\ At("preop")
    /\ Write(Own, LAMBDA u : Up(u, "init", "preop"), LAMBDA wkc : To("in preop"))
    /\ UNCHANGED context

CheckPreOp == At("in preop") /\ Check("preop", "safeop", "done") /\ UNCHANGED context

RequestSafeOp ==
    /\ At("safeop")
    /\ Write(Own, LAMBDA u : Up(u, "preop", "safeop"), LAMBDA wkc : To("in safeop"))
    /\ UNCHANGED context

\* The FMMUs are programmed whichever state was reached.
CheckSafeOp ==
    /\ At("in safeop")
    /\ \/ /\ \E u \in Own : bus.unit[u].state = "safeop"
          /\ me' = [me EXCEPT !.rval = 4] /\ UNCHANGED bus
       \/ /\ \A u \in Own : bus.unit[u].state # "safeop"
          /\ me' = [me EXCEPT !.rval = 0] /\ UNCHANGED bus
       \/ MayMiss /\ bus' = Missed(bus) /\ me' = [me EXCEPT !.rval = 0]
    /\ Goto("fmmu") /\ UNCHANGED context

ProgramFMMU ==
    /\ At("fmmu")
    /\ Write(Own, LAMBDA u : [u EXCEPT !.fmmu = TRUE], LAMBDA wkc : To("done"))
    /\ UNCHANGED context

Return == /\ At("done") /\ me' = NoCall
          /\ Goto("idle") /\ UNCHANGED <<context, bus>>

Master == \/ ReadAddress \/ ClearTemp \/ SetTemp \/ GiveUp \/ Identify
          \/ GiveAddress \/ RemoveAddress \/ RequestInit \/ CheckInit \/ ProgramSM
          \/ RequestPreOp \/ CheckPreOp \/ RequestSafeOp \/ CheckSafeOp
          \/ ProgramFMMU \/ Return

Next == \/ StartRecovery \/ recover_slave \/ reconfig_slave \/ Master
        \/ PowerFails \/ PowerReturns

-------------------------------------------------------------------------------
\* No slave gets the address of another, however slaves come and go while one is
\* recovered and its position becomes that of another; all slaves differ in alias
\* or identity.  One loss is survived; two can leave two slaves at EC_TEMPNODE:
\* the address that is given is lost, and later the clearing of EC_TEMPNODE.
AddressIsOwn == scenario = "recovery" /\ bus.missed <= 1 =>
    \A s \in Units : /\ bus.unit[s].addr \in {None, Temp, s}
                     /\ pc \in {"idle", "done"} => context.configadr[s] = s

\* A slave that is said to be recovered has its address, and one that is said to
\* be in Safe-Op has its sync managers, and its FMMUs if nothing was lost and no
\* power failed meanwhile.
RecoveredIsReady == scenario = "recovery" /\ pc = "done" /\ bus.power = me.power =>
    LET u == bus.unit[me.slave]
    IN  /\ me.service = "recover" /\ me.rval > 0 => u.addr = me.slave
        /\ me.service = "reconfig" /\ me.rval = 4 =>
             /\ u.state = "safeop" /\ u.sm
             /\ bus.missed = me.missed => u.fmmu
===============================================================================
