--------------------------------- MODULE Calls ---------------------------------
(* What the functions that prepare the slaves stand on: a thread in one call   *)
(* of the library at a time, its context, and the bus.  The modules that       *)
(* extend this one share its variables, each in a scenario of its own.         *)
EXTENDS Integers, Sequences, FiniteSets, SequencesExt, FiniteSetsExt

VARIABLES
  scenario, \* "none", or what the behaviour is about
  pc,       \* "idle", or where the running call is
  me,       \* the running call: its arguments and local variables
  context,  \* what the master remembers between calls
  bus       \* the slaves, external

vars == <<scenario, pc, me, context, bus>>

NoCall == [service |-> "none"]

Init == /\ scenario = "none" /\ pc = "idle" /\ me = NoCall
        /\ context = <<>> /\ bus = <<>>

\* The scenario begins with a context and a bus.
Start(name, master, slaves) ==
    /\ scenario = "none" /\ scenario' = name
    /\ context' = master /\ bus' = slaves
    /\ UNCHANGED <<pc, me>>

In(name, label) == scenario = name /\ pc = label
Goto(label) == pc' = label /\ UNCHANGED scenario
===============================================================================
