---------------------------- MODULE ParamDownload -----------------------------
(* param_download_to_motion of firm_update: the parameters of the file are     *)
(* read from the slave (Pre), written (Set), read again (Check), logged, and   *)
(* stored by a write to object 0x1010:04.  The result of ec_SDOread and        *)
(* ec_SDOwrite is not looked at: a read that fails leaves the local variable   *)
(* of the parameter's data type as it was.                                     *)
EXTENDS Integers, Sequences, FiniteSets

CONSTANTS Objects,    \* index and subindex pairs of the slave
          Width,      \* bits of a value
          MaxParam    \* bound: lines of the parameter file

ASSUME WidthAssumption == Width \in Nat \ {0}
ASSUME ParamAssumption == MaxParam \in Nat

Types == {"unsigned", "signed"}
Raw == 0 .. 2^Width - 1
Values == -(2^(Width - 1)) .. 2^Width - 1

\* What is sent for a value, and what a variable of the type holds for it.
Encode(v) == v % 2^Width
Decode(type, raw) == IF type = "signed" /\ raw >= 2^(Width - 1)
                     THEN raw - 2^Width ELSE raw

\* A line of the file.  SET_VALUE_SKIP (-1) is a value like any other.
Param == [obj : Objects, type : Types, set : Values]

VARIABLES
  params,   \* Param_Raw
  pc,       \* "pre", "set", "check", "log", "save", "done"
  i,        \* loop index
  local,    \* per type: u_8_int, s_8_int, ... of that width
  pre,      \* preVals
  check,    \* checkVals
  log,      \* the last column of the log file
  od,       \* external: the object dictionary of the slave
  stored,   \* external: what the slave has in non-volatile memory
  od0,      \* history: the object dictionary before
  failed    \* history: the calls that failed: "read", "write", "save"

vars == <<params, pc, i, local, pre, check, log, od, stored, od0, failed>>

Count == Len(params)
Zeros == [n \in 1 .. Count |-> 0]

Init ==
    /\ \E c \in 1 .. MaxParam : params \in [1 .. c -> Param]
    /\ pc = "pre" /\ i = 1
    /\ local = [t \in Types |-> 0]
    /\ pre = Zeros /\ check = Zeros
    /\ log = [n \in 1 .. Count |-> ""]
    /\ od \in [Objects -> Raw] /\ od0 = od /\ stored = od
    /\ failed = {}

\* The loop goes on, or the next one begins.
Advance(next) == IF i < Count THEN i' = i + 1 /\ UNCHANGED pc
                              ELSE i' = 1 /\ pc' = next

\* ec_SDOread of a parameter, as the value it leaves in the local variable.
SDOread(p, v) == \/ v = Decode(p.type, od[p.obj]) /\ UNCHANGED failed
                 \/ v = local[p.type] /\ failed' = failed \cup {"read"}

ReadPre ==
    /\ pc = "pre"
    /\ LET p == params[i]
       IN  \E v \in Values :
             /\ SDOread(p, v)
             /\ local' = [local EXCEPT ![p.type] = v]
             /\ pre' = [pre EXCEPT ![i] = v]
    /\ Advance("set")
    /\ UNCHANGED <<params, check, log, od, stored, od0>>

\* Variant: a value of -1 is left out.
WriteSet_Skip ==
    /\ pc = "set"
    /\ LET p == params[i]
       IN  IF p.set = -1 THEN UNCHANGED <<local, od, failed>>
           ELSE /\ local' = [local EXCEPT ![p.type] = Decode(p.type, Encode(p.set))]
                /\ \/ /\ od' = [od EXCEPT ![p.obj] = Encode(p.set)]
                      /\ UNCHANGED failed
                   \/ /\ od' \in {od, [od EXCEPT ![p.obj] = Encode(p.set)]}
                      /\ failed' = failed \cup {"write"}
    /\ Advance("check")
    /\ UNCHANGED <<params, pre, check, log, stored, od0>>

\* A write that fails may have been executed.
WriteSet ==
    /\ pc = "set"
    /\ LET p == params[i]
       IN  /\ local' = [local EXCEPT ![p.type] = Decode(p.type, Encode(p.set))]
           /\ \/ /\ od' = [od EXCEPT ![p.obj] = Encode(p.set)]
                 /\ UNCHANGED failed
              \/ /\ od' \in {od, [od EXCEPT ![p.obj] = Encode(p.set)]}
                 /\ failed' = failed \cup {"write"}
    /\ Advance("check")
    /\ UNCHANGED <<params, pre, check, log, stored, od0>>

ReadCheck ==
    /\ pc = "check"
    /\ LET p == params[i]
       IN  \E v \in Values :
             /\ SDOread(p, v)
             /\ local' = [local EXCEPT ![p.type] = v]
             /\ check' = [check EXCEPT ![i] = v]
    /\ Advance("log")
    /\ UNCHANGED <<params, pre, log, od, stored, od0>>

Verdict(n) ==
    IF pre[n] # check[n] THEN "Warning"
    ELSE IF pre[n] # params[n].set THEN "Modified" ELSE "OK"

WriteLog ==
    /\ pc = "log"
    /\ log' = [log EXCEPT ![i] = Verdict(i)]
    /\ Advance("save")
    /\ UNCHANGED <<params, local, pre, check, od, stored, od0, failed>>

\* The slave stores its dictionary, unless the write fails before it.
Save ==
    /\ pc = "save"
    /\ \/ stored' = od /\ UNCHANGED failed
       \/ stored' \in {stored, od} /\ failed' = failed \cup {"save"}
    /\ pc' = "done"
    /\ UNCHANGED <<params, i, local, pre, check, log, od, od0>>

Next == ReadPre \/ WriteSet \/ ReadCheck \/ WriteLog \/ Save

Spec == Init /\ [][Next]_vars

-------------------------------------------------------------------------------
\* What a variable of a type may hold.
Held(type) == {0} \cup {Decode(type, r) : r \in Raw}

TypeOK ==
    /\ params \in Seq(Param) /\ i \in 1 .. Count
    /\ pc \in {"pre", "set", "check", "log", "save", "done"}
    /\ \A t \in Types : local[t] \in Held(t)
    /\ \A n \in 1 .. Count :
         /\ {pre[n], check[n]} \subseteq Held(params[n].type)
         /\ log[n] \in {"", "OK", "Modified", "Warning"}
    /\ od \in [Objects -> Raw] /\ stored \in [Objects -> Raw] /\ od0 \in [Objects -> Raw]
    /\ failed \subseteq {"read", "write", "save"}

\* The values logged as Pre are those from before the download, also when two
\* lines of the file name the same object.
PreIsOriginal ==
    pc # "pre" /\ "read" \notin failed =>
       \A n \in 1 .. Count : pre[n] = Decode(params[n].type, od0[params[n].obj])

\* What was read before the first value was set.
Inv == TypeOK /\ PreIsOriginal

\* Without a failed call the object has, and keeps over a restart, the value of
\* its last line; every line that is the only one of its object was read back
\* with that value.
LastLineStored ==
    pc = "done" /\ failed = {} =>
       \A n \in 1 .. Count :
          (\A m \in n + 1 .. Count : params[m].obj # params[n].obj) =>
             /\ stored[params[n].obj] = Encode(params[n].set)
             /\ check[n] = Decode(params[n].type, stored[params[n].obj])

\* A line logged as OK had its value before and has it now, if its reads did
\* not fail, whatever happened to the writes.
OkIsStable ==
    \A n \in 1 .. Count :
       log[n] = "OK" /\ "read" \notin failed =>
          LET p == params[n]
          IN  Decode(p.type, od0[p.obj]) = p.set /\ Decode(p.type, od[p.obj]) = p.set
===============================================================================
