------------------------------ MODULE Tool_proofs ------------------------------
(* What the buttons of the update tool promise, for any number of faults and of *)
(* clicks; and what the log of a parameter download says, for any objects, any  *)
(* width of a value and any number of lines.                                    *)
EXTENDS MCTool, TLAPS

-------------------------------------------------------------------------------
(* The buttons of the update tool *)

Axes == UT!Axes
Buttons == {"firmware", "parameter", "clear", "encoder", "extract"}
Cmds == [fn : {"f", "v", "g", "s", "r", "x", "p", "e"}, slave : Axes, file : Axes \cup {0},
         op : {"none", "get", "and", "or"}]
Stages == {"none", "config", "preop", "work", "exit", "safeop", "write", "init", "eeprom",
           "program", "boot", "download", "leave"}
Boxes == {"std", "boot", "none"}

\* A run of firm_update is at a stage that its option leads to.
StageInv ==
    /\ button \in Buttons \cup {"none"} /\ axis \in Axes /\ msg \in {"none", "ok", "fail"}
    /\ run \in Stages /\ iResult \in BOOLEAN
    /\ cmd.fn = "none" \/ cmd \in Cmds
    /\ run # "none" => button # "none" /\ cmd \in Cmds
    /\ run = "work" => cmd.fn \in {"v", "g", "s", "r", "x", "p"}
    /\ run = "preop" => cmd.fn \in {"v", "g", "s", "r", "x", "p"}
    /\ run \in {"safeop", "write"} => cmd.fn = "e"
    /\ run \in {"init", "eeprom", "program", "boot", "download", "leave"} => cmd.fn = "f"

\* Faults are counted, and clicks.
CountInv == faults \in 0 .. MaxFaults /\ before \in 0 .. faults /\ clicks \in 0 .. MaxClicks

\* The slaves, and the words that are read from them and written to them.
SlaveInv ==
    /\ al \in [Axes -> {"INIT", "PREOP", "SAFEOP", "BOOT"}]
    /\ sm \in [Axes -> Boxes \X Boxes] /\ mbx \in Boxes \X Boxes
    /\ fw \in [Axes -> Axes \cup {0}] /\ par \in [Axes -> Axes \cup {0}]
    /\ readable \in SUBSET Axes
WordInv ==
    /\ iGetValue \in UT!Word /\ word \in [Axes -> UT!Word] /\ clicked \in Seq(UT!Word)
    /\ output = <<>> \/ \E w \in UT!Word : output = <<w>>

\* What has still to be run is the end of what the button is there for, and what
\* runs comes before it.
Whole == UT!Scripts(button, axis)
Ran == Len(Whole) - Len(script)
ScriptInv ==
    /\ button = "none" => script = <<>> /\ run = "none"
    /\ button # "none" =>
         /\ button \in {"firmware", "extract"} => axis = 1
         /\ script \in Seq(Cmds) /\ Len(script) <= Len(Whole)
         /\ \A j \in 1 .. Len(script) : script[j] = Whole[Ran + j]
         /\ run # "none" => Ran > 0 /\ cmd = Whole[Ran]

\* A slave has the mailboxes of BOOT only when the master got both from the EEPROM.
MailboxInv ==
    /\ run \in {"init", "eeprom", "program"} => sm[cmd.slave] = UT!Std
    /\ run = "boot" => (sm[cmd.slave] = UT!Boot => mbx = UT!Boot)
    /\ run = "download" => /\ al[cmd.slave] = "BOOT"
                           /\ mbx = UT!Boot /\ sm[cmd.slave] = mbx

\* The files that have arrived are the first ones, as many as downloads succeeded.
Files(n) == IF n >= 5 THEN 3 ELSE IF n >= 3 THEN 2 ELSE IF n >= 1 THEN 1 ELSE 0
Complete == IF run # "none" /\ cmd.fn = "f" /\ ~iResult THEN Files(Ran) - 1 ELSE Files(Ran)
FirstFiles(n) == [k \in 1 .. n |-> k]
FirmwareInv ==
    /\ \E n \in 0 .. 3 : loaded = FirstFiles(n)
    /\ button \in {"parameter", "clear", "encoder", "extract"} => loaded = <<>>
    /\ run \notin {"none", "leave", "exit"} => ~iResult
    /\ button = "firmware" =>
         /\ msg = "fail" => Ran >= 6 /\ (run # "none" => Ran >= 7)
         /\ msg # "fail" =>
              /\ loaded = FirstFiles(Complete)
              /\ Complete > 0 /\ ~(run \in {"leave", "exit"} /\ cmd.fn = "f" /\ ~iResult) =>
                   fw[1] = Complete
              /\ Ran >= 2 \/ (Ran >= 1 /\ run = "none") => msg = "ok"

\* An attempt in which nothing has failed is where it should be.
Clean == faults = before /\ (readable = Axes \/ button = "parameter")
CleanInv ==
    Clean =>
      /\ msg # "fail"
      /\ run \in {"eeprom", "program", "boot"} => al[cmd.slave] = "INIT"
      /\ run \in {"program", "boot"} => mbx = UT!Boot
      /\ run = "boot" => sm[cmd.slave] = UT!Boot
      /\ run \in {"leave", "exit"} => iResult
      /\ button = "parameter" /\ (Ran >= 2 \/ (Ran >= 1 /\ run \in {"none", "exit"})) =>
           par[1] = axis
      /\ button = "parameter" /\ (Ran >= 2 \/ (Ran >= 1 /\ run = "none")) => msg = "ok"

\* The word that the error-clear button writes twice is the one that it has read.
Done(n) == Ran > n \/ (Ran = n /\ run \in {"none", "exit"})
ClearInv ==
    faults = 0 =>
      /\ \A s \in Axes : word[s].low = "own"
      /\ run = "safeop" => \A s \in Axes : al[s] = "PREOP"
      /\ run = "write" => al[cmd.slave] # "INIT"
      /\ button = "clear" =>
           /\ Ran = 1 /\ run = "exit" => output = <<word[axis]>>
           /\ Ran > 1 \/ (Ran = 1 /\ run = "none") => iGetValue.low = "own"
           /\ ~Done(2) => clicked = <<>>
           /\ Ran = 2 => ~iGetValue.bit7 \/ run = "none"
           /\ Done(2) /\ ~Done(3) => Len(clicked) = 1
           /\ Done(2) => clicked[1].low = "own" /\ ~clicked[1].bit7
           /\ Ran = 3 => iGetValue.bit7
           /\ Done(3) => Len(clicked) = 2 /\ clicked[2] = iGetValue /\ word[axis] = iGetValue

UpdateInv ==
    /\ StageInv /\ CountInv /\ SlaveInv /\ WordInv /\ ScriptInv
    /\ MailboxInv /\ FirmwareInv /\ CleanInv /\ ClearInv

\* Two sequences of commands one after the other.
LEMMA Chained ==
  ASSUME NEW a \in Seq(Cmds), NEW b \in Seq(Cmds)
  PROVE  /\ a \o b \in Seq(Cmds) /\ Len(a \o b) = Len(a) + Len(b)
         /\ \A j \in 1 .. Len(a) : (a \o b)[j] = a[j]
         /\ \A j \in 1 .. Len(b) : (a \o b)[Len(a) + j] = b[j]
  OBVIOUS

\* What the buttons run, in the order in which it is run.
LEMMA CodesAre ==
  /\ UT!getErrCode_All \in Seq(Cmds) /\ Len(UT!getErrCode_All) = 4
  /\ \A j \in 1 .. 4 : UT!getErrCode_All[j].fn = "g" /\ UT!getErrCode_All[j].op = "none"
  <1> DEFINE g(s) == UT!Plain("g", s)
  <1>1. \A s \in 1 .. 3 : g(s) \in Cmds /\ g(s).fn = "g" /\ g(s).op = "none"
    BY DEF UT!Plain, UT!Cmd, Cmds, Axes, UT!Axes, UT!AXIS_DRIVING, UT!AXIS_HOIST, UT!AXIS_SLIDE
  <1>2. UT!getErrCode_All = <<g(1), g(1), g(2), g(3)>>
    BY DEF UT!getErrCode_All, UT!AXIS_DRIVING, UT!AXIS_HOIST, UT!AXIS_SLIDE
  <1> HIDE DEF g
  <1> QED BY <1>1, <1>2

LEMMA VersionsAre ==
  /\ UT!chkFirm_version \in Seq(Cmds) /\ Len(UT!chkFirm_version) = 3
  /\ \A j \in 1 .. 3 : UT!chkFirm_version[j].fn = "v" /\ UT!chkFirm_version[j].op = "none"
  <1> DEFINE v(s) == UT!Plain("v", s)
  <1>1. \A s \in 1 .. 3 : v(s) \in Cmds /\ v(s).fn = "v" /\ v(s).op = "none"
    BY DEF UT!Plain, UT!Cmd, Cmds, Axes, UT!Axes, UT!AXIS_DRIVING, UT!AXIS_HOIST, UT!AXIS_SLIDE
  <1>2. UT!chkFirm_version = <<v(1), v(2), v(3)>>
    BY DEF UT!chkFirm_version, UT!AXIS_DRIVING, UT!AXIS_HOIST, UT!AXIS_SLIDE
  <1> HIDE DEF v
  <1> QED BY <1>1, <1>2

Checks == UT!chkFirm_version \o UT!getErrCode_All
LEMMA ChecksAre ==
  /\ Checks \in Seq(Cmds) /\ Len(Checks) = 7
  /\ \A j \in 1 .. 7 : Checks[j].fn \in {"v", "g"} /\ Checks[j].op = "none"
  <1>1. /\ Checks \in Seq(Cmds) /\ Len(Checks) = 7
        /\ \A j \in 1 .. 3 : Checks[j] = UT!chkFirm_version[j]
        /\ \A j \in 1 .. 4 : Checks[3 + j] = UT!getErrCode_All[j]
    <2> DEFINE a == UT!chkFirm_version  b == UT!getErrCode_All
    <2>1. a \in Seq(Cmds) /\ b \in Seq(Cmds) /\ Len(a) = 3 /\ Len(b) = 4 /\ Checks = a \o b
      BY CodesAre, VersionsAre DEF Checks
    <2> HIDE DEF a, b
    <2>2. /\ a \o b \in Seq(Cmds) /\ Len(a \o b) = Len(a) + Len(b)
          /\ \A j \in 1 .. Len(a) : (a \o b)[j] = a[j]
          /\ \A j \in 1 .. Len(b) : (a \o b)[Len(a) + j] = b[j]
      BY <2>1, Chained
    <2>3. /\ Checks \in Seq(Cmds) /\ Len(Checks) = 7
          /\ \A j \in 1 .. 3 : Checks[j] = a[j]
          /\ \A j \in 1 .. 4 : Checks[3 + j] = b[j]
      BY <2>1, <2>2
    <2> QED BY <2>3 DEF a, b
  <1>2. ASSUME NEW j \in 1 .. 7
        PROVE  Checks[j].fn \in {"v", "g"} /\ Checks[j].op = "none"
    <2>1. CASE j \in 1 .. 3
      BY <1>1, <2>1, VersionsAre
    <2>2. CASE j \notin 1 .. 3
      <3>1. j - 3 \in 1 .. 4 /\ 3 + (j - 3) = j
        BY <2>2
      <3> QED BY <1>1, <3>1, CodesAre
    <2> QED BY <2>1, <2>2
  <1> QED BY <1>1, <1>2

\* The firmware files go to slave 1, each followed by a reset; then the checks.
LEMMA FirmwareIs ==
  /\ UT!FirmwareNew \in Seq(Cmds) /\ Len(UT!FirmwareNew) = 13
  /\ \A n \in 1 .. 3 : LET c == UT!FirmwareNew[2 * n - 1]
                       IN  c.fn = "f" /\ c.slave = 1 /\ c.file = n /\ c.op = "none"
  /\ \A n \in 1 .. 3 : UT!FirmwareNew[2 * n].fn = "r" /\ UT!FirmwareNew[2 * n].op = "none"
  /\ \A j \in 1 .. 7 : UT!FirmwareNew[6 + j] = Checks[j]
  <1> DEFINE f(n) == UT!Cmd("f", 1, n, "none")  r(n) == UT!Plain("r", n)
             d == <<f(1), r(1), f(2), r(2), f(3), r(3)>>
  <1>1. \A n \in 1 .. 3 : /\ f(n) \in Cmds /\ f(n).fn = "f" /\ f(n).slave = 1
                          /\ f(n).file = n /\ f(n).op = "none"
                          /\ r(n) \in Cmds /\ r(n).fn = "r" /\ r(n).op = "none"
    BY DEF UT!Plain, UT!Cmd, Cmds, Axes, UT!Axes, UT!AXIS_DRIVING, UT!AXIS_HOIST, UT!AXIS_SLIDE
  <1>2. UT!FirmwareNew = (d \o UT!chkFirm_version) \o UT!getErrCode_All
    BY DEF UT!FirmwareNew, UT!AXIS_DRIVING, UT!AXIS_HOIST, UT!AXIS_SLIDE
  <1> HIDE DEF f, r
  <1>3. /\ d \in Seq(Cmds) /\ Len(d) = 6
        /\ \A n \in 1 .. 3 : d[2 * n - 1] = f(n) /\ d[2 * n] = r(n)
    BY <1>1
  <1> HIDE DEF d
  <1>4. (d \o UT!chkFirm_version) \o UT!getErrCode_All = d \o Checks
    BY <1>3, CodesAre, VersionsAre DEF Checks
  <1>5. /\ UT!FirmwareNew \in Seq(Cmds) /\ Len(UT!FirmwareNew) = 13
        /\ \A j \in 1 .. 6 : UT!FirmwareNew[j] = d[j]
        /\ \A j \in 1 .. 7 : UT!FirmwareNew[6 + j] = Checks[j]
    <2> DEFINE w == UT!FirmwareNew
    <2>1. w = d \o Checks /\ Checks \in Seq(Cmds) /\ Len(Checks) = 7
      BY <1>2, <1>4, ChecksAre
    <2> HIDE DEF w
    <2>2. /\ d \o Checks \in Seq(Cmds) /\ Len(d \o Checks) = Len(d) + Len(Checks)
          /\ \A j \in 1 .. Len(d) : (d \o Checks)[j] = d[j]
          /\ \A j \in 1 .. Len(Checks) : (d \o Checks)[Len(d) + j] = Checks[j]
      BY <1>3, <2>1, Chained
    <2>3. /\ w \in Seq(Cmds) /\ Len(w) = 13
          /\ \A j \in 1 .. 6 : w[j] = d[j]
          /\ \A j \in 1 .. 7 : w[6 + j] = Checks[j]
      <3>1. Len(d) = 6 /\ Len(Checks) = 7
        BY <1>3, <2>1
      <3>2. w \in Seq(Cmds) /\ Len(w) = 13 /\ \A j \in 1 .. 6 : w[j] = d[j]
        BY <2>1, <2>2, <3>1
      <3>3. \A j \in 1 .. 7 : w[6 + j] = Checks[j]
        BY <2>1, <2>2, <3>1
      <3> QED BY <3>2, <3>3
    <2> QED BY <2>3 DEF w
  <1>6. \A n \in 1 .. 3 : /\ UT!FirmwareNew[2 * n - 1] = f(n)
                          /\ UT!FirmwareNew[2 * n] = r(n)
    BY <1>3, <1>5
  <1> QED BY <1>1, <1>5, <1>6

LEMMA ParameterIs ==
  ASSUME NEW a \in Axes
  PROVE  /\ UT!Parameter(a) \in Seq(Cmds) /\ Len(UT!Parameter(a)) = 6
         /\ LET c == UT!Parameter(a)[1]
            IN  c.fn = "p" /\ c.slave = 1 /\ c.file = a /\ c.op = "none"
         /\ \A j \in 2 .. 6 : UT!Parameter(a)[j].fn \in {"r", "g"} /\ UT!Parameter(a)[j].op = "none"
  <1> DEFINE p == UT!Cmd("p", 1, a, "none")  r == UT!Plain("r", a)  d == <<p, r>>
  <1>1. /\ p \in Cmds /\ p.fn = "p" /\ p.slave = 1 /\ p.file = a /\ p.op = "none"
        /\ r \in Cmds /\ r.fn = "r" /\ r.op = "none"
    BY DEF UT!Plain, UT!Cmd, Cmds, Axes, UT!Axes, UT!AXIS_DRIVING, UT!AXIS_HOIST, UT!AXIS_SLIDE
  <1>2. UT!Parameter(a) = d \o UT!getErrCode_All
    BY DEF UT!Parameter
  <1> HIDE DEF p, r
  <1>3. d \in Seq(Cmds) /\ Len(d) = 2 /\ d[1] = p /\ d[2] = r
    BY <1>1
  <1> HIDE DEF d
  <1>4. /\ UT!Parameter(a) \in Seq(Cmds) /\ Len(UT!Parameter(a)) = 6
        /\ UT!Parameter(a)[1] = p /\ UT!Parameter(a)[2] = r
        /\ \A j \in 1 .. 4 : UT!Parameter(a)[2 + j] = UT!getErrCode_All[j]
    <2> DEFINE w == UT!Parameter(a)  g == UT!getErrCode_All
    <2>1. w = d \o g /\ g \in Seq(Cmds) /\ Len(g) = 4
      BY <1>2, CodesAre
    <2> HIDE DEF w, g
    <2>2. /\ d \o g \in Seq(Cmds) /\ Len(d \o g) = Len(d) + Len(g)
          /\ \A j \in 1 .. Len(d) : (d \o g)[j] = d[j]
          /\ \A j \in 1 .. Len(g) : (d \o g)[Len(d) + j] = g[j]
      BY <1>3, <2>1, Chained
    <2>3. /\ w \in Seq(Cmds) /\ Len(w) = 6 /\ w[1] = p /\ w[2] = r
          /\ \A j \in 1 .. 4 : w[2 + j] = g[j]
      BY <1>3, <2>1, <2>2
    <2> QED BY <2>3 DEF w, g
  <1>5. ASSUME NEW j \in 3 .. 6
        PROVE  UT!Parameter(a)[j].fn = "g" /\ UT!Parameter(a)[j].op = "none"
    <2>1. j - 2 \in 1 .. 4 /\ 2 + (j - 2) = j
      OBVIOUS
    <2> QED BY <1>4, <2>1, CodesAre
  <1>6. \A j \in 2 .. 6 : j = 2 \/ j \in 3 .. 6
    OBVIOUS
  <1> QED BY <1>1, <1>4, <1>5, <1>6

LEMMA ClearIs ==
  ASSUME NEW a \in Axes
  PROVE  /\ UT!ErrorClear(a) \in Seq(Cmds) /\ Len(UT!ErrorClear(a)) = 3
         /\ \A j \in 1 .. 3 : UT!ErrorClear(a)[j].slave = a
         /\ UT!ErrorClear(a)[1].fn = "g" /\ UT!ErrorClear(a)[1].op = "get"
         /\ UT!ErrorClear(a)[2].fn = "e" /\ UT!ErrorClear(a)[2].op = "and"
         /\ UT!ErrorClear(a)[3].fn = "e" /\ UT!ErrorClear(a)[3].op = "or"
  <1> DEFINE c(fn, op) == UT!Cmd(fn, a, 0, op)
  <1>1. \A fn \in {"g", "e"}, op \in {"get", "and", "or"} :
           c(fn, op) \in Cmds /\ c(fn, op).slave = a /\ c(fn, op).fn = fn /\ c(fn, op).op = op
    BY DEF UT!Cmd, Cmds
  <1>2. UT!ErrorClear(a) = <<c("g", "get"), c("e", "and"), c("e", "or")>>
    BY DEF UT!ErrorClear
  <1> HIDE DEF c
  <1> QED BY <1>1, <1>2

LEMMA OthersAre ==
  ASSUME NEW b \in {"encoder", "extract"}, NEW a \in Axes
  PROVE  /\ UT!Scripts(b, a) \in Seq(Cmds)
         /\ \A j \in 1 .. Len(UT!Scripts(b, a)) : /\ UT!Scripts(b, a)[j].fn \in {"s", "x", "g"}
                                                  /\ UT!Scripts(b, a)[j].op = "none"
  <1> DEFINE c == IF b = "encoder" THEN UT!Plain("s", a) ELSE UT!Plain("x", 1)
             g == UT!getErrCode_All
  <1>1. c \in Cmds /\ c.fn \in {"s", "x"} /\ c.op = "none"
    BY DEF UT!Plain, UT!Cmd, Cmds, Axes, UT!Axes, UT!AXIS_DRIVING, UT!AXIS_HOIST, UT!AXIS_SLIDE
  <1>2. UT!Scripts(b, a) = <<c>> \o g \/ UT!Scripts(b, a) = <<c>> \o <<>>
    BY DEF UT!Scripts, UT!EncoderReset, UT!Extraction
  <1> HIDE DEF c, g
  <1>3. <<c>> \in Seq(Cmds) /\ Len(<<c>>) = 1 /\ <<c>>[1] = c
    BY <1>1
  <1>4. ASSUME NEW t \in Seq(Cmds), \A j \in 1 .. Len(t) : t[j].fn = "g" /\ t[j].op = "none",
               UT!Scripts(b, a) = <<c>> \o t
        PROVE  /\ UT!Scripts(b, a) \in Seq(Cmds)
               /\ \A j \in 1 .. Len(UT!Scripts(b, a)) : /\ UT!Scripts(b, a)[j].fn \in {"s", "x", "g"}
                                                        /\ UT!Scripts(b, a)[j].op = "none"
    <2> DEFINE s == UT!Scripts(b, a)
    <2>1. /\ s \in Seq(Cmds) /\ Len(s) = 1 + Len(t) /\ s[1] = c
          /\ \A j \in 1 .. Len(t) : s[1 + j] = t[j]
      BY <1>3, <1>4, Chained
    <2> HIDE DEF s
    <2>2. ASSUME NEW j \in 1 .. Len(s)
          PROVE  s[j].fn \in {"s", "x", "g"} /\ s[j].op = "none"
      <3>1. CASE j = 1
        BY <1>1, <2>1, <3>1
      <3>2. CASE j # 1
        <4>1. j - 1 \in 1 .. Len(t) /\ 1 + (j - 1) = j
          BY <2>1, <3>2
        <4> QED BY <1>4, <2>1, <4>1
      <3> QED BY <3>1, <3>2
    <2> QED BY <2>1, <2>2 DEF s
  <1>5. /\ g \in Seq(Cmds) /\ \A j \in 1 .. Len(g) : g[j].fn = "g" /\ g[j].op = "none"
    BY CodesAre DEF g
  <1>6. /\ <<>> \in Seq(Cmds) /\ \A j \in 1 .. Len(<<>>) : <<>>[j].fn = "g" /\ <<>>[j].op = "none"
    OBVIOUS
  <1> QED BY <1>2, <1>4, <1>5, <1>6

\* Faults and clicks are counted up to their bounds.
LEMMA CountStep ==
  ASSUME CountInv, UT!Next \/ UNCHANGED toolVars
  PROVE  CountInv'
  <1>1. CASE \E b \in Buttons, a \in Axes : UT!Click(b, a)
    BY BoundAssumption, <1>1 DEF UT!Click, UT!gui, UT!run, UT!slaves, UT!history,
       UT!Fault, UT!NoFault, CountInv
  <1>2. CASE UT!Run
    BY BoundAssumption, <1>2 DEF UT!Run, UT!gui, UT!run, UT!slaves, UT!history,
       UT!Fault, UT!NoFault, CountInv
  <1>3. CASE UT!Exited
    BY BoundAssumption, <1>3 DEF UT!Exited, UT!gui, UT!run, UT!slaves, UT!history,
       UT!Fault, UT!NoFault, CountInv
  <1>4. CASE UT!HandlerReturns
    BY BoundAssumption, <1>4 DEF UT!HandlerReturns, UT!gui, UT!run, UT!slaves,
       UT!history, UT!Fault, UT!NoFault, CountInv
  <1>5. CASE UT!ConfigFails
    BY BoundAssumption, <1>5 DEF UT!ConfigFails, UT!gui, UT!run, UT!slaves, UT!history,
       UT!Fault, UT!NoFault, CountInv
  <1>6. CASE UT!Config
    BY BoundAssumption, <1>6 DEF UT!Config, UT!gui, UT!run, UT!slaves, UT!history,
       UT!Fault, UT!NoFault, CountInv
  <1>7. CASE UT!RequestPreop
    BY BoundAssumption, <1>7 DEF UT!RequestPreop, UT!gui, UT!run, UT!slaves,
       UT!history, UT!Fault, UT!NoFault, CountInv
  <1>8. CASE UT!Read
    BY BoundAssumption, <1>8 DEF UT!Read, UT!Finish, UT!gui, UT!run, UT!slaves,
       UT!history, UT!Fault, UT!NoFault, CountInv
  <1>9. CASE UT!Write
    BY BoundAssumption, <1>9 DEF UT!Write, UT!Finish, UT!gui, UT!run, UT!slaves,
       UT!history, UT!Fault, UT!NoFault, CountInv
  <1>10. CASE UT!Reset
    BY BoundAssumption, <1>10 DEF UT!Reset, UT!Finish, UT!gui, UT!run, UT!slaves,
       UT!history, UT!Fault, UT!NoFault, CountInv
  <1>11. CASE UT!Parameters
    BY BoundAssumption, <1>11 DEF UT!Parameters, UT!Finish, UT!gui, UT!run, UT!slaves,
       UT!history, UT!Fault, UT!NoFault, CountInv
  <1>12. CASE UT!RequestSafeop
    BY BoundAssumption, <1>12 DEF UT!RequestSafeop, UT!gui, UT!run, UT!slaves,
       UT!history, UT!Fault, UT!NoFault, CountInv
  <1>13. CASE UT!WriteSafeOp
    BY BoundAssumption, <1>13 DEF UT!WriteSafeOp, UT!Finish, UT!gui, UT!run, UT!slaves,
       UT!history, UT!Fault, UT!NoFault, CountInv
  <1>14. CASE UT!RequestInit
    BY BoundAssumption, <1>14 DEF UT!RequestInit, UT!gui, UT!run, UT!slaves,
       UT!history, UT!Fault, UT!NoFault, CountInv
  <1>15. CASE UT!ReadBootMailbox
    BY BoundAssumption, <1>15 DEF UT!ReadBootMailbox, UT!gui, UT!run, UT!slaves,
       UT!history, UT!Fault, UT!NoFault, CountInv
  <1>16. CASE UT!ProgramMailbox
    BY BoundAssumption, <1>16 DEF UT!ProgramMailbox, UT!gui, UT!run, UT!slaves,
       UT!history, UT!Fault, UT!NoFault, CountInv
  <1>17. CASE UT!RequestBoot
    BY BoundAssumption, <1>17 DEF UT!RequestBoot, UT!gui, UT!run, UT!slaves,
       UT!history, UT!Fault, UT!NoFault, CountInv
  <1>18. CASE UT!NoFile
    BY BoundAssumption, <1>18 DEF UT!NoFile, UT!gui, UT!run, UT!slaves, UT!history,
       UT!Fault, UT!NoFault, CountInv
  <1>19. CASE UT!FOEwrite
    BY BoundAssumption, <1>19 DEF UT!FOEwrite, UT!gui, UT!run, UT!slaves, UT!history,
       UT!Fault, UT!NoFault, CountInv
  <1>20. CASE UT!LeaveBoot
    BY BoundAssumption, <1>20 DEF UT!LeaveBoot, UT!gui, UT!run, UT!slaves, UT!history,
       UT!Fault, UT!NoFault, CountInv
  <1>21. CASE UNCHANGED toolVars
    BY BoundAssumption, <1>21 DEF toolVars, CountInv
  <1> QED BY <1>1, <1>2, <1>3, <1>4, <1>5, <1>6, <1>7, <1>8, <1>9, <1>10, <1>11, <1>12,
         <1>13, <1>14, <1>15, <1>16, <1>17, <1>18, <1>19, <1>20, <1>21
          DEF UT!Next, UT!Gui, UT!Work, UT!Boottest, Buttons, Axes

\* A run is at a stage of its option.
LEMMA StageStep ==
  ASSUME StageInv, ScriptInv, UT!Next \/ UNCHANGED toolVars
  PROVE  StageInv'
  <1>1. CASE \E b \in Buttons, a \in Axes : UT!Click(b, a)
    BY <1>1 DEF UT!Click, UT!gui, UT!run, UT!slaves, UT!history, UT!Fault, UT!NoFault,
       StageInv, UT!Dispatch, Stages
  <1>2. CASE UT!Run
    <2>1. /\ script # <<>> /\ cmd' = Head(script) /\ run' = "config" /\ iResult' = FALSE
          /\ UNCHANGED <<button, axis, msg>>
      BY <1>2 DEF UT!Run
    <2>2. button # "none" /\ script \in Seq(Cmds)
      BY <2>1 DEF ScriptInv, StageInv
    <2>3. cmd' \in Cmds
      BY <2>1, <2>2
    <2> QED BY <2>1, <2>2, <2>3 DEF StageInv, Stages
  <1>3. CASE UT!Exited
    BY <1>3 DEF UT!Exited, UT!gui, UT!run, UT!slaves, UT!history, UT!Fault, UT!NoFault,
       StageInv, UT!Dispatch, Stages
  <1>4. CASE UT!HandlerReturns
    BY <1>4 DEF UT!HandlerReturns, UT!gui, UT!run, UT!slaves, UT!history, UT!Fault,
       UT!NoFault, StageInv, UT!Dispatch, Stages
  <1>5. CASE UT!ConfigFails
    BY <1>5 DEF UT!ConfigFails, UT!gui, UT!run, UT!slaves, UT!history, UT!Fault,
       UT!NoFault, StageInv, UT!Dispatch, Stages
  <1>6. CASE UT!Config
    <2>1. run = "config" /\ run' = UT!Dispatch(cmd.fn) /\ UNCHANGED <<UT!gui, cmd, iResult>>
      BY <1>6 DEF UT!Config
    <2>2. cmd \in Cmds /\ cmd.fn \in {"f", "v", "g", "s", "r", "x", "p", "e"}
      BY <2>1 DEF StageInv, Cmds
    <2>3. \/ run' = "init" /\ cmd.fn = "f"
          \/ run' = "safeop" /\ cmd.fn = "e"
          \/ run' = "preop" /\ cmd.fn \in {"v", "g", "s", "r", "x", "p"}
      BY <2>1, <2>2 DEF UT!Dispatch
    <2> QED BY <2>1, <2>2, <2>3 DEF StageInv, Stages, UT!gui
  <1>7. CASE UT!RequestPreop
    BY <1>7 DEF UT!RequestPreop, UT!gui, UT!run, UT!slaves, UT!history, UT!Fault,
       UT!NoFault, StageInv, UT!Dispatch, Stages
  <1>8. CASE UT!Read
    BY <1>8 DEF UT!Read, UT!Finish, UT!gui, UT!run, UT!slaves, UT!history, UT!Fault,
       UT!NoFault, StageInv, UT!Dispatch, Stages
  <1>9. CASE UT!Write
    BY <1>9 DEF UT!Write, UT!Finish, UT!gui, UT!run, UT!slaves, UT!history, UT!Fault,
       UT!NoFault, StageInv, UT!Dispatch, Stages
  <1>10. CASE UT!Reset
    BY <1>10 DEF UT!Reset, UT!Finish, UT!gui, UT!run, UT!slaves, UT!history, UT!Fault,
       UT!NoFault, StageInv, UT!Dispatch, Stages
  <1>11. CASE UT!Parameters
    BY <1>11 DEF UT!Parameters, UT!Finish, UT!gui, UT!run, UT!slaves, UT!history,
       UT!Fault, UT!NoFault, StageInv, UT!Dispatch, Stages
  <1>12. CASE UT!RequestSafeop
    BY <1>12 DEF UT!RequestSafeop, UT!gui, UT!run, UT!slaves, UT!history, UT!Fault,
       UT!NoFault, StageInv, UT!Dispatch, Stages
  <1>13. CASE UT!WriteSafeOp
    BY <1>13 DEF UT!WriteSafeOp, UT!Finish, UT!gui, UT!run, UT!slaves, UT!history,
       UT!Fault, UT!NoFault, StageInv, UT!Dispatch, Stages
  <1>14. CASE UT!RequestInit
    BY <1>14 DEF UT!RequestInit, UT!gui, UT!run, UT!slaves, UT!history, UT!Fault,
       UT!NoFault, StageInv, UT!Dispatch, Stages
  <1>15. CASE UT!ReadBootMailbox
    BY <1>15 DEF UT!ReadBootMailbox, UT!gui, UT!run, UT!slaves, UT!history, UT!Fault,
       UT!NoFault, StageInv, UT!Dispatch, Stages
  <1>16. CASE UT!ProgramMailbox
    BY <1>16 DEF UT!ProgramMailbox, UT!gui, UT!run, UT!slaves, UT!history, UT!Fault,
       UT!NoFault, StageInv, UT!Dispatch, Stages
  <1>17. CASE UT!RequestBoot
    BY <1>17 DEF UT!RequestBoot, UT!gui, UT!run, UT!slaves, UT!history, UT!Fault,
       UT!NoFault, StageInv, UT!Dispatch, Stages
  <1>18. CASE UT!NoFile
    BY <1>18 DEF UT!NoFile, UT!gui, UT!run, UT!slaves, UT!history, UT!Fault,
       UT!NoFault, StageInv, UT!Dispatch, Stages
  <1>19. CASE UT!FOEwrite
    BY <1>19 DEF UT!FOEwrite, UT!gui, UT!run, UT!slaves, UT!history, UT!Fault,
       UT!NoFault, StageInv, UT!Dispatch, Stages
  <1>20. CASE UT!LeaveBoot
    BY <1>20 DEF UT!LeaveBoot, UT!gui, UT!run, UT!slaves, UT!history, UT!Fault,
       UT!NoFault, StageInv, UT!Dispatch, Stages
  <1>21. CASE UNCHANGED toolVars
    BY <1>21 DEF toolVars, StageInv, UT!Dispatch, Stages
  <1> QED BY <1>1, <1>2, <1>3, <1>4, <1>5, <1>6, <1>7, <1>8, <1>9, <1>10, <1>11, <1>12,
         <1>13, <1>14, <1>15, <1>16, <1>17, <1>18, <1>19, <1>20, <1>21
          DEF UT!Next, UT!Gui, UT!Work, UT!Boottest, Buttons, Axes

\* The slaves are in states that there are.
LEMMA SlaveStep ==
  ASSUME StageInv, SlaveInv, UT!Next \/ UNCHANGED toolVars
  PROVE  SlaveInv'
  <1>1. CASE \E b \in Buttons, a \in Axes : UT!Click(b, a)
    BY <1>1 DEF UT!Click, UT!gui, UT!run, UT!slaves, UT!history, UT!Fault, UT!NoFault,
       StageInv, SlaveInv, Cmds
  <1>2. CASE UT!Run
    BY <1>2 DEF UT!Run, UT!gui, UT!run, UT!slaves, UT!history, UT!Fault, UT!NoFault,
       StageInv, SlaveInv, Cmds
  <1>3. CASE UT!Exited
    BY <1>3 DEF UT!Exited, UT!gui, UT!run, UT!slaves, UT!history, UT!Fault, UT!NoFault,
       StageInv, SlaveInv, Cmds
  <1>4. CASE UT!HandlerReturns
    BY <1>4 DEF UT!HandlerReturns, UT!gui, UT!run, UT!slaves, UT!history, UT!Fault,
       UT!NoFault, StageInv, SlaveInv, Cmds
  <1>5. CASE UT!ConfigFails
    BY <1>5 DEF UT!ConfigFails, UT!gui, UT!run, UT!slaves, UT!history, UT!Fault,
       UT!NoFault, StageInv, SlaveInv, Cmds
  <1>6. CASE UT!Config
    <2>1. UNCHANGED <<fw, par, readable>>
      BY <1>6 DEF UT!Config
    <2>2. al' \in [Axes -> {"INIT", "PREOP", "SAFEOP", "BOOT"}]
      BY <1>6 DEF UT!Config, Axes
    <2>3. UT!Std \in Boxes \X Boxes
      BY DEF UT!Std, Boxes
    <2>4. sm' \in [Axes -> Boxes \X Boxes] /\ mbx' \in Boxes \X Boxes
      BY <1>6, <2>3 DEF UT!Config, Axes
    <2> QED BY <2>1, <2>2, <2>4 DEF SlaveInv
  <1>7. CASE UT!RequestPreop
    BY <1>7 DEF UT!RequestPreop, UT!gui, UT!run, UT!slaves, UT!history, UT!Fault,
       UT!NoFault, StageInv, SlaveInv, Cmds
  <1>8. CASE UT!Read
    BY <1>8 DEF UT!Read, UT!Finish, UT!gui, UT!run, UT!slaves, UT!history, UT!Fault,
       UT!NoFault, StageInv, SlaveInv, Cmds
  <1>9. CASE UT!Write
    BY <1>9 DEF UT!Write, UT!Finish, UT!gui, UT!run, UT!slaves, UT!history, UT!Fault,
       UT!NoFault, StageInv, SlaveInv, Cmds
  <1>10. CASE UT!Reset
    <2>0. run # "none" /\ cmd.slave \in Axes /\ cmd.file \in Axes \cup {0}
      BY <1>10 DEF UT!Reset, StageInv, Cmds
    <2>1. UNCHANGED <<mbx, fw, par, readable>>
      BY <1>10 DEF UT!Reset
    <2>2. <<"none", "none">> \in Boxes \X Boxes
      BY DEF Boxes
    <2>3. al' = al \/ al' = [al EXCEPT ![cmd.slave] = "INIT"]
      BY <1>10 DEF UT!Reset
    <2>4. sm' = sm \/ sm' = [sm EXCEPT ![cmd.slave] = <<"none", "none">>]
      BY <1>10 DEF UT!Reset
    <2>5. al' \in [Axes -> {"INIT", "PREOP", "SAFEOP", "BOOT"}]
      BY <2>0, <2>3 DEF SlaveInv
    <2>6. sm' \in [Axes -> Boxes \X Boxes]
      BY <2>0, <2>2, <2>4 DEF SlaveInv
    <2> QED BY <2>1, <2>5, <2>6 DEF SlaveInv
  <1>11. CASE UT!Parameters
    <2>0. run # "none" /\ cmd.slave \in Axes /\ cmd.file \in Axes \cup {0}
      BY <1>11 DEF UT!Parameters, StageInv, Cmds
    <2>1. UNCHANGED <<al, sm, mbx, fw, readable>>
      BY <1>11 DEF UT!Parameters
    <2>2. par' = [par EXCEPT ![cmd.slave] = cmd.file] \/ par' = [par EXCEPT ![cmd.slave] = 0]
      BY <1>11 DEF UT!Parameters, UT!Torn
    <2>3. par' \in [Axes -> Axes \cup {0}]
      BY <2>0, <2>2 DEF SlaveInv
    <2> QED BY <2>1, <2>3 DEF SlaveInv
  <1>12. CASE UT!RequestSafeop
    <2>1. UNCHANGED <<sm, mbx, fw, par, readable>>
      BY <1>12 DEF UT!RequestSafeop
    <2>2. \/ al' = al
          \/ al' = [s \in Axes |-> IF al[s] = "PREOP" THEN "SAFEOP" ELSE al[s]]
      BY <1>12 DEF UT!RequestSafeop, Axes
    <2>3. al' \in [Axes -> {"INIT", "PREOP", "SAFEOP", "BOOT"}]
      BY <2>2 DEF SlaveInv
    <2> QED BY <2>1, <2>3 DEF SlaveInv
  <1>13. CASE UT!WriteSafeOp
    <2>1. UNCHANGED <<sm, mbx, fw, par, readable>> /\ al' = [s \in Axes |-> "INIT"]
      BY <1>13 DEF UT!WriteSafeOp, Axes
    <2> QED BY <2>1 DEF SlaveInv
  <1>14. CASE UT!RequestInit
    BY <1>14 DEF UT!RequestInit, UT!gui, UT!run, UT!slaves, UT!history, UT!Fault,
       UT!NoFault, StageInv, SlaveInv, Cmds
  <1>15. CASE UT!ReadBootMailbox
    <2>1. UNCHANGED <<al, sm, fw, par, readable>>
      BY <1>15 DEF UT!ReadBootMailbox, UT!slaves
    <2>2. mbx' \in Boxes \X Boxes
      BY <1>15 DEF UT!ReadBootMailbox, UT!Boot, Boxes
    <2> QED BY <2>1, <2>2 DEF SlaveInv
  <1>16. CASE UT!ProgramMailbox
    BY <1>16 DEF UT!ProgramMailbox, UT!gui, UT!run, UT!slaves, UT!history, UT!Fault,
       UT!NoFault, StageInv, SlaveInv, Cmds
  <1>17. CASE UT!RequestBoot
    BY <1>17 DEF UT!RequestBoot, UT!gui, UT!run, UT!slaves, UT!history, UT!Fault,
       UT!NoFault, StageInv, SlaveInv, Cmds
  <1>18. CASE UT!NoFile
    BY <1>18 DEF UT!NoFile, UT!gui, UT!run, UT!slaves, UT!history, UT!Fault,
       UT!NoFault, StageInv, SlaveInv, Cmds
  <1>19. CASE UT!FOEwrite
    <2>0. run # "none" /\ cmd.slave \in Axes /\ cmd.file \in Axes \cup {0}
      BY <1>19 DEF UT!FOEwrite, StageInv, Cmds
    <2>1. UNCHANGED <<al, sm, mbx, par, readable>>
      BY <1>19 DEF UT!FOEwrite
    <2>2. \E f \in {fw[cmd.slave], 0, cmd.file} : fw' = [fw EXCEPT ![cmd.slave] = f]
      BY <1>19 DEF UT!FOEwrite, UT!Torn
    <2>3. fw' \in [Axes -> Axes \cup {0}]
      BY <2>0, <2>2 DEF SlaveInv
    <2> QED BY <2>1, <2>3 DEF SlaveInv
  <1>20. CASE UT!LeaveBoot
    BY <1>20 DEF UT!LeaveBoot, UT!gui, UT!run, UT!slaves, UT!history, UT!Fault,
       UT!NoFault, StageInv, SlaveInv, Cmds
  <1>21. CASE UNCHANGED toolVars
    BY <1>21 DEF toolVars, StageInv, SlaveInv, Cmds
  <1> QED BY <1>1, <1>2, <1>3, <1>4, <1>5, <1>6, <1>7, <1>8, <1>9, <1>10, <1>11, <1>12,
         <1>13, <1>14, <1>15, <1>16, <1>17, <1>18, <1>19, <1>20, <1>21
          DEF UT!Next, UT!Gui, UT!Work, UT!Boottest, Buttons, Axes

\* Masking keeps a word a word.
LEMMA WordsAre ==
  /\ UT!Ones \in UT!Word /\ UT!Zero \in UT!Word
  /\ \A w \in UT!Word : /\ [w EXCEPT !.bit7 = FALSE, !.high = "zero"] \in UT!Word
                        /\ [w EXCEPT !.bit7 = TRUE] \in UT!Word
  BY DEF UT!Ones, UT!Zero, UT!Word

\* Words are passed on.
LEMMA WordStep ==
  ASSUME StageInv, WordInv, UT!Next \/ UNCHANGED toolVars
  PROVE  WordInv'
  <1>1. CASE \E b \in Buttons, a \in Axes : UT!Click(b, a)
    <2>1. iGetValue' = UT!Ones /\ clicked' = <<>> /\ UNCHANGED <<word, output>>
      BY <1>1 DEF UT!Click, UT!run, UT!slaves
    <2>2. <<>> \in Seq(UT!Word)
      OBVIOUS
    <2> QED BY <2>1, <2>2, WordsAre DEF WordInv
  <1>2. CASE UT!Run
    <2>1. iGetValue' = UT!Masked(cmd'.op) /\ output' = <<>> /\ UNCHANGED <<word, clicked>>
      BY <1>2 DEF UT!Run, UT!slaves, UT!history
    <2>2. UT!Masked(cmd'.op) \in UT!Word
      <3>1. CASE cmd'.op = "and"
        BY <3>1, WordsAre DEF UT!Masked, WordInv
      <3>2. CASE cmd'.op = "or"
        BY <3>2, WordsAre DEF UT!Masked, WordInv
      <3>3. CASE cmd'.op \notin {"and", "or"}
        BY <3>3 DEF UT!Masked, WordInv
      <3> QED BY <3>1, <3>2, <3>3
    <2> QED BY <2>1, <2>2 DEF WordInv
  <1>3. CASE UT!Exited
    BY <1>3 DEF UT!Exited, UT!gui, UT!run, UT!slaves, UT!history, UT!Fault, UT!NoFault,
       StageInv, WordInv, Cmds
  <1>4. CASE UT!HandlerReturns
    BY <1>4 DEF UT!HandlerReturns, UT!gui, UT!run, UT!slaves, UT!history, UT!Fault,
       UT!NoFault, StageInv, WordInv, Cmds
  <1>5. CASE UT!ConfigFails
    BY <1>5 DEF UT!ConfigFails, UT!gui, UT!run, UT!slaves, UT!history, UT!Fault,
       UT!NoFault, StageInv, WordInv, Cmds
  <1>6. CASE UT!Config
    BY <1>6 DEF UT!Config, UT!gui, UT!run, UT!slaves, UT!history, UT!Fault, UT!NoFault,
       StageInv, WordInv, Cmds
  <1>7. CASE UT!RequestPreop
    BY <1>7 DEF UT!RequestPreop, UT!gui, UT!run, UT!slaves, UT!history, UT!Fault,
       UT!NoFault, StageInv, WordInv, Cmds
  <1>8. CASE UT!Read
    <2>1. /\ run # "none" /\ (output' = <<word[cmd.slave]>> \/ output' = <<UT!Zero>>)
          /\ UNCHANGED <<iGetValue, word, clicked>>
      BY <1>8 DEF UT!Read, UT!gui, UT!slaves
    <2>2. cmd.slave \in Axes
      BY <1>8 DEF UT!Read, StageInv, Cmds
    <2>3. \E w \in UT!Word : output' = <<w>>
      BY <2>1, <2>2, WordsAre DEF WordInv
    <2> QED BY <2>1, <2>3 DEF WordInv
  <1>9. CASE UT!Write
    BY <1>9 DEF UT!Write, UT!Finish, UT!gui, UT!run, UT!slaves, UT!history, UT!Fault,
       UT!NoFault, StageInv, WordInv, Cmds
  <1>10. CASE UT!Reset
    BY <1>10 DEF UT!Reset, UT!Finish, UT!gui, UT!run, UT!slaves, UT!history, UT!Fault,
       UT!NoFault, StageInv, WordInv, Cmds
  <1>11. CASE UT!Parameters
    BY <1>11 DEF UT!Parameters, UT!Finish, UT!gui, UT!run, UT!slaves, UT!history,
       UT!Fault, UT!NoFault, StageInv, WordInv, Cmds
  <1>12. CASE UT!RequestSafeop
    BY <1>12 DEF UT!RequestSafeop, UT!gui, UT!run, UT!slaves, UT!history, UT!Fault,
       UT!NoFault, StageInv, WordInv, Cmds
  <1>13. CASE UT!WriteSafeOp
    BY <1>13 DEF UT!WriteSafeOp, UT!Finish, UT!gui, UT!run, UT!slaves, UT!history,
       UT!Fault, UT!NoFault, StageInv, WordInv, Cmds
  <1>14. CASE UT!RequestInit
    BY <1>14 DEF UT!RequestInit, UT!gui, UT!run, UT!slaves, UT!history, UT!Fault,
       UT!NoFault, StageInv, WordInv, Cmds
  <1>15. CASE UT!ReadBootMailbox
    BY <1>15 DEF UT!ReadBootMailbox, UT!gui, UT!run, UT!slaves, UT!history, UT!Fault,
       UT!NoFault, StageInv, WordInv, Cmds
  <1>16. CASE UT!ProgramMailbox
    BY <1>16 DEF UT!ProgramMailbox, UT!gui, UT!run, UT!slaves, UT!history, UT!Fault,
       UT!NoFault, StageInv, WordInv, Cmds
  <1>17. CASE UT!RequestBoot
    BY <1>17 DEF UT!RequestBoot, UT!gui, UT!run, UT!slaves, UT!history, UT!Fault,
       UT!NoFault, StageInv, WordInv, Cmds
  <1>18. CASE UT!NoFile
    BY <1>18 DEF UT!NoFile, UT!gui, UT!run, UT!slaves, UT!history, UT!Fault,
       UT!NoFault, StageInv, WordInv, Cmds
  <1>19. CASE UT!FOEwrite
    BY <1>19 DEF UT!FOEwrite, UT!gui, UT!run, UT!slaves, UT!history, UT!Fault,
       UT!NoFault, StageInv, WordInv, Cmds
  <1>20. CASE UT!LeaveBoot
    BY <1>20 DEF UT!LeaveBoot, UT!gui, UT!run, UT!slaves, UT!history, UT!Fault,
       UT!NoFault, StageInv, WordInv, Cmds
  <1>21. CASE UNCHANGED toolVars
    BY <1>21 DEF toolVars, StageInv, WordInv, Cmds
  <1> QED BY <1>1, <1>2, <1>3, <1>4, <1>5, <1>6, <1>7, <1>8, <1>9, <1>10, <1>11, <1>12,
         <1>13, <1>14, <1>15, <1>16, <1>17, <1>18, <1>19, <1>20, <1>21
          DEF UT!Next, UT!Gui, UT!Work, UT!Boottest, Buttons, Axes

\* What the button runs, and the command that runs now.
LEMMA WholeIs ==
  ASSUME button \in Buttons, axis \in Axes
  PROVE  /\ Whole \in Seq(Cmds)
         /\ button = "firmware" => Whole = UT!FirmwareNew /\ Len(Whole) = 13
         /\ button = "parameter" => Whole = UT!Parameter(axis) /\ Len(Whole) = 6
         /\ button = "clear" => Whole = UT!ErrorClear(axis) /\ Len(Whole) = 3
  <1>1. CASE button = "firmware"
    BY <1>1, FirmwareIs DEF Whole, UT!Scripts
  <1>2. CASE button = "parameter"
    BY <1>2, ParameterIs DEF Whole, UT!Scripts
  <1>3. CASE button = "clear"
    BY <1>3, ClearIs DEF Whole, UT!Scripts
  <1>4. CASE button \in {"encoder", "extract"}
    BY <1>4, OthersAre DEF Whole
  <1> QED BY <1>1, <1>2, <1>3, <1>4 DEF Buttons

LEMMA RanIs ==
  ASSUME StageInv, ScriptInv, button # "none"
  PROVE  /\ Whole \in Seq(Cmds) /\ Len(Whole) \in Nat /\ Len(script) \in Nat
         /\ Ran \in 0 .. Len(Whole) /\ Len(script) = Len(Whole) - Ran
         /\ button = "firmware" => Len(Whole) = 13
         /\ button = "parameter" => Len(Whole) = 6
         /\ button = "clear" => Len(Whole) = 3
  <1>1. button \in Buttons /\ axis \in Axes
    BY DEF StageInv
  <1>2. Whole \in Seq(Cmds)
    BY <1>1, WholeIs
  <1>3. Len(Whole) \in Nat /\ Len(script) \in Nat /\ Len(script) <= Len(Whole)
    BY <1>2 DEF ScriptInv
  <1>4. Ran \in 0 .. Len(Whole) /\ Len(script) = Len(Whole) - Ran
    BY <1>3 DEF Ran
  <1> QED BY <1>1, <1>2, <1>3, <1>4, WholeIs

LEMMA CmdIs ==
  ASSUME StageInv, ScriptInv, run # "none"
  PROVE  /\ Ran \in 1 .. Len(Whole) /\ cmd \in Cmds
         /\ cmd.fn = "f" => /\ button = "firmware" /\ Ran \in {1, 3, 5} /\ cmd.slave = 1
                            /\ cmd.file = Files(Ran)
         /\ button = "firmware" /\ Ran \notin {1, 3, 5} => cmd.fn \in {"r", "v", "g"}
         /\ button = "firmware" /\ Ran \in {1, 3, 5} => cmd.fn = "f"
         /\ cmd.fn = "p" => button = "parameter" /\ Ran = 1
         /\ button = "parameter" /\ Ran > 1 => cmd.fn \in {"r", "g"}
         /\ button = "parameter" /\ Ran = 1 => cmd.fn = "p" /\ cmd.slave = 1 /\ cmd.file = axis
         /\ cmd.fn = "e" => button = "clear" /\ Ran \in {2, 3}
         /\ cmd.op # "none" => button = "clear"
         /\ button = "clear" =>
              /\ cmd.slave = axis
              /\ Ran = 1 => cmd.fn = "g" /\ cmd.op = "get"
              /\ Ran = 2 => cmd.fn = "e" /\ cmd.op = "and"
              /\ Ran = 3 => cmd.fn = "e" /\ cmd.op = "or"
  <1>0. /\ button \in Buttons /\ axis \in Axes /\ cmd = Whole[Ran]
        /\ Ran \in 1 .. Len(Whole) /\ cmd \in Cmds
    BY RanIs DEF StageInv, ScriptInv
  <1>1. CASE button = "firmware"
    <2>1. cmd = UT!FirmwareNew[Ran] /\ Ran \in 1 .. 13
      BY <1>0, <1>1, WholeIs
    <2>2. CASE Ran \in {1, 3, 5}
      <3>1. PICK n \in 1 .. 3 : Ran = 2 * n - 1
        <4>1. 1 = 2 * 1 - 1 /\ 3 = 2 * 2 - 1 /\ 5 = 2 * 3 - 1
          OBVIOUS
        <4> QED BY <2>2, <4>1
      <3>2. Files(Ran) = n
        BY <3>1 DEF Files
      <3>3. cmd.fn = "f" /\ cmd.slave = 1 /\ cmd.file = n /\ cmd.op = "none"
        BY <2>1, <3>1, FirmwareIs
      <3> QED BY <1>0, <1>1, <2>2, <3>2, <3>3
    <2>3. CASE Ran \in {2, 4, 6}
      <3>1. PICK n \in 1 .. 3 : Ran = 2 * n
        <4>1. 2 = 2 * 1 /\ 4 = 2 * 2 /\ 6 = 2 * 3
          OBVIOUS
        <4> QED BY <2>3, <4>1
      <3>2. cmd.fn = "r" /\ cmd.op = "none"
        BY <2>1, <3>1, FirmwareIs
      <3> QED BY <1>0, <1>1, <2>3, <3>2
    <2>4. CASE Ran \in 7 .. 13
      <3>1. Ran - 6 \in 1 .. 7 /\ 6 + (Ran - 6) = Ran
        BY <2>4
      <3>2. cmd = Checks[Ran - 6]
        BY <2>1, <3>1, FirmwareIs
      <3>3. cmd.fn \in {"v", "g"} /\ cmd.op = "none"
        BY <3>1, <3>2, ChecksAre
      <3> QED BY <1>0, <1>1, <2>4, <3>3
    <2> QED BY <2>1, <2>2, <2>3, <2>4
  <1>2. CASE button = "parameter"
    <2>1. cmd = UT!Parameter(axis)[Ran] /\ Ran \in 1 .. 6
      BY <1>0, <1>2, WholeIs
    <2>2. CASE Ran = 1
      <3>1. cmd.fn = "p" /\ cmd.slave = 1 /\ cmd.file = axis /\ cmd.op = "none"
        BY <1>0, <2>1, <2>2, ParameterIs
      <3> QED BY <1>0, <1>2, <2>2, <3>1
    <2>3. CASE Ran \in 2 .. 6
      <3>1. cmd.fn \in {"r", "g"} /\ cmd.op = "none"
        BY <1>0, <2>1, <2>3, ParameterIs
      <3> QED BY <1>0, <1>2, <2>3, <3>1
    <2> QED BY <2>1, <2>2, <2>3
  <1>3. CASE button = "clear"
    <2>1. cmd = UT!ErrorClear(axis)[Ran] /\ Ran \in 1 .. 3
      BY <1>0, <1>3, WholeIs
    <2>2. /\ cmd.slave = axis
          /\ Ran = 1 => cmd.fn = "g" /\ cmd.op = "get"
          /\ Ran = 2 => cmd.fn = "e" /\ cmd.op = "and"
          /\ Ran = 3 => cmd.fn = "e" /\ cmd.op = "or"
      BY <1>0, <2>1, ClearIs
    <2> QED BY <1>0, <1>3, <2>1, <2>2
  <1>4. CASE button \in {"encoder", "extract"}
    <2>1. cmd.fn \in {"s", "x", "g"} /\ cmd.op = "none"
      BY <1>0, <1>4, OthersAre DEF Whole
    <2> QED BY <1>0, <1>4, <2>1
  <1> QED BY <1>0, <1>1, <1>2, <1>3, <1>4 DEF Buttons

\* The commands are run one after the other, but those that a failure leaves out.
LEMMA ScriptStep ==
  ASSUME StageInv, ScriptInv, UT!Next \/ UNCHANGED toolVars
  PROVE  ScriptInv'
  <1>1. CASE \E b \in Buttons, a \in Axes : UT!Click(b, a)
    <2>1. PICK b \in Buttons, a \in Axes : UT!Click(b, a)
      BY <1>1
    <2>2. /\ button' = b /\ axis' = a /\ script' = UT!Scripts(b, a) /\ run = "none" /\ run' = run
          /\ b \in {"firmware", "extract"} => a = 1
      BY <2>1 DEF UT!Click, UT!run, UT!AXIS_DRIVING, ScriptInv
    <2>3. button' \in Buttons /\ axis' \in Axes /\ b # "none" /\ Whole' = UT!Scripts(b, a)
      BY <2>2 DEF Buttons, Whole, UT!Scripts
    <2>5. UT!Scripts(b, a) \in Seq(Cmds) /\ Len(UT!Scripts(b, a)) \in Nat
      BY FirmwareIs, ParameterIs, ClearIs, OthersAre DEF Buttons, UT!Scripts
    <2>6. Ran' = 0 /\ Len(script') = Len(Whole')
      BY <2>2, <2>3, <2>5 DEF Ran
    <2>7. \A j \in 1 .. Len(script') : script'[j] = Whole'[Ran' + j]
      BY <2>2, <2>3, <2>5, <2>6
    <2> QED BY <2>2, <2>3, <2>5, <2>6, <2>7 DEF ScriptInv
  <1>2. CASE UT!Run
    <2>1. /\ script # <<>> /\ cmd' = Head(script) /\ script' = Tail(script) /\ run' = "config"
          /\ UNCHANGED <<button, axis>>
      BY <1>2 DEF UT!Run
    <2>2. /\ button # "none" /\ script \in Seq(Cmds) /\ Len(script) <= Len(Whole)
          /\ button \in {"firmware", "extract"} => axis = 1
      BY <2>1 DEF ScriptInv
    <2>3. Whole' = Whole
      BY <2>1 DEF Whole, UT!Scripts
    <2>4. /\ Len(script) \in Nat \ {0} /\ Tail(script) \in Seq(Cmds) /\ Head(script) = script[1]
          /\ Len(Tail(script)) = Len(script) - 1
          /\ \A j \in 1 .. Len(script) - 1 : Tail(script)[j] = script[j + 1]
      BY <2>1, <2>2
    <2>5. Ran' = Ran + 1 /\ Ran \in Nat /\ Len(Whole) \in Nat
      BY <2>1, <2>2, <2>3, <2>4, RanIs DEF Ran
    <2>6. cmd' = Whole[Ran']
      BY <2>1, <2>2, <2>4, <2>5 DEF ScriptInv
    <2>7. \A j \in 1 .. Len(script') : script'[j] = Whole[Ran' + j]
      <3>1. ASSUME NEW j \in 1 .. Len(script')
            PROVE  script'[j] = Whole[Ran' + j]
        <4>1. j + 1 \in 1 .. Len(script) /\ script'[j] = script[j + 1]
          BY <2>1, <2>4
        <4>2. script[j + 1] = Whole[Ran + (j + 1)] /\ Ran + (j + 1) = Ran' + j
          BY <2>2, <2>5, <4>1 DEF ScriptInv
        <4> QED BY <4>1, <4>2
      <3> QED BY <3>1
    <2>8. script' \in Seq(Cmds) /\ Len(script') <= Len(Whole')
      BY <2>1, <2>2, <2>3, <2>4, <2>5
    <2> QED BY <2>1, <2>2, <2>3, <2>5, <2>6, <2>7, <2>8 DEF ScriptInv
  <1>3. CASE UT!Exited
    <2>1. /\ script' = UT!Rest /\ run' = "none" /\ run = "exit" /\ UNCHANGED <<button, axis>>
      BY <1>3 DEF UT!Exited
    <2>2. button # "none" /\ (button \in {"firmware", "extract"} => axis = 1) /\ Whole' = Whole
      BY <2>1 DEF StageInv, ScriptInv, Whole, UT!Scripts
    <2>3. CASE cmd.fn = "f" /\ ~iResult
      <3>1. script' = Checks /\ button = "firmware"
        BY <2>1, <2>3, CmdIs DEF UT!Rest, Checks
      <3>2. Whole = UT!FirmwareNew /\ Len(Whole) = 13
        BY <3>1, WholeIs DEF Buttons, StageInv
      <3>3. Len(script') = 7 /\ Ran' = 6 /\ script' \in Seq(Cmds)
        BY <2>2, <3>1, <3>2, ChecksAre DEF Ran
      <3>4. \A j \in 1 .. Len(script') : script'[j] = Whole'[Ran' + j]
        BY <2>2, <3>1, <3>2, <3>3, FirmwareIs
      <3> QED BY <2>1, <2>2, <3>2, <3>3, <3>4 DEF ScriptInv
    <2>4. CASE ~(cmd.fn = "f" /\ ~iResult) /\ cmd.fn = "p" /\ ~iResult
      <3>1. script' = Tail(script) /\ Len(script) = 5 /\ script \in Seq(Cmds)
        <4>1. run # "none" /\ button = "parameter" /\ Ran = 1
          BY <2>1, <2>4, CmdIs
        <4>2. Len(script) = Len(Whole) - Ran /\ Len(Whole) = 6
          BY <2>2, <4>1, RanIs
        <4>3. Len(script) = 5
          BY <4>1, <4>2
        <4>4. script' = Tail(script)
          BY <2>1, <2>4 DEF UT!Rest
        <4>5. script \in Seq(Cmds)
          BY <2>2 DEF ScriptInv
        <4> QED BY <4>3, <4>4, <4>5
      <3>2. /\ Tail(script) \in Seq(Cmds) /\ Len(Tail(script)) = Len(script) - 1
            /\ \A j \in 1 .. Len(script) - 1 : Tail(script)[j] = script[j + 1]
        BY <3>1
      <3>3. Ran' = Ran + 1 /\ Ran \in Nat /\ Len(Whole) \in Nat /\ Len(script') <= Len(Whole)
        <4>1. Ran \in Nat /\ Len(Whole) \in Nat /\ Len(script) = Len(Whole) - Ran
          BY <2>2, RanIs
        <4>2. Len(script') = 4 /\ Len(script) = 5
          BY <3>1, <3>2
        <4>3. Ran' = Len(Whole) - Len(script')
          BY <2>2 DEF Ran
        <4>4. Len(Whole) = Ran + 5
          <5>1. \A w, r \in Nat : 5 = w - r => w = r + 5
            OBVIOUS
          <5>2. 5 = Len(Whole) - Ran
            BY <4>1, <4>2, Zenon
          <5> QED BY <4>1, <5>1, <5>2, Zenon
        <4>5. Ran' = Ran + 1
          BY <4>1, <4>2, <4>3, <4>4
        <4>6. Len(script') <= Len(Whole)
          BY <4>1, <4>2, <4>4
        <4> QED BY <4>1, <4>5, <4>6
      <3>4. \A j \in 1 .. Len(script') : script'[j] = Whole[Ran' + j]
        <4>1. ASSUME NEW j \in 1 .. Len(script')
              PROVE  script'[j] = Whole[Ran' + j]
          <5>1. j + 1 \in 1 .. Len(script) /\ script'[j] = script[j + 1]
            BY <3>1, <3>2
          <5>2. script[j + 1] = Whole[Ran + (j + 1)] /\ Ran + (j + 1) = Ran' + j
            BY <2>2, <3>3, <5>1 DEF ScriptInv
          <5> QED BY <5>1, <5>2
        <4> QED BY <4>1
      <3> QED BY <2>1, <2>2, <3>1, <3>2, <3>3, <3>4 DEF ScriptInv
    <2>5. CASE ~(cmd.fn = "f" /\ ~iResult) /\ ~(cmd.fn = "p" /\ ~iResult)
      <3>1. script' = script
        BY <2>1, <2>5 DEF UT!Rest
      <3>2. Ran' = Ran
        BY <2>2, <3>1 DEF Ran
      <3> QED BY <2>1, <2>2, <3>1, <3>2 DEF ScriptInv
    <2> QED BY <2>3, <2>4, <2>5
  <1>4. CASE UT!HandlerReturns
    BY <1>4 DEF UT!HandlerReturns, UT!gui, UT!run, UT!slaves, UT!history, UT!Fault,
       UT!NoFault, StageInv, ScriptInv
  <1>5. CASE UT!ConfigFails
    <2>1. UNCHANGED <<button, axis, script, cmd>> /\ run # "none"
      BY <1>5 DEF UT!ConfigFails, UT!gui
    <2>2. Whole' = Whole /\ Ran' = Ran
      BY <2>1 DEF Whole, Ran, UT!Scripts
    <2> QED BY <2>1, <2>2 DEF ScriptInv
  <1>6. CASE UT!Config
    <2>1. UNCHANGED <<button, axis, script, cmd>> /\ run # "none"
      BY <1>6 DEF UT!Config, UT!gui
    <2>2. Whole' = Whole /\ Ran' = Ran
      BY <2>1 DEF Whole, Ran, UT!Scripts
    <2> QED BY <2>1, <2>2 DEF ScriptInv
  <1>7. CASE UT!RequestPreop
    <2>1. UNCHANGED <<button, axis, script, cmd>> /\ run # "none"
      BY <1>7 DEF UT!RequestPreop, UT!gui
    <2>2. Whole' = Whole /\ Ran' = Ran
      BY <2>1 DEF Whole, Ran, UT!Scripts
    <2> QED BY <2>1, <2>2 DEF ScriptInv
  <1>8. CASE UT!Read
    <2>1. UNCHANGED <<button, axis, script, cmd>> /\ run # "none"
      BY <1>8 DEF UT!Read, UT!gui
    <2>2. Whole' = Whole /\ Ran' = Ran
      BY <2>1 DEF Whole, Ran, UT!Scripts
    <2> QED BY <2>1, <2>2 DEF ScriptInv
  <1>9. CASE UT!Write
    <2>1. UNCHANGED <<button, axis, script, cmd>> /\ run # "none"
      BY <1>9 DEF UT!Write, UT!gui
    <2>2. Whole' = Whole /\ Ran' = Ran
      BY <2>1 DEF Whole, Ran, UT!Scripts
    <2> QED BY <2>1, <2>2 DEF ScriptInv
  <1>10. CASE UT!Reset
    <2>1. UNCHANGED <<button, axis, script, cmd>> /\ run # "none"
      BY <1>10 DEF UT!Reset, UT!gui
    <2>2. Whole' = Whole /\ Ran' = Ran
      BY <2>1 DEF Whole, Ran, UT!Scripts
    <2> QED BY <2>1, <2>2 DEF ScriptInv
  <1>11. CASE UT!Parameters
    <2>1. UNCHANGED <<button, axis, script, cmd>> /\ run # "none"
      BY <1>11 DEF UT!Parameters, UT!gui
    <2>2. Whole' = Whole /\ Ran' = Ran
      BY <2>1 DEF Whole, Ran, UT!Scripts
    <2> QED BY <2>1, <2>2 DEF ScriptInv
  <1>12. CASE UT!RequestSafeop
    <2>1. UNCHANGED <<button, axis, script, cmd>> /\ run # "none"
      BY <1>12 DEF UT!RequestSafeop, UT!gui
    <2>2. Whole' = Whole /\ Ran' = Ran
      BY <2>1 DEF Whole, Ran, UT!Scripts
    <2> QED BY <2>1, <2>2 DEF ScriptInv
  <1>13. CASE UT!WriteSafeOp
    <2>1. UNCHANGED <<button, axis, script, cmd>> /\ run # "none"
      BY <1>13 DEF UT!WriteSafeOp, UT!gui
    <2>2. Whole' = Whole /\ Ran' = Ran
      BY <2>1 DEF Whole, Ran, UT!Scripts
    <2> QED BY <2>1, <2>2 DEF ScriptInv
  <1>14. CASE UT!RequestInit
    <2>1. UNCHANGED <<button, axis, script, cmd>> /\ run # "none"
      BY <1>14 DEF UT!RequestInit, UT!gui
    <2>2. Whole' = Whole /\ Ran' = Ran
      BY <2>1 DEF Whole, Ran, UT!Scripts
    <2> QED BY <2>1, <2>2 DEF ScriptInv
  <1>15. CASE UT!ReadBootMailbox
    <2>1. UNCHANGED <<button, axis, script, cmd>> /\ run # "none"
      BY <1>15 DEF UT!ReadBootMailbox, UT!gui
    <2>2. Whole' = Whole /\ Ran' = Ran
      BY <2>1 DEF Whole, Ran, UT!Scripts
    <2> QED BY <2>1, <2>2 DEF ScriptInv
  <1>16. CASE UT!ProgramMailbox
    <2>1. UNCHANGED <<button, axis, script, cmd>> /\ run # "none"
      BY <1>16 DEF UT!ProgramMailbox, UT!gui
    <2>2. Whole' = Whole /\ Ran' = Ran
      BY <2>1 DEF Whole, Ran, UT!Scripts
    <2> QED BY <2>1, <2>2 DEF ScriptInv
  <1>17. CASE UT!RequestBoot
    <2>1. UNCHANGED <<button, axis, script, cmd>> /\ run # "none"
      BY <1>17 DEF UT!RequestBoot, UT!gui
    <2>2. Whole' = Whole /\ Ran' = Ran
      BY <2>1 DEF Whole, Ran, UT!Scripts
    <2> QED BY <2>1, <2>2 DEF ScriptInv
  <1>18. CASE UT!NoFile
    <2>1. UNCHANGED <<button, axis, script, cmd>> /\ run # "none"
      BY <1>18 DEF UT!NoFile, UT!gui
    <2>2. Whole' = Whole /\ Ran' = Ran
      BY <2>1 DEF Whole, Ran, UT!Scripts
    <2> QED BY <2>1, <2>2 DEF ScriptInv
  <1>19. CASE UT!FOEwrite
    <2>1. UNCHANGED <<button, axis, script, cmd>> /\ run # "none"
      BY <1>19 DEF UT!FOEwrite, UT!gui
    <2>2. Whole' = Whole /\ Ran' = Ran
      BY <2>1 DEF Whole, Ran, UT!Scripts
    <2> QED BY <2>1, <2>2 DEF ScriptInv
  <1>20. CASE UT!LeaveBoot
    <2>1. UNCHANGED <<button, axis, script, cmd>> /\ run # "none"
      BY <1>20 DEF UT!LeaveBoot, UT!gui
    <2>2. Whole' = Whole /\ Ran' = Ran
      BY <2>1 DEF Whole, Ran, UT!Scripts
    <2> QED BY <2>1, <2>2 DEF ScriptInv
  <1>21. CASE UNCHANGED toolVars
    <2>1. UNCHANGED <<button, axis, script, cmd, run>>
      BY <1>21 DEF toolVars
    <2>2. Whole' = Whole /\ Ran' = Ran
      BY <2>1 DEF Whole, Ran, UT!Scripts
    <2> QED BY <2>1, <2>2 DEF ScriptInv
  <1> QED BY <1>1, <1>2, <1>3, <1>4, <1>5, <1>6, <1>7, <1>8, <1>9, <1>10, <1>11, <1>12,
         <1>13, <1>14, <1>15, <1>16, <1>17, <1>18, <1>19, <1>20, <1>21
          DEF UT!Next, UT!Gui, UT!Work, UT!Boottest, Buttons, Axes

\* A step that leaves the commands alone.
LEMMA SameScript ==
  ASSUME UNCHANGED <<button, axis, script>>
  PROVE  Whole' = Whole /\ Ran' = Ran
  BY DEF Whole, Ran, UT!Scripts

\* The slave and the file of the command that runs.
LEMMA SlaveIs ==
  ASSUME StageInv, run # "none"
  PROVE  cmd.slave \in Axes /\ cmd.file \in Axes \cup {0}
  BY DEF StageInv, Cmds

\* Both boot mailboxes are not got by writing one of them over a standard one.
LEMMA HalfIsNotBoot ==
  ASSUME NEW m \in Boxes \X Boxes, NEW j \in {1, 2}
  PROVE  [UT!Std EXCEPT ![j] = m[j]] # UT!Boot
  BY DEF UT!Std, UT!Boot, Boxes

\* The mailboxes of BOOT come from the EEPROM to the master, and from the master to the slave.
LEMMA MailboxStep ==
  ASSUME StageInv, SlaveInv, MailboxInv, UT!Next \/ UNCHANGED toolVars
  PROVE  MailboxInv'
  <1>1. CASE \E b \in Buttons, a \in Axes : UT!Click(b, a)
    BY SlaveIs, <1>1 DEF UT!Click, UT!gui, UT!run, UT!slaves, UT!history, UT!Fault,
       UT!NoFault, MailboxInv
  <1>2. CASE UT!Run
    BY SlaveIs, <1>2 DEF UT!Run, UT!gui, UT!run, UT!slaves, UT!history, UT!Fault,
       UT!NoFault, MailboxInv
  <1>3. CASE UT!Exited
    BY SlaveIs, <1>3 DEF UT!Exited, UT!gui, UT!run, UT!slaves, UT!history, UT!Fault,
       UT!NoFault, MailboxInv
  <1>4. CASE UT!HandlerReturns
    BY SlaveIs, <1>4 DEF UT!HandlerReturns, UT!gui, UT!run, UT!slaves, UT!history,
       UT!Fault, UT!NoFault, MailboxInv
  <1>5. CASE UT!ConfigFails
    BY SlaveIs, <1>5 DEF UT!ConfigFails, UT!gui, UT!run, UT!slaves, UT!history,
       UT!Fault, UT!NoFault, MailboxInv
  <1>6. CASE UT!Config
    <2>1. run' = UT!Dispatch(cmd.fn) /\ sm' = [s \in Axes |-> UT!Std] /\ cmd' = cmd
      BY <1>6 DEF UT!Config, Axes
    <2>2. cmd \in Cmds
      BY <1>6 DEF UT!Config, StageInv
    <2>3. run' \notin {"boot", "download"}
      BY <2>1, <2>2 DEF UT!Dispatch, Cmds
    <2>4. sm'[cmd'.slave] = UT!Std
      BY <2>1, <2>2 DEF Cmds
    <2> QED BY <2>3, <2>4 DEF MailboxInv
  <1>7. CASE UT!RequestPreop
    BY SlaveIs, <1>7 DEF UT!RequestPreop, UT!gui, UT!run, UT!slaves, UT!history,
       UT!Fault, UT!NoFault, MailboxInv
  <1>8. CASE UT!Read
    BY SlaveIs, <1>8 DEF UT!Read, UT!Finish, UT!gui, UT!run, UT!slaves, UT!history,
       UT!Fault, UT!NoFault, MailboxInv
  <1>9. CASE UT!Write
    BY SlaveIs, <1>9 DEF UT!Write, UT!Finish, UT!gui, UT!run, UT!slaves, UT!history,
       UT!Fault, UT!NoFault, MailboxInv
  <1>10. CASE UT!Reset
    BY SlaveIs, <1>10 DEF UT!Reset, UT!Finish, UT!gui, UT!run, UT!slaves, UT!history,
       UT!Fault, UT!NoFault, MailboxInv
  <1>11. CASE UT!Parameters
    BY SlaveIs, <1>11 DEF UT!Parameters, UT!Finish, UT!gui, UT!run, UT!slaves,
       UT!history, UT!Fault, UT!NoFault, MailboxInv
  <1>12. CASE UT!RequestSafeop
    BY SlaveIs, <1>12 DEF UT!RequestSafeop, UT!gui, UT!run, UT!slaves, UT!history,
       UT!Fault, UT!NoFault, MailboxInv
  <1>13. CASE UT!WriteSafeOp
    BY SlaveIs, <1>13 DEF UT!WriteSafeOp, UT!Finish, UT!gui, UT!run, UT!slaves,
       UT!history, UT!Fault, UT!NoFault, MailboxInv
  <1>14. CASE UT!RequestInit
    BY SlaveIs, <1>14 DEF UT!RequestInit, UT!gui, UT!run, UT!slaves, UT!history,
       UT!Fault, UT!NoFault, MailboxInv
  <1>15. CASE UT!ReadBootMailbox
    BY SlaveIs, <1>15 DEF UT!ReadBootMailbox, UT!gui, UT!run, UT!slaves, UT!history,
       UT!Fault, UT!NoFault, MailboxInv
  <1>16. CASE UT!ProgramMailbox
    <2>1. /\ run = "program" /\ run' = "boot" /\ UNCHANGED <<cmd, mbx>>
          /\ \/ sm' = [sm EXCEPT ![cmd.slave] = mbx]
             \/ \E j \in {1, 2} : sm' = [sm EXCEPT ![cmd.slave][j] = mbx[j]]
      BY <1>16 DEF UT!ProgramMailbox
    <2>2. cmd.slave \in Axes /\ sm[cmd.slave] = UT!Std /\ mbx \in Boxes \X Boxes
      BY <2>1, SlaveIs DEF MailboxInv, SlaveInv
    <2>3. CASE sm' = [sm EXCEPT ![cmd.slave] = mbx]
      BY <2>1, <2>2, <2>3 DEF MailboxInv, SlaveInv
    <2>4. CASE \E j \in {1, 2} : sm' = [sm EXCEPT ![cmd.slave][j] = mbx[j]]
      <3>1. PICK j \in {1, 2} : sm' = [sm EXCEPT ![cmd.slave][j] = mbx[j]]
        BY <2>4
      <3>2. sm'[cmd.slave] = [UT!Std EXCEPT ![j] = mbx[j]]
        BY <2>2, <3>1 DEF SlaveInv
      <3>3. sm'[cmd.slave] # UT!Boot
        BY <2>2, <3>2, HalfIsNotBoot
      <3> QED BY <2>1, <3>3 DEF MailboxInv
    <2> QED BY <2>1, <2>3, <2>4
  <1>17. CASE UT!RequestBoot
    <2>1. /\ run = "boot" /\ run' \in {"download", "exit"} /\ UNCHANGED <<cmd, mbx, sm>>
          /\ run' = "download" => /\ UT!EntersBoot(cmd.slave)
                                  /\ al' = [al EXCEPT ![cmd.slave] = "BOOT"]
      BY <1>17 DEF UT!RequestBoot
    <2>2. cmd.slave \in Axes
      BY <2>1, SlaveIs
    <2> QED BY <2>1, <2>2 DEF MailboxInv, SlaveInv, UT!EntersBoot
  <1>18. CASE UT!NoFile
    BY SlaveIs, <1>18 DEF UT!NoFile, UT!gui, UT!run, UT!slaves, UT!history, UT!Fault,
       UT!NoFault, MailboxInv
  <1>19. CASE UT!FOEwrite
    BY SlaveIs, <1>19 DEF UT!FOEwrite, UT!gui, UT!run, UT!slaves, UT!history, UT!Fault,
       UT!NoFault, MailboxInv
  <1>20. CASE UT!LeaveBoot
    BY SlaveIs, <1>20 DEF UT!LeaveBoot, UT!gui, UT!run, UT!slaves, UT!history,
       UT!Fault, UT!NoFault, MailboxInv
  <1>21. CASE UNCHANGED toolVars
    BY SlaveIs, <1>21 DEF toolVars, MailboxInv
  <1> QED BY <1>1, <1>2, <1>3, <1>4, <1>5, <1>6, <1>7, <1>8, <1>9, <1>10, <1>11, <1>12,
         <1>13, <1>14, <1>15, <1>16, <1>17, <1>18, <1>19, <1>20, <1>21
          DEF UT!Next, UT!Gui, UT!Work, UT!Boottest, Buttons, Axes

\* The next command.
LEMMA RunIsNext ==
  ASSUME StageInv, ScriptInv, UT!Run
  PROVE  /\ button # "none" /\ Whole' = Whole
         /\ Ran' = Ran + 1 /\ Ran \in 0 .. Len(Whole) - 1 /\ Len(Whole) \in Nat
  <1>1. script # <<>> /\ script' = Tail(script) /\ UNCHANGED <<button, axis>>
    BY DEF UT!Run
  <1>2. button # "none" /\ script \in Seq(Cmds)
    BY <1>1 DEF ScriptInv
  <1>3. Len(script) \in Nat \ {0} /\ Len(script') = Len(script) - 1
    BY <1>1, <1>2
  <1>4. Whole' = Whole
    BY <1>1 DEF Whole, UT!Scripts
  <1>5. Len(Whole) \in Nat /\ Ran \in 0 .. Len(Whole) /\ Len(script) = Len(Whole) - Ran
    BY <1>2, RanIs
  <1>6. Ran' = Len(Whole) - Len(script')
    BY <1>4 DEF Ran
  <1>7. \A w, r, s, t \in Int : s = w - r /\ s # 0 /\ r <= w /\ t = w - (s - 1) =>
                                  t = r + 1 /\ r <= w - 1
    OBVIOUS
  <1>8. Ran' = Ran + 1 /\ Ran <= Len(Whole) - 1
    <2>1. Ran \in Int /\ Len(Whole) \in Int /\ Len(script) \in Int /\ Ran <= Len(Whole)
      BY <1>3, <1>5
    <2>2. Ran' = Len(Whole) - (Len(script) - 1)
      BY <1>3, <1>6
    <2>3. Ran' \in Int
      BY <2>1, <2>2
    <2> QED BY <1>3, <1>5, <1>7, <2>1, <2>2, <2>3
  <1> QED BY <1>2, <1>4, <1>5, <1>8

\* A command is a download when the place is one of a download.
LEMMA FileCmd ==
  StageInv /\ ScriptInv /\ run # "none" /\ button = "firmware" =>
    (cmd.fn = "f" <=> Ran \in {1, 3, 5})
  <1>1. ASSUME StageInv, ScriptInv, run # "none", button = "firmware"
        PROVE  cmd.fn = "f" <=> Ran \in {1, 3, 5}
    <2>1. Ran \in {1, 3, 5} => cmd.fn = "f"
      BY <1>1, CmdIs
    <2>2. Ran \notin {1, 3, 5} => cmd.fn \in {"r", "v", "g"}
      BY <1>1, CmdIs
    <2> QED BY <2>1, <2>2
  <1> QED BY <1>1
LEMMA FileCmdNext ==
  (StageInv /\ ScriptInv /\ run # "none" /\ button = "firmware" =>
     (cmd.fn = "f" <=> Ran \in {1, 3, 5}))'
  BY FileCmd, PTL

\* How many files there are after a command.
LEMMA FilesAre ==
  /\ Files(0) = 0 /\ Files(13) = 3
  /\ \A n \in Nat : Files(n) \in 0 .. 3
  /\ \A n \in 0 .. 12 : Files(n + 1) = IF n + 1 \in {1, 3, 5} THEN Files(n) + 1 ELSE Files(n)
  /\ \A n \in {1, 3, 5} : Files(n) \in 1 .. 3
  <1>1. ASSUME NEW n \in 0 .. 12
        PROVE  Files(n + 1) = IF n + 1 \in {1, 3, 5} THEN Files(n) + 1 ELSE Files(n)
    <2>1. n \in {0, 1, 2, 3, 4, 5} \/ n \in 6 .. 12
      OBVIOUS
    <2>2. CASE n \in {0, 1, 2, 3, 4, 5}
      BY <2>2 DEF Files
    <2>3. CASE n \in 6 .. 12
      BY <2>3 DEF Files
    <2> QED BY <2>1, <2>2, <2>3
  <1> QED BY <1>1 DEF Files

LEMMA NextFile ==
  ASSUME NEW n \in 1 .. 3
  PROVE  Append(FirstFiles(n - 1), n) = FirstFiles(n)
  BY DEF FirstFiles

LEMMA NoFileYet == <<>> = FirstFiles(0)
  BY DEF FirstFiles

\* The number of files, and where it changes.
LEMMA CompleteIs ==
  ASSUME StageInv, ScriptInv, button = "firmware"
  PROVE  /\ Ran \in 0 .. 13 /\ Files(Ran) \in 0 .. 3 /\ Complete \in 0 .. 3
         /\ run = "none" => Complete = Files(Ran)
         /\ cmd.fn # "f" \/ iResult => Complete = Files(Ran)
         /\ run # "none" /\ cmd.fn = "f" /\ ~iResult => Complete = Files(Ran) - 1
  <1>1. Ran \in 0 .. 13
    BY RanIs
  <1>2. Files(Ran) \in 0 .. 3
    BY <1>1, FilesAre
  <1>3. run # "none" /\ cmd.fn = "f" => Files(Ran) \in 1 .. 3
    BY <1>1, CmdIs, FilesAre
  <1> QED BY <1>1, <1>2, <1>3 DEF Complete

\* A step within a run that neither downloads nor succeeds with a download.
LEMMA FirmwareKept ==
  ASSUME StageInv, ScriptInv, FirmwareInv, StageInv', ScriptInv',
         UNCHANGED <<button, axis, script, cmd, msg, fw, loaded>>, run # "none", run' # "none",
         iResult' = iResult \/ cmd.fn # "f",
         run' \notin {"leave", "exit"} => ~iResult',
         run \in {"leave", "exit"} => run' \in {"leave", "exit"}
  PROVE  FirmwareInv'
  <1>1. Ran' = Ran
    BY SameScript
  <1>2. CASE button # "firmware"
    BY <1>2 DEF FirmwareInv
  <1>3. CASE button = "firmware"
    <2>1. Complete' = Complete
      BY <1>1 DEF Complete
    <2>2. msg = "fail" => Ran >= 7
      BY <1>3 DEF FirmwareInv
    <2>3. msg # "fail" => /\ loaded = FirstFiles(Complete)
                          /\ Ran >= 2 \/ (Ran >= 1 /\ run = "none") => msg = "ok"
      BY <1>3 DEF FirmwareInv
    <2>4. /\ msg # "fail" /\ Complete > 0
          /\ ~(run' \in {"leave", "exit"} /\ cmd.fn = "f" /\ ~iResult')
          => fw[1] = Complete
      BY <1>3 DEF FirmwareInv
    <2>5. \E n \in 0 .. 3 : loaded = FirstFiles(n)
      BY DEF FirmwareInv
    <2>6. Ran \in 0 .. 13
      BY <1>3, CompleteIs
    <2>7. msg' = "fail" => Ran' >= 6 /\ (run' # "none" => Ran' >= 7)
      BY <1>1, <2>2, <2>6
    <2>8. msg' # "fail" => loaded' = FirstFiles(Complete')
      BY <2>1, <2>3
    <2>9. msg' # "fail" => (Ran' >= 2 \/ (Ran' >= 1 /\ run' = "none") => msg' = "ok")
      BY <1>1, <2>3
    <2> QED BY <1>3, <2>1, <2>4, <2>5, <2>7, <2>8, <2>9 DEF FirmwareInv
  <1> QED BY <1>2, <1>3

\* The files arrive one after the other.
LEMMA FirmwareStep ==
  ASSUME StageInv, ScriptInv, SlaveInv, FirmwareInv, StageInv', ScriptInv',
         UT!Next \/ UNCHANGED toolVars
  PROVE  FirmwareInv'
  <1>1. CASE \E b \in Buttons, a \in Axes : UT!Click(b, a)
    <2>1. /\ loaded' = <<>> /\ msg' = "none" /\ run' = "none" /\ run = "none"
          /\ \E b \in Buttons, a \in Axes : script' = UT!Scripts(b, a) /\ button' = b /\ axis' = a
      BY <1>1 DEF UT!Click, UT!run, ScriptInv
    <2>2. loaded' = FirstFiles(0)
      BY <2>1, NoFileYet
    <2>3. button' = "firmware" => Ran' = 0 /\ Complete' = 0
      <3>1. Whole' = script'
        BY <2>1 DEF Whole, UT!Scripts
      <3>2. button' = "firmware" => Whole' = UT!FirmwareNew
        BY <2>1, <3>1 DEF UT!Scripts
      <3>3. button' = "firmware" => Ran' = 13 - 13
        BY <3>1, <3>2, FirmwareIs DEF Ran
      <3>4. 13 - 13 = 0
        OBVIOUS
      <3> QED BY <2>1, <3>3, <3>4, FilesAre DEF Complete
    <2> QED BY <2>1, <2>2, <2>3 DEF FirmwareInv
  <1>2. CASE UT!Run
    <2>1. /\ UNCHANGED <<button, axis, msg, fw, loaded>> /\ run = "none" /\ run' = "config"
          /\ ~iResult' /\ script # <<>> /\ script' = Tail(script)
      BY <1>2 DEF UT!Run, UT!slaves, UT!history
    <2>2. CASE button # "firmware"
      BY <2>1, <2>2 DEF FirmwareInv
    <2>3. CASE button = "firmware"
      <3>3. Ran' = Ran + 1 /\ Ran \in 0 .. 12
        <4>1. Len(Whole) = 13
          BY <2>3, RanIs
        <4>2. Ran' = Ran + 1 /\ Ran \in 0 .. Len(Whole) - 1
          BY <1>2, RunIsNext
        <4> QED BY <4>1, <4>2
      <3>4. /\ Files(Ran') = IF Ran' \in {1, 3, 5} THEN Files(Ran) + 1 ELSE Files(Ran)
            /\ Files(Ran) \in 0 .. 3
        BY <3>3, FilesAre
      <3>5. cmd'.fn = "f" <=> Ran' \in {1, 3, 5}
        <4>1. button' = "firmware" /\ run' # "none"
          BY <2>1, <2>3
        <4> QED BY <4>1, FileCmdNext
      <3>6. Complete' = Files(Ran) /\ Complete = Files(Ran)
        BY <2>1, <3>4, <3>5 DEF Complete
      <3>7. msg = "fail" => Ran >= 6
        BY <2>3 DEF FirmwareInv
      <3>8. msg # "fail" => /\ loaded = FirstFiles(Complete)
                            /\ Complete > 0 => fw[1] = Complete
                            /\ Ran >= 1 => msg = "ok"
        BY <2>1, <2>3 DEF FirmwareInv
      <3>9. \E n \in 0 .. 3 : loaded' = FirstFiles(n)
        BY <2>1 DEF FirmwareInv
      <3>10. /\ msg' = "fail" => Ran' >= 6 /\ Ran' >= 7
             /\ msg' # "fail" /\ Ran' >= 2 => msg' = "ok"
        BY <2>1, <3>3, <3>7, <3>8
      <3> QED BY <2>1, <2>3, <3>6, <3>8, <3>9, <3>10 DEF FirmwareInv
    <2> QED BY <2>2, <2>3
  <1>3. CASE UT!Exited
    <2>1. /\ UNCHANGED <<button, axis, cmd, iResult, fw, loaded>> /\ run = "exit" /\ run' = "none"
          /\ script' = UT!Rest
          /\ msg' = IF cmd.fn \notin UT!Judged THEN msg
                    ELSE IF iResult /\ msg # "fail" THEN "ok" ELSE "fail"
      BY <1>3 DEF UT!Exited, UT!slaves, UT!history
    <2>2. CASE button # "firmware"
      BY <2>1, <2>2 DEF FirmwareInv
    <2>3. CASE button = "firmware"
      <3>1. Whole' = Whole /\ Len(Whole) = 13 /\ Ran \in 1 .. 13
        BY <2>1, <2>3, RanIs, CmdIs DEF Whole, UT!Scripts
      <3>2. \E n \in 0 .. 3 : loaded' = FirstFiles(n)
        BY <2>1 DEF FirmwareInv
      <3>3. CASE cmd.fn = "f" /\ ~iResult
        <4>1. Len(script') = 7 /\ msg' = "fail"
          BY <2>1, <3>3, ChecksAre DEF UT!Rest, Checks, UT!Judged
        <4>2. Ran' = 6
          BY <3>1, <4>1 DEF Ran
        <4> QED BY <2>1, <2>3, <3>2, <4>1, <4>2 DEF FirmwareInv
      <3>4. CASE ~(cmd.fn = "f" /\ ~iResult)
        <4>1. cmd.fn # "p" /\ script' = script /\ Ran' = Ran
          <5>1. cmd.fn # "p"
            BY <2>1, <2>3, CmdIs
          <5>2. script' = script
            BY <2>1, <3>4, <5>1 DEF UT!Rest
          <5> QED BY <3>1, <5>1, <5>2 DEF Ran
        <4>2. Complete' = Files(Ran) /\ Complete = Files(Ran)
          BY <2>1, <3>4, <4>1 DEF Complete
        <4>3. msg = "fail" => Ran >= 7
          BY <2>1, <2>3 DEF FirmwareInv
        <4>4. msg # "fail" => /\ loaded = FirstFiles(Complete)
                              /\ Complete > 0 => fw[1] = Complete
                              /\ Ran >= 2 => msg = "ok"
          BY <2>1, <2>3, <3>4 DEF FirmwareInv
        <4>5. cmd.fn \in {"f", "r", "v", "g"} /\ (Ran = 1 => cmd.fn = "f")
          BY <2>1, <2>3, CmdIs
        <4>6. /\ msg' = "fail" <=> msg = "fail"
              /\ cmd.fn = "f" /\ msg # "fail" => msg' = "ok"
              /\ cmd.fn # "f" => msg' = msg
          BY <2>1, <3>4, <4>5 DEF UT!Judged
        <4>7. msg' = "fail" => Ran' >= 6
          BY <3>1, <4>1, <4>3, <4>6
        <4>8. msg' # "fail" => msg' = "ok"
          <5>1. Ran = 1 \/ Ran >= 2
            BY <3>1
          <5> QED BY <4>4, <4>5, <4>6, <5>1
        <4> QED BY <2>1, <2>3, <3>2, <4>2, <4>4, <4>6, <4>7, <4>8 DEF FirmwareInv
      <3> QED BY <3>3, <3>4
    <2> QED BY <2>2, <2>3
  <1>4. CASE UT!HandlerReturns
    <2>1. button' = "none" /\ loaded' = loaded /\ run' = "none"
      BY <1>4 DEF UT!HandlerReturns, UT!run, UT!history
    <2> QED BY <2>1 DEF FirmwareInv
  <1>5. CASE UT!ConfigFails
    <2>1. /\ UNCHANGED <<button, axis, script, cmd, msg, fw, loaded>>
          /\ run # "none" /\ run' # "none"
      BY <1>5 DEF UT!ConfigFails, UT!gui, UT!run, UT!slaves, UT!history, UT!Fault,
         UT!NoFault
    <2>2. /\ iResult' = iResult \/ cmd.fn # "f"
          /\ run' \notin {"leave", "exit"} => ~iResult'
          /\ run \in {"leave", "exit"} => run' \in {"leave", "exit"}
      BY <1>5 DEF UT!ConfigFails, UT!gui, UT!run, UT!slaves, UT!history, UT!Fault,
         UT!NoFault, FirmwareInv, StageInv, UT!Dispatch
    <2> QED BY <2>1, <2>2, FirmwareKept
  <1>6. CASE UT!Config
    <2>1. /\ UNCHANGED <<button, axis, script, cmd, msg, fw, loaded, iResult>>
          /\ run = "config" /\ run' = UT!Dispatch(cmd.fn)
      BY <1>6 DEF UT!Config, UT!gui
    <2>2. cmd \in Cmds /\ ~iResult
      BY <2>1 DEF StageInv, FirmwareInv
    <2>3. run' # "none"
      BY <2>1, <2>2 DEF UT!Dispatch, Cmds
    <2> QED BY <2>1, <2>2, <2>3, FirmwareKept
  <1>7. CASE UT!RequestPreop
    <2>1. /\ UNCHANGED <<button, axis, script, cmd, msg, fw, loaded>>
          /\ run # "none" /\ run' # "none"
      BY <1>7 DEF UT!RequestPreop, UT!gui, UT!run, UT!slaves, UT!history, UT!Fault,
         UT!NoFault
    <2>2. /\ iResult' = iResult \/ cmd.fn # "f"
          /\ run' \notin {"leave", "exit"} => ~iResult'
          /\ run \in {"leave", "exit"} => run' \in {"leave", "exit"}
      BY <1>7 DEF UT!RequestPreop, UT!gui, UT!run, UT!slaves, UT!history, UT!Fault,
         UT!NoFault, FirmwareInv, StageInv, UT!Dispatch
    <2> QED BY <2>1, <2>2, FirmwareKept
  <1>8. CASE UT!Read
    <2>1. /\ UNCHANGED <<button, axis, script, cmd, msg, fw, loaded>>
          /\ run # "none" /\ run' # "none"
      BY <1>8 DEF UT!Read, UT!gui, UT!run, UT!slaves, UT!history, UT!Fault, UT!NoFault,
         UT!Finish
    <2>2. /\ iResult' = iResult \/ cmd.fn # "f"
          /\ run' \notin {"leave", "exit"} => ~iResult'
          /\ run \in {"leave", "exit"} => run' \in {"leave", "exit"}
      BY <1>8 DEF UT!Read, UT!gui, UT!run, UT!slaves, UT!history, UT!Fault, UT!NoFault,
         UT!Finish, FirmwareInv, StageInv, UT!Dispatch
    <2> QED BY <2>1, <2>2, FirmwareKept
  <1>9. CASE UT!Write
    <2>1. /\ UNCHANGED <<button, axis, script, cmd, msg, fw, loaded>>
          /\ run # "none" /\ run' # "none"
      BY <1>9 DEF UT!Write, UT!gui, UT!run, UT!slaves, UT!history, UT!Fault,
         UT!NoFault, UT!Finish
    <2>2. /\ iResult' = iResult \/ cmd.fn # "f"
          /\ run' \notin {"leave", "exit"} => ~iResult'
          /\ run \in {"leave", "exit"} => run' \in {"leave", "exit"}
      BY <1>9 DEF UT!Write, UT!gui, UT!run, UT!slaves, UT!history, UT!Fault,
         UT!NoFault, UT!Finish, FirmwareInv, StageInv, UT!Dispatch
    <2> QED BY <2>1, <2>2, FirmwareKept
  <1>10. CASE UT!Reset
    <2>1. /\ UNCHANGED <<button, axis, script, cmd, msg, fw, loaded>>
          /\ run # "none" /\ run' # "none"
      BY <1>10 DEF UT!Reset, UT!gui, UT!run, UT!slaves, UT!history, UT!Fault,
         UT!NoFault, UT!Finish
    <2>2. /\ iResult' = iResult \/ cmd.fn # "f"
          /\ run' \notin {"leave", "exit"} => ~iResult'
          /\ run \in {"leave", "exit"} => run' \in {"leave", "exit"}
      BY <1>10 DEF UT!Reset, UT!gui, UT!run, UT!slaves, UT!history, UT!Fault,
         UT!NoFault, UT!Finish, FirmwareInv, StageInv, UT!Dispatch
    <2> QED BY <2>1, <2>2, FirmwareKept
  <1>11. CASE UT!Parameters
    <2>1. /\ UNCHANGED <<button, axis, script, cmd, msg, fw, loaded>>
          /\ run # "none" /\ run' # "none"
      BY <1>11 DEF UT!Parameters, UT!gui, UT!run, UT!slaves, UT!history, UT!Fault,
         UT!NoFault, UT!Finish
    <2>2. /\ iResult' = iResult \/ cmd.fn # "f"
          /\ run' \notin {"leave", "exit"} => ~iResult'
          /\ run \in {"leave", "exit"} => run' \in {"leave", "exit"}
      BY <1>11 DEF UT!Parameters, UT!gui, UT!run, UT!slaves, UT!history, UT!Fault,
         UT!NoFault, UT!Finish, FirmwareInv, StageInv, UT!Dispatch
    <2> QED BY <2>1, <2>2, FirmwareKept
  <1>12. CASE UT!RequestSafeop
    <2>1. /\ UNCHANGED <<button, axis, script, cmd, msg, fw, loaded>>
          /\ run # "none" /\ run' # "none"
      BY <1>12 DEF UT!RequestSafeop, UT!gui, UT!run, UT!slaves, UT!history, UT!Fault,
         UT!NoFault
    <2>2. /\ iResult' = iResult \/ cmd.fn # "f"
          /\ run' \notin {"leave", "exit"} => ~iResult'
          /\ run \in {"leave", "exit"} => run' \in {"leave", "exit"}
      BY <1>12 DEF UT!RequestSafeop, UT!gui, UT!run, UT!slaves, UT!history, UT!Fault,
         UT!NoFault, FirmwareInv, StageInv, UT!Dispatch
    <2> QED BY <2>1, <2>2, FirmwareKept
  <1>13. CASE UT!WriteSafeOp
    <2>1. /\ UNCHANGED <<button, axis, script, cmd, msg, fw, loaded>>
          /\ run # "none" /\ run' # "none"
      BY <1>13 DEF UT!WriteSafeOp, UT!gui, UT!run, UT!slaves, UT!history, UT!Fault,
         UT!NoFault, UT!Finish
    <2>2. /\ iResult' = iResult \/ cmd.fn # "f"
          /\ run' \notin {"leave", "exit"} => ~iResult'
          /\ run \in {"leave", "exit"} => run' \in {"leave", "exit"}
      BY <1>13 DEF UT!WriteSafeOp, UT!gui, UT!run, UT!slaves, UT!history, UT!Fault,
         UT!NoFault, UT!Finish, FirmwareInv, StageInv, UT!Dispatch
    <2> QED BY <2>1, <2>2, FirmwareKept
  <1>14. CASE UT!RequestInit
    <2>1. /\ UNCHANGED <<button, axis, script, cmd, msg, fw, loaded>>
          /\ run # "none" /\ run' # "none"
      BY <1>14 DEF UT!RequestInit, UT!gui, UT!run, UT!slaves, UT!history, UT!Fault,
         UT!NoFault
    <2>2. /\ iResult' = iResult \/ cmd.fn # "f"
          /\ run' \notin {"leave", "exit"} => ~iResult'
          /\ run \in {"leave", "exit"} => run' \in {"leave", "exit"}
      BY <1>14 DEF UT!RequestInit, UT!gui, UT!run, UT!slaves, UT!history, UT!Fault,
         UT!NoFault, FirmwareInv, StageInv, UT!Dispatch
    <2> QED BY <2>1, <2>2, FirmwareKept
  <1>15. CASE UT!ReadBootMailbox
    <2>1. /\ UNCHANGED <<button, axis, script, cmd, msg, fw, loaded>>
          /\ run # "none" /\ run' # "none"
      BY <1>15 DEF UT!ReadBootMailbox, UT!gui, UT!run, UT!slaves, UT!history, UT!Fault,
         UT!NoFault
    <2>2. /\ iResult' = iResult \/ cmd.fn # "f"
          /\ run' \notin {"leave", "exit"} => ~iResult'
          /\ run \in {"leave", "exit"} => run' \in {"leave", "exit"}
      BY <1>15 DEF UT!ReadBootMailbox, UT!gui, UT!run, UT!slaves, UT!history, UT!Fault,
         UT!NoFault, FirmwareInv, StageInv, UT!Dispatch
    <2> QED BY <2>1, <2>2, FirmwareKept
  <1>16. CASE UT!ProgramMailbox
    <2>1. /\ UNCHANGED <<button, axis, script, cmd, msg, fw, loaded>>
          /\ run # "none" /\ run' # "none"
      BY <1>16 DEF UT!ProgramMailbox, UT!gui, UT!run, UT!slaves, UT!history, UT!Fault,
         UT!NoFault
    <2>2. /\ iResult' = iResult \/ cmd.fn # "f"
          /\ run' \notin {"leave", "exit"} => ~iResult'
          /\ run \in {"leave", "exit"} => run' \in {"leave", "exit"}
      BY <1>16 DEF UT!ProgramMailbox, UT!gui, UT!run, UT!slaves, UT!history, UT!Fault,
         UT!NoFault, FirmwareInv, StageInv, UT!Dispatch
    <2> QED BY <2>1, <2>2, FirmwareKept
  <1>17. CASE UT!RequestBoot
    <2>1. /\ UNCHANGED <<button, axis, script, cmd, msg, fw, loaded>>
          /\ run # "none" /\ run' # "none"
      BY <1>17 DEF UT!RequestBoot, UT!gui, UT!run, UT!slaves, UT!history, UT!Fault,
         UT!NoFault
    <2>2. /\ iResult' = iResult \/ cmd.fn # "f"
          /\ run' \notin {"leave", "exit"} => ~iResult'
          /\ run \in {"leave", "exit"} => run' \in {"leave", "exit"}
      BY <1>17 DEF UT!RequestBoot, UT!gui, UT!run, UT!slaves, UT!history, UT!Fault,
         UT!NoFault, FirmwareInv, StageInv, UT!Dispatch
    <2> QED BY <2>1, <2>2, FirmwareKept
  <1>18. CASE UT!NoFile
    <2>1. /\ UNCHANGED <<button, axis, script, cmd, msg, fw, loaded>>
          /\ run # "none" /\ run' # "none"
      BY <1>18 DEF UT!NoFile, UT!gui, UT!run, UT!slaves, UT!history, UT!Fault,
         UT!NoFault
    <2>2. /\ iResult' = iResult \/ cmd.fn # "f"
          /\ run' \notin {"leave", "exit"} => ~iResult'
          /\ run \in {"leave", "exit"} => run' \in {"leave", "exit"}
      BY <1>18 DEF UT!NoFile, UT!gui, UT!run, UT!slaves, UT!history, UT!Fault,
         UT!NoFault, FirmwareInv, StageInv, UT!Dispatch
    <2> QED BY <2>1, <2>2, FirmwareKept
  <1>19. CASE UT!FOEwrite
    <2>1. /\ UNCHANGED <<button, axis, script, cmd, msg>> /\ run = "download" /\ run' = "leave"
          /\ \/ /\ fw' = [fw EXCEPT ![cmd.slave] = cmd.file]
                /\ loaded' = Append(loaded, cmd.file) /\ iResult' = TRUE
             \/ UNCHANGED <<iResult, loaded>>
      BY <1>19 DEF UT!FOEwrite, UT!gui
    <2>2. /\ cmd.fn = "f" /\ ~iResult /\ button = "firmware" /\ Ran \in {1, 3, 5}
          /\ cmd.slave = 1 /\ cmd.file = Files(Ran)
      BY <2>1, CmdIs DEF StageInv, FirmwareInv
    <2>3. Ran' = Ran /\ Files(Ran) \in 1 .. 3 /\ Complete = Files(Ran) - 1
      BY <2>1, <2>2, SameScript, FilesAre, CompleteIs
    <2>4. msg # "fail"
      BY <2>1, <2>2 DEF FirmwareInv
    <2>5. loaded = FirstFiles(Files(Ran) - 1) /\ (Ran >= 2 => msg = "ok")
      BY <2>2, <2>3, <2>4 DEF FirmwareInv
    <2>6. CASE UNCHANGED <<iResult, loaded>>
      <3>1. Complete' = Files(Ran) - 1
        BY <2>1, <2>2, <2>3, <2>6 DEF Complete
      <3>2. Files(Ran) - 1 \in 0 .. 3
        BY <2>3
      <3>3. ~iResult' /\ loaded' = FirstFiles(Files(Ran) - 1)
        BY <2>2, <2>5, <2>6
      <3> QED BY <2>1, <2>2, <2>3, <2>4, <2>5, <3>1, <3>2, <3>3 DEF FirmwareInv
    <2>7. CASE /\ fw' = [fw EXCEPT ![cmd.slave] = cmd.file]
               /\ loaded' = Append(loaded, cmd.file) /\ iResult' = TRUE
      <3>1. Complete' = Files(Ran)
        BY <2>1, <2>2, <2>3, <2>7 DEF Complete
      <3>2. loaded' = FirstFiles(Files(Ran))
        BY <2>2, <2>3, <2>5, <2>7, NextFile
      <3>3. fw'[1] = Files(Ran)
        BY <2>2, <2>7 DEF SlaveInv, Axes, UT!Axes, UT!AXIS_DRIVING
      <3>4. Files(Ran) \in 0 .. 3
        BY <2>3
      <3> QED BY <2>1, <2>2, <2>3, <2>4, <2>5, <3>1, <3>2, <3>3, <3>4 DEF FirmwareInv
    <2> QED BY <2>1, <2>6, <2>7
  <1>20. CASE UT!LeaveBoot
    <2>1. /\ UNCHANGED <<button, axis, script, cmd, msg, fw, loaded>>
          /\ run # "none" /\ run' # "none"
      BY <1>20 DEF UT!LeaveBoot, UT!gui, UT!run, UT!slaves, UT!history, UT!Fault,
         UT!NoFault
    <2>2. /\ iResult' = iResult \/ cmd.fn # "f"
          /\ run' \notin {"leave", "exit"} => ~iResult'
          /\ run \in {"leave", "exit"} => run' \in {"leave", "exit"}
      BY <1>20 DEF UT!LeaveBoot, UT!gui, UT!run, UT!slaves, UT!history, UT!Fault,
         UT!NoFault, FirmwareInv, StageInv, UT!Dispatch
    <2> QED BY <2>1, <2>2, FirmwareKept
  <1>21. CASE UNCHANGED toolVars
    <2>1. /\ UNCHANGED <<button, axis, script, cmd, msg, fw, loaded, run, iResult>>
      BY <1>21 DEF toolVars
    <2>2. Ran' = Ran /\ Complete' = Complete
      BY <2>1, SameScript DEF Complete
    <2> QED BY <2>1, <2>2 DEF FirmwareInv
  <1> QED BY <1>1, <1>2, <1>3, <1>4, <1>5, <1>6, <1>7, <1>8, <1>9, <1>10, <1>11, <1>12,
         <1>13, <1>14, <1>15, <1>16, <1>17, <1>18, <1>19, <1>20, <1>21
          DEF UT!Next, UT!Gui, UT!Work, UT!Boottest, Buttons, Axes

\* A step within a run: where a call goes wrong there is no more to say, else what
\* the step has to do has been done.
LEMMA CleanKept ==
  ASSUME StageInv, ScriptInv, CountInv, CleanInv,
         UNCHANGED <<button, axis, script, cmd, msg, readable, before>>,
         run # "none", run' # "none", faults' = faults \/ faults' = faults + 1,
         Clean /\ faults' = faults =>
            /\ run' \in {"eeprom", "program", "boot"} => al'[cmd.slave] = "INIT"
            /\ run' \in {"program", "boot"} => mbx' = UT!Boot
            /\ run' = "boot" => sm'[cmd.slave] = UT!Boot
            /\ run' \in {"leave", "exit"} => iResult'
            /\ button = "parameter" /\ (Ran >= 2 \/ (Ran = 1 /\ run' = "exit")) =>
                 par'[1] = axis
  PROVE  CleanInv'
  <1>1. Ran' = Ran /\ Ran \in Nat
    BY SameScript, RanIs DEF ScriptInv
  <1>2. CASE faults' = faults + 1
    <2>1. before <= faults /\ before \in Int /\ faults \in Int
      BY DEF CountInv
    <2>2. faults' # before
      BY <1>2, <2>1
    <2> QED BY <2>2 DEF CleanInv, Clean
  <1>3. CASE faults' = faults /\ ~Clean
    BY <1>3 DEF CleanInv, Clean
  <1>4. CASE faults' = faults /\ Clean
    <2>1. Ran >= 1 /\ ~(Ran >= 2) => Ran = 1
      BY <1>1
    <2>2. msg # "fail" /\ (button = "parameter" /\ Ran >= 2 => msg = "ok")
      BY <1>4 DEF CleanInv
    <2>3. \/ ~(button' = "parameter" /\ (Ran' >= 2 \/ (Ran' >= 1 /\ run' \in {"none", "exit"})))
          \/ par'[1] = axis'
      BY <1>1, <1>4, <2>1
    <2>4. \/ ~(button' = "parameter" /\ (Ran' >= 2 \/ (Ran' >= 1 /\ run' = "none")))
          \/ msg' = "ok"
      BY <1>1, <2>2
    <2> QED BY <1>4, <2>2, <2>3, <2>4 DEF CleanInv
  <1> QED BY <1>2, <1>3, <1>4

LEMMA RanNat == StageInv /\ ScriptInv /\ button # "none" => Ran \in Nat
  <1>1. ASSUME StageInv, ScriptInv, button # "none"
        PROVE  Ran \in Nat
    BY <1>1, RanIs
  <1> QED BY <1>1
LEMMA RanNext == (StageInv /\ ScriptInv /\ button # "none" => Ran \in Nat)'
  BY RanNat, PTL

\* What a run has to do has been done where nothing has failed.
LEMMA CleanStep ==
  ASSUME StageInv, ScriptInv, SlaveInv, CountInv, MailboxInv, FirmwareInv, CleanInv,
         StageInv', ScriptInv', UT!Next \/ UNCHANGED toolVars
  PROVE  CleanInv'
  <1>1. CASE \E b \in Buttons, a \in Axes : UT!Click(b, a)
    <2>1. /\ msg' = "none" /\ run' = "none"
          /\ \E b \in Buttons, a \in Axes : script' = UT!Scripts(b, a) /\ button' = b /\ axis' = a
      BY <1>1 DEF UT!Click, UT!run, ScriptInv
    <2>2. button' = "parameter" => Ran' = 0
      <3>1. Whole' = script'
        BY <2>1 DEF Whole, UT!Scripts
      <3>2. button' = "parameter" => \E a \in Axes : Whole' = UT!Parameter(a)
        BY <2>1, <3>1 DEF UT!Scripts
      <3>3. button' = "parameter" => Ran' = 6 - 6
        BY <3>1, <3>2, ParameterIs DEF Ran
      <3>4. 6 - 6 = 0
        OBVIOUS
      <3> QED BY <3>3, <3>4
    <2> QED BY <2>1, <2>2 DEF CleanInv
  <1>2. CASE UT!Run
    <2>1. /\ UNCHANGED <<button, axis, msg, par, readable, before, faults>>
          /\ run = "none" /\ run' = "config"
      BY <1>2 DEF UT!Run, UT!slaves, UT!history
    <2>2. Ran' = Ran + 1 /\ Ran \in Nat
      BY <1>2, RunIsNext
    <2>3. Clean' = Clean
      BY <2>1 DEF Clean
    <2>4. /\ Ran' >= 2 \/ (Ran' >= 1 /\ run' \in {"none", "exit"}) => Ran >= 1
          /\ Ran' >= 2 \/ (Ran' >= 1 /\ run' = "none") => Ran >= 1
      BY <2>1, <2>2
    <2> QED BY <2>1, <2>3, <2>4 DEF CleanInv
  <1>3. CASE UT!Exited
    <2>1. /\ UNCHANGED <<button, axis, cmd, iResult, par, readable, before, faults>>
          /\ run = "exit" /\ run' = "none" /\ script' = UT!Rest
          /\ msg' = IF cmd.fn \notin UT!Judged THEN msg
                    ELSE IF iResult /\ msg # "fail" THEN "ok" ELSE "fail"
      BY <1>3 DEF UT!Exited, UT!slaves, UT!history
    <2>2. Clean' = Clean
      BY <2>1 DEF Clean
    <2>3. ASSUME Clean
          PROVE  /\ msg' # "fail"
                 /\ button = "parameter" /\ Ran' >= 1 => par[1] = axis /\ msg' = "ok"
      <3>1. iResult /\ msg # "fail"
        BY <2>1, <2>3 DEF CleanInv
      <3>2. Ran' = Ran
        BY <2>1, <3>1, SameScript DEF UT!Rest
      <3>3. msg' = IF cmd.fn \notin UT!Judged THEN msg ELSE "ok"
        BY <2>1, <3>1
      <3>4. ASSUME button = "parameter", Ran >= 1
            PROVE  par[1] = axis /\ msg' = "ok"
        <4>1. par[1] = axis
          BY <2>1, <2>3, <3>4 DEF CleanInv
        <4>2. CASE Ran >= 2
          <5>1. msg = "ok"
            BY <2>3, <3>4, <4>2 DEF CleanInv
          <5> QED BY <3>3, <4>1, <5>1
        <4>3. CASE ~(Ran >= 2)
          <5>1. Ran = 1
            BY <2>1, <3>4, <4>3, CmdIs
          <5>2. cmd.fn = "p"
            BY <2>1, <3>4, <5>1, CmdIs
          <5> QED BY <3>3, <4>1, <5>2 DEF UT!Judged
        <4> QED BY <4>2, <4>3
      <3> QED BY <3>1, <3>2, <3>3, <3>4
    <2>4. Ran' >= 2 => Ran' >= 1
      <3>1. Ran' \in Nat
        BY <2>1, RanNext DEF StageInv
      <3> QED BY <3>1
    <2> QED BY <2>1, <2>2, <2>3, <2>4 DEF CleanInv
  <1>4. CASE UT!HandlerReturns
    <2>1. button' = "none" /\ run' = "none" /\ UNCHANGED <<msg, readable, before, faults>>
      BY <1>4 DEF UT!HandlerReturns, UT!run, UT!slaves, UT!history
    <2>2. Clean' => Clean
      BY <2>1 DEF Clean
    <2> QED BY <2>1, <2>2 DEF CleanInv
  <1>5. CASE UT!ConfigFails
    <2>1. /\ UNCHANGED <<button, axis, script, cmd, msg, readable, before>>
          /\ run # "none" /\ run' # "none"
          /\ faults' = faults \/ faults' = faults + 1
      BY <1>5 DEF UT!ConfigFails, UT!gui, UT!run, UT!slaves, UT!history, UT!Fault,
         UT!NoFault
    <2>2. Clean /\ faults' = faults =>
            /\ run' \in {"eeprom", "program", "boot"} => al'[cmd.slave] = "INIT"
            /\ run' \in {"program", "boot"} => mbx' = UT!Boot
            /\ run' = "boot" => sm'[cmd.slave] = UT!Boot
            /\ run' \in {"leave", "exit"} => iResult'
            /\ button = "parameter" /\ (Ran >= 2 \/ (Ran = 1 /\ run' = "exit")) =>
                 par'[1] = axis
      BY <1>5, CmdIs, SlaveIs DEF UT!ConfigFails, UT!gui, UT!run, UT!slaves,
         UT!history, UT!Fault, UT!NoFault, CleanInv, CountInv, SlaveInv
    <2> QED BY <2>1, <2>2, CleanKept
  <1>6. CASE UT!Config
    <2>1. /\ UNCHANGED <<button, axis, script, cmd, msg, readable, before, par>>
          /\ run = "config" /\ run' = UT!Dispatch(cmd.fn)
          /\ UT!NoFault \/ UT!Fault
      BY <1>6 DEF UT!Config, UT!gui
    <2>2. cmd \in Cmds
      BY <2>1 DEF StageInv
    <2>3. run' \in {"init", "safeop", "preop"}
      BY <2>1, <2>2 DEF UT!Dispatch, Cmds
    <2>4. faults' = faults \/ faults' = faults + 1
      BY <2>1 DEF UT!NoFault, UT!Fault
    <2>5. Clean /\ faults' = faults =>
            /\ run' \in {"eeprom", "program", "boot"} => al'[cmd.slave] = "INIT"
            /\ run' \in {"program", "boot"} => mbx' = UT!Boot
            /\ run' = "boot" => sm'[cmd.slave] = UT!Boot
            /\ run' \in {"leave", "exit"} => iResult'
            /\ button = "parameter" /\ (Ran >= 2 \/ (Ran = 1 /\ run' = "exit")) =>
                 par'[1] = axis
      BY <2>1, <2>3 DEF CleanInv
    <2> QED BY <2>1, <2>3, <2>4, <2>5, CleanKept
  <1>7. CASE UT!RequestPreop
    <2>1. /\ UNCHANGED <<button, axis, script, cmd, msg, readable, before>>
          /\ run # "none" /\ run' # "none"
          /\ faults' = faults \/ faults' = faults + 1
      BY <1>7 DEF UT!RequestPreop, UT!gui, UT!run, UT!slaves, UT!history, UT!Fault,
         UT!NoFault
    <2>2. Clean /\ faults' = faults =>
            /\ run' \in {"eeprom", "program", "boot"} => al'[cmd.slave] = "INIT"
            /\ run' \in {"program", "boot"} => mbx' = UT!Boot
            /\ run' = "boot" => sm'[cmd.slave] = UT!Boot
            /\ run' \in {"leave", "exit"} => iResult'
            /\ button = "parameter" /\ (Ran >= 2 \/ (Ran = 1 /\ run' = "exit")) =>
                 par'[1] = axis
      BY <1>7, CmdIs, SlaveIs DEF UT!RequestPreop, UT!gui, UT!run, UT!slaves,
         UT!history, UT!Fault, UT!NoFault, CleanInv, CountInv, SlaveInv
    <2> QED BY <2>1, <2>2, CleanKept
  <1>8. CASE UT!Read
    <2>1. /\ UNCHANGED <<button, axis, script, cmd, msg, readable, before>>
          /\ run # "none" /\ run' # "none"
          /\ faults' = faults \/ faults' = faults + 1
      BY <1>8 DEF UT!Read, UT!gui, UT!run, UT!slaves, UT!history, UT!Fault, UT!NoFault,
         UT!Finish
    <2>2. Clean /\ faults' = faults =>
            /\ run' \in {"eeprom", "program", "boot"} => al'[cmd.slave] = "INIT"
            /\ run' \in {"program", "boot"} => mbx' = UT!Boot
            /\ run' = "boot" => sm'[cmd.slave] = UT!Boot
            /\ run' \in {"leave", "exit"} => iResult'
            /\ button = "parameter" /\ (Ran >= 2 \/ (Ran = 1 /\ run' = "exit")) =>
                 par'[1] = axis
      BY <1>8, CmdIs, SlaveIs DEF UT!Read, UT!gui, UT!run, UT!slaves, UT!history,
         UT!Fault, UT!NoFault, UT!Finish, CleanInv, CountInv, SlaveInv
    <2> QED BY <2>1, <2>2, CleanKept
  <1>9. CASE UT!Write
    <2>1. /\ UNCHANGED <<button, axis, script, cmd, msg, readable, before>>
          /\ run # "none" /\ run' # "none"
          /\ faults' = faults \/ faults' = faults + 1
      BY <1>9 DEF UT!Write, UT!gui, UT!run, UT!slaves, UT!history, UT!Fault,
         UT!NoFault, UT!Finish
    <2>2. Clean /\ faults' = faults =>
            /\ run' \in {"eeprom", "program", "boot"} => al'[cmd.slave] = "INIT"
            /\ run' \in {"program", "boot"} => mbx' = UT!Boot
            /\ run' = "boot" => sm'[cmd.slave] = UT!Boot
            /\ run' \in {"leave", "exit"} => iResult'
            /\ button = "parameter" /\ (Ran >= 2 \/ (Ran = 1 /\ run' = "exit")) =>
                 par'[1] = axis
      BY <1>9, CmdIs, SlaveIs DEF UT!Write, UT!gui, UT!run, UT!slaves, UT!history,
         UT!Fault, UT!NoFault, UT!Finish, CleanInv, CountInv, SlaveInv
    <2> QED BY <2>1, <2>2, CleanKept
  <1>10. CASE UT!Reset
    <2>1. /\ UNCHANGED <<button, axis, script, cmd, msg, readable, before>>
          /\ run # "none" /\ run' # "none"
          /\ faults' = faults \/ faults' = faults + 1
      BY <1>10 DEF UT!Reset, UT!gui, UT!run, UT!slaves, UT!history, UT!Fault,
         UT!NoFault, UT!Finish
    <2>2. Clean /\ faults' = faults =>
            /\ run' \in {"eeprom", "program", "boot"} => al'[cmd.slave] = "INIT"
            /\ run' \in {"program", "boot"} => mbx' = UT!Boot
            /\ run' = "boot" => sm'[cmd.slave] = UT!Boot
            /\ run' \in {"leave", "exit"} => iResult'
            /\ button = "parameter" /\ (Ran >= 2 \/ (Ran = 1 /\ run' = "exit")) =>
                 par'[1] = axis
      BY <1>10, CmdIs, SlaveIs DEF UT!Reset, UT!gui, UT!run, UT!slaves, UT!history,
         UT!Fault, UT!NoFault, UT!Finish, CleanInv, CountInv, SlaveInv
    <2> QED BY <2>1, <2>2, CleanKept
  <1>11. CASE UT!Parameters
    <2>1. /\ UNCHANGED <<button, axis, script, cmd, msg, readable, before>>
          /\ run # "none" /\ run' # "none"
          /\ faults' = faults \/ faults' = faults + 1
      BY <1>11 DEF UT!Parameters, UT!gui, UT!run, UT!slaves, UT!history, UT!Fault,
         UT!NoFault, UT!Finish
    <2>2. Clean /\ faults' = faults =>
            /\ run' \in {"eeprom", "program", "boot"} => al'[cmd.slave] = "INIT"
            /\ run' \in {"program", "boot"} => mbx' = UT!Boot
            /\ run' = "boot" => sm'[cmd.slave] = UT!Boot
            /\ run' \in {"leave", "exit"} => iResult'
            /\ button = "parameter" /\ (Ran >= 2 \/ (Ran = 1 /\ run' = "exit")) =>
                 par'[1] = axis
      BY <1>11, CmdIs, SlaveIs DEF UT!Parameters, UT!gui, UT!run, UT!slaves,
         UT!history, UT!Fault, UT!NoFault, UT!Finish, CleanInv, CountInv, SlaveInv
    <2> QED BY <2>1, <2>2, CleanKept
  <1>12. CASE UT!RequestSafeop
    <2>1. /\ UNCHANGED <<button, axis, script, cmd, msg, readable, before>>
          /\ run # "none" /\ run' # "none"
          /\ faults' = faults \/ faults' = faults + 1
      BY <1>12 DEF UT!RequestSafeop, UT!gui, UT!run, UT!slaves, UT!history, UT!Fault,
         UT!NoFault
    <2>2. Clean /\ faults' = faults =>
            /\ run' \in {"eeprom", "program", "boot"} => al'[cmd.slave] = "INIT"
            /\ run' \in {"program", "boot"} => mbx' = UT!Boot
            /\ run' = "boot" => sm'[cmd.slave] = UT!Boot
            /\ run' \in {"leave", "exit"} => iResult'
            /\ button = "parameter" /\ (Ran >= 2 \/ (Ran = 1 /\ run' = "exit")) =>
                 par'[1] = axis
      BY <1>12, CmdIs, SlaveIs DEF UT!RequestSafeop, UT!gui, UT!run, UT!slaves,
         UT!history, UT!Fault, UT!NoFault, CleanInv, CountInv, SlaveInv
    <2> QED BY <2>1, <2>2, CleanKept
  <1>13. CASE UT!WriteSafeOp
    <2>1. /\ UNCHANGED <<button, axis, script, cmd, msg, readable, before>>
          /\ run # "none" /\ run' # "none"
          /\ faults' = faults \/ faults' = faults + 1
      BY <1>13 DEF UT!WriteSafeOp, UT!gui, UT!run, UT!slaves, UT!history, UT!Fault,
         UT!NoFault, UT!Finish
    <2>2. Clean /\ faults' = faults =>
            /\ run' \in {"eeprom", "program", "boot"} => al'[cmd.slave] = "INIT"
            /\ run' \in {"program", "boot"} => mbx' = UT!Boot
            /\ run' = "boot" => sm'[cmd.slave] = UT!Boot
            /\ run' \in {"leave", "exit"} => iResult'
            /\ button = "parameter" /\ (Ran >= 2 \/ (Ran = 1 /\ run' = "exit")) =>
                 par'[1] = axis
      <3>1. run = "write" /\ run' = "exit" /\ iResult' = TRUE
        BY <1>13 DEF UT!WriteSafeOp, UT!Finish
      <3>2. button # "parameter"
        BY <3>1, CmdIs DEF StageInv
      <3> QED BY <3>1, <3>2
    <2> QED BY <2>1, <2>2, CleanKept
  <1>14. CASE UT!RequestInit
    <2>1. /\ UNCHANGED <<button, axis, script, cmd, msg, readable, before>>
          /\ run # "none" /\ run' # "none"
          /\ faults' = faults \/ faults' = faults + 1
      BY <1>14 DEF UT!RequestInit, UT!gui, UT!run, UT!slaves, UT!history, UT!Fault,
         UT!NoFault
    <2>2. Clean /\ faults' = faults =>
            /\ run' \in {"eeprom", "program", "boot"} => al'[cmd.slave] = "INIT"
            /\ run' \in {"program", "boot"} => mbx' = UT!Boot
            /\ run' = "boot" => sm'[cmd.slave] = UT!Boot
            /\ run' \in {"leave", "exit"} => iResult'
            /\ button = "parameter" /\ (Ran >= 2 \/ (Ran = 1 /\ run' = "exit")) =>
                 par'[1] = axis
      BY <1>14, CmdIs, SlaveIs DEF UT!RequestInit, UT!gui, UT!run, UT!slaves,
         UT!history, UT!Fault, UT!NoFault, CleanInv, CountInv, SlaveInv
    <2> QED BY <2>1, <2>2, CleanKept
  <1>15. CASE UT!ReadBootMailbox
    <2>1. /\ UNCHANGED <<button, axis, script, cmd, msg, readable, before>>
          /\ run # "none" /\ run' # "none"
          /\ faults' = faults \/ faults' = faults + 1
      BY <1>15 DEF UT!ReadBootMailbox, UT!gui, UT!run, UT!slaves, UT!history, UT!Fault,
         UT!NoFault
    <2>2. Clean /\ faults' = faults =>
            /\ run' \in {"eeprom", "program", "boot"} => al'[cmd.slave] = "INIT"
            /\ run' \in {"program", "boot"} => mbx' = UT!Boot
            /\ run' = "boot" => sm'[cmd.slave] = UT!Boot
            /\ run' \in {"leave", "exit"} => iResult'
            /\ button = "parameter" /\ (Ran >= 2 \/ (Ran = 1 /\ run' = "exit")) =>
                 par'[1] = axis
      BY <1>15, CmdIs, SlaveIs DEF UT!ReadBootMailbox, UT!gui, UT!run, UT!slaves,
         UT!history, UT!Fault, UT!NoFault, CleanInv, CountInv, SlaveInv
    <2> QED BY <2>1, <2>2, CleanKept
  <1>16. CASE UT!ProgramMailbox
    <2>1. /\ UNCHANGED <<button, axis, script, cmd, msg, readable, before>>
          /\ run # "none" /\ run' # "none"
          /\ faults' = faults \/ faults' = faults + 1
      BY <1>16 DEF UT!ProgramMailbox, UT!gui, UT!run, UT!slaves, UT!history, UT!Fault,
         UT!NoFault
    <2>2. Clean /\ faults' = faults =>
            /\ run' \in {"eeprom", "program", "boot"} => al'[cmd.slave] = "INIT"
            /\ run' \in {"program", "boot"} => mbx' = UT!Boot
            /\ run' = "boot" => sm'[cmd.slave] = UT!Boot
            /\ run' \in {"leave", "exit"} => iResult'
            /\ button = "parameter" /\ (Ran >= 2 \/ (Ran = 1 /\ run' = "exit")) =>
                 par'[1] = axis
      BY <1>16, CmdIs, SlaveIs DEF UT!ProgramMailbox, UT!gui, UT!run, UT!slaves,
         UT!history, UT!Fault, UT!NoFault, CleanInv, CountInv, SlaveInv
    <2> QED BY <2>1, <2>2, CleanKept
  <1>17. CASE UT!RequestBoot
    <2>1. /\ UNCHANGED <<button, axis, script, cmd, msg, readable, before>>
          /\ run # "none" /\ run' # "none"
          /\ faults' = faults \/ faults' = faults + 1
      BY <1>17 DEF UT!RequestBoot, UT!gui, UT!run, UT!slaves, UT!history, UT!Fault,
         UT!NoFault
    <2>2. Clean /\ faults' = faults =>
            /\ run' \in {"eeprom", "program", "boot"} => al'[cmd.slave] = "INIT"
            /\ run' \in {"program", "boot"} => mbx' = UT!Boot
            /\ run' = "boot" => sm'[cmd.slave] = UT!Boot
            /\ run' \in {"leave", "exit"} => iResult'
            /\ button = "parameter" /\ (Ran >= 2 \/ (Ran = 1 /\ run' = "exit")) =>
                 par'[1] = axis
      <3>1. /\ run = "boot" /\ cmd.slave \in Axes /\ run' \in {"download", "exit"}
            /\ run' = "exit" => ~UT!EntersBoot(cmd.slave) \/ UT!Fault
        BY <1>17, SlaveIs DEF UT!RequestBoot
      <3>2. button # "parameter"
        BY <3>1, CmdIs DEF StageInv
      <3>3. UT!Fault => faults' # faults
        BY DEF UT!Fault, CountInv
      <3>4. Clean => UT!EntersBoot(cmd.slave)
        BY <3>1 DEF CleanInv, UT!EntersBoot
      <3> QED BY <3>1, <3>2, <3>3, <3>4
    <2> QED BY <2>1, <2>2, CleanKept
  <1>18. CASE UT!NoFile
    <2>1. /\ UNCHANGED <<button, axis, script, cmd, msg, readable, before>>
          /\ run # "none" /\ run' # "none"
          /\ faults' = faults \/ faults' = faults + 1
      BY <1>18 DEF UT!NoFile, UT!gui, UT!run, UT!slaves, UT!history, UT!Fault,
         UT!NoFault
    <2>2. Clean /\ faults' = faults =>
            /\ run' \in {"eeprom", "program", "boot"} => al'[cmd.slave] = "INIT"
            /\ run' \in {"program", "boot"} => mbx' = UT!Boot
            /\ run' = "boot" => sm'[cmd.slave] = UT!Boot
            /\ run' \in {"leave", "exit"} => iResult'
            /\ button = "parameter" /\ (Ran >= 2 \/ (Ran = 1 /\ run' = "exit")) =>
                 par'[1] = axis
      <3>1. run = "download" /\ run' = "exit" /\ cmd.file \notin readable
        BY <1>18 DEF UT!NoFile
      <3>2. button = "firmware" /\ Ran \in {1, 3, 5} /\ cmd.file = Files(Ran)
        BY <3>1, CmdIs DEF StageInv
      <3>3. cmd.file \in Axes
        BY <3>2, FilesAre DEF Axes, UT!Axes, UT!AXIS_DRIVING, UT!AXIS_HOIST,
           UT!AXIS_SLIDE
      <3>4. ~Clean
        BY <3>1, <3>2, <3>3 DEF Clean
      <3> QED BY <3>4
    <2> QED BY <2>1, <2>2, CleanKept
  <1>19. CASE UT!FOEwrite
    <2>1. /\ UNCHANGED <<button, axis, script, cmd, msg, readable, before>>
          /\ run # "none" /\ run' # "none"
          /\ faults' = faults \/ faults' = faults + 1
      BY <1>19 DEF UT!FOEwrite, UT!gui, UT!run, UT!slaves, UT!history, UT!Fault,
         UT!NoFault
    <2>2. Clean /\ faults' = faults =>
            /\ run' \in {"eeprom", "program", "boot"} => al'[cmd.slave] = "INIT"
            /\ run' \in {"program", "boot"} => mbx' = UT!Boot
            /\ run' = "boot" => sm'[cmd.slave] = UT!Boot
            /\ run' \in {"leave", "exit"} => iResult'
            /\ button = "parameter" /\ (Ran >= 2 \/ (Ran = 1 /\ run' = "exit")) =>
                 par'[1] = axis
      BY <1>19, CmdIs, SlaveIs DEF UT!FOEwrite, UT!gui, UT!run, UT!slaves, UT!history,
         UT!Fault, UT!NoFault, CleanInv, CountInv, SlaveInv
    <2> QED BY <2>1, <2>2, CleanKept
  <1>20. CASE UT!LeaveBoot
    <2>1. /\ UNCHANGED <<button, axis, script, cmd, msg, readable, before>>
          /\ run # "none" /\ run' # "none"
          /\ faults' = faults \/ faults' = faults + 1
      BY <1>20 DEF UT!LeaveBoot, UT!gui, UT!run, UT!slaves, UT!history, UT!Fault,
         UT!NoFault
    <2>2. Clean /\ faults' = faults =>
            /\ run' \in {"eeprom", "program", "boot"} => al'[cmd.slave] = "INIT"
            /\ run' \in {"program", "boot"} => mbx' = UT!Boot
            /\ run' = "boot" => sm'[cmd.slave] = UT!Boot
            /\ run' \in {"leave", "exit"} => iResult'
            /\ button = "parameter" /\ (Ran >= 2 \/ (Ran = 1 /\ run' = "exit")) =>
                 par'[1] = axis
      <3>1. run = "leave" /\ run' = "exit" /\ iResult' = iResult
        BY <1>20 DEF UT!LeaveBoot
      <3>2. button # "parameter"
        BY <3>1, CmdIs DEF StageInv
      <3> QED BY <3>1, <3>2 DEF CleanInv
    <2> QED BY <2>1, <2>2, CleanKept
  <1>21. CASE UNCHANGED toolVars
    <2>1. Ran' = Ran /\ Clean' = Clean
      BY <1>21, SameScript DEF toolVars, Clean
    <2> QED BY <1>21, <2>1 DEF toolVars, CleanInv
  <1> QED BY <1>1, <1>2, <1>3, <1>4, <1>5, <1>6, <1>7, <1>8, <1>9, <1>10, <1>11, <1>12,
         <1>13, <1>14, <1>15, <1>16, <1>17, <1>18, <1>19, <1>20, <1>21
          DEF UT!Next, UT!Gui, UT!Work, UT!Boottest, Buttons, Axes

\* A step within a run that writes no word.
LEMMA ClearKept ==
  ASSUME StageInv, ScriptInv, CountInv, ClearInv,
         UNCHANGED <<button, axis, script, cmd, iGetValue, word, clicked>>,
         run \notin {"none", "exit"}, run' # "none", faults' = faults \/ faults' = faults + 1,
         faults' = 0 /\ faults = 0 =>
            /\ run' = "safeop" => \A s \in Axes : al'[s] = "PREOP"
            /\ run' = "write" => al'[cmd.slave] # "INIT"
            /\ button = "clear" /\ run' = "exit" => Ran = 1 /\ output' = <<word[axis]>>
  PROVE  ClearInv'
  <1>1. Ran' = Ran
    BY SameScript
  <1>2. CASE faults' # 0
    BY <1>2 DEF ClearInv
  <1>3. CASE faults' = 0 /\ button # "clear"
    <2>1. faults = 0
      BY <1>3 DEF CountInv
    <2> QED BY <1>3, <2>1 DEF ClearInv
  <1>4. CASE faults' = 0 /\ button = "clear"
    <2>1. faults = 0
      BY <1>4 DEF CountInv
    <2>2. Ran \in 1 .. 3
      BY <1>4, RanIs, CmdIs DEF ScriptInv
    <2>3. /\ Ran > 1 => iGetValue.low = "own"
          /\ ~Done(2) => clicked = <<>>
          /\ Ran = 2 => ~iGetValue.bit7
          /\ Done(2) /\ ~Done(3) => Len(clicked) = 1
          /\ Done(2) => clicked[1].low = "own" /\ ~clicked[1].bit7
          /\ Ran = 3 => iGetValue.bit7
      BY <1>4, <2>1 DEF ClearInv
    <2>4. run' = "exit" => Ran = 1 /\ output' = <<word[axis]>>
      BY <1>4, <2>1
    <2>5. (Done(2) <=> Ran = 3) /\ ~Done(3)
      BY <2>2 DEF Done
    <2>6. (Done(2)' <=> Ran = 3) /\ ~Done(3)'
      <3>1. Done(2)' <=> Ran > 2 \/ (Ran = 2 /\ run' \in {"none", "exit"})
        BY <1>1 DEF Done
      <3>2. Done(3)' <=> Ran > 3 \/ (Ran = 3 /\ run' \in {"none", "exit"})
        BY <1>1 DEF Done
      <3> QED BY <2>2, <2>4, <3>1, <3>2
    <2>7. /\ \A s \in Axes : word'[s].low = "own"
          /\ run' = "safeop" => \A s \in Axes : al'[s] = "PREOP"
          /\ run' = "write" => al'[cmd'.slave] # "INIT"
      BY <1>4, <2>1 DEF ClearInv
    <2>8. /\ Ran' = 1 /\ run' = "exit" => output' = <<word'[axis']>>
          /\ Ran' > 1 \/ (Ran' = 1 /\ run' = "none") => iGetValue'.low = "own"
          /\ Ran' = 2 => ~iGetValue'.bit7 \/ run' = "none"
          /\ Ran' = 3 => iGetValue'.bit7
      BY <1>1, <2>3, <2>4
    <2>9. /\ ~Done(2)' => clicked' = <<>>
          /\ Done(2)' /\ ~Done(3)' => Len(clicked') = 1
          /\ Done(2)' => clicked'[1].low = "own" /\ ~clicked'[1].bit7
      BY <2>3, <2>5, <2>6
    <2> QED BY <2>6, <2>7, <2>8, <2>9 DEF ClearInv
  <1> QED BY <1>2, <1>3, <1>4

LEMMA ClearCmd ==
  ASSUME StageInv, ScriptInv, run # "none", button = "clear"
  PROVE  /\ Ran \in 1 .. 3 /\ cmd.slave = axis /\ axis \in Axes
         /\ Ran = 1 => cmd.fn = "g" /\ cmd.op = "get"
         /\ Ran # 1 => cmd.fn = "e"
  <1>1. Ran \in 1 .. 3
    BY RanIs, CmdIs
  <1>2. Ran = 1 \/ Ran = 2 \/ Ran = 3
    BY <1>1
  <1> QED BY <1>1, <1>2, CmdIs DEF StageInv


LEMMA ClearOp ==
  StageInv /\ ScriptInv /\ run # "none" /\ button = "clear" =>
    (Ran = 2 => cmd.op = "and") /\ (Ran = 3 => cmd.op = "or")
  <1>1. ASSUME StageInv, ScriptInv, run # "none", button = "clear"
        PROVE  (Ran = 2 => cmd.op = "and") /\ (Ran = 3 => cmd.op = "or")
    BY <1>1, CmdIs
  <1> QED BY <1>1
LEMMA ClearOpNext ==
  (StageInv /\ ScriptInv /\ run # "none" /\ button = "clear" =>
    (Ran = 2 => cmd.op = "and") /\ (Ran = 3 => cmd.op = "or"))'
  BY ClearOp, PTL

\* The words that are written follow from the word that was read.
LEMMA ClearStep ==
  ASSUME StageInv, ScriptInv, SlaveInv, WordInv, CountInv, ClearInv,
         StageInv', ScriptInv', UT!Next \/ UNCHANGED toolVars
  PROVE  ClearInv'
  <1>1. CASE \E b \in Buttons, a \in Axes : UT!Click(b, a)
    <2>1. /\ run' = "none" /\ run = "none" /\ clicked' = <<>> /\ UNCHANGED <<word, faults>>
          /\ \E b \in Buttons, a \in Axes : script' = UT!Scripts(b, a) /\ button' = b /\ axis' = a
      BY <1>1 DEF UT!Click, UT!run, UT!slaves, ScriptInv
    <2>2. button' = "clear" => Ran' = 0
      <3>1. Whole' = script'
        BY <2>1 DEF Whole, UT!Scripts
      <3>2. button' = "clear" => \E a \in Axes : Whole' = UT!ErrorClear(a)
        BY <2>1, <3>1 DEF UT!Scripts
      <3>3. button' = "clear" => Ran' = 3 - 3
        BY <3>1, <3>2, ClearIs DEF Ran
      <3>4. 3 - 3 = 0
        OBVIOUS
      <3> QED BY <3>3, <3>4
    <2>3. button' = "clear" => ~Done(2)' /\ ~Done(3)'
      BY <2>2 DEF Done
    <2>4. /\ faults' = 0 => \A s \in Axes : word'[s].low = "own"
          /\ run' \notin {"safeop", "write", "exit"}
      BY <2>1 DEF ClearInv
    <2>5. button' = "clear" => ~(Ran' > 1) /\ Ran' # 1 /\ Ran' # 2 /\ Ran' # 3
      BY <2>2
    <2> QED BY <2>1, <2>3, <2>4, <2>5 DEF ClearInv
  <1>2. CASE UT!Run
    <2>1. /\ UNCHANGED <<button, axis, word, clicked, faults>>
          /\ run = "none" /\ run' = "config" /\ iGetValue' = UT!Masked(cmd'.op)
      BY <1>2 DEF UT!Run, UT!slaves, UT!history
    <2>2. CASE faults # 0 \/ button # "clear"
      BY <2>1, <2>2 DEF ClearInv
    <2>3. CASE faults = 0 /\ button = "clear"
      <3>1. Ran' = Ran + 1 /\ Ran \in 0 .. 2
        <4>1. Ran' = Ran + 1 /\ Ran \in 0 .. Len(Whole) - 1 /\ Len(Whole) = 3
          BY <1>2, <2>3, RunIsNext, RanIs
        <4> QED BY <4>1
      <3>2. /\ Ran >= 1 => iGetValue.low = "own"
            /\ ~Done(2) => clicked = <<>>
            /\ Done(2) /\ ~Done(3) => Len(clicked) = 1
            /\ Done(2) => clicked[1].low = "own" /\ ~clicked[1].bit7
            /\ \A s \in Axes : word[s].low = "own"
        <4>1. Ran >= 1 => Ran > 1 \/ (Ran = 1 /\ run = "none")
          BY <2>1, <3>1
        <4> QED BY <2>3, <4>1 DEF ClearInv
      <3>3. (Done(2) <=> Ran = 2) /\ ~Done(3) /\ (Done(2)' <=> Ran = 2) /\ ~Done(3)'
        <4>1. (Done(2) <=> Ran = 2) /\ ~Done(3)
          BY <2>1, <3>1 DEF Done
        <4>2. Done(2)' <=> Ran' > 2 \/ (Ran' = 2 /\ run' \in {"none", "exit"})
          BY DEF Done
        <4>3. Done(3)' <=> Ran' > 3 \/ (Ran' = 3 /\ run' \in {"none", "exit"})
          BY DEF Done
        <4>4. (Ran' > 2 <=> Ran = 2) /\ ~(Ran' > 3)
          BY <3>1
        <4> QED BY <2>1, <4>1, <4>2, <4>3, <4>4
      <3>4. /\ Ran' = 2 => cmd'.op = "and"
            /\ Ran' = 3 => cmd'.op = "or"
        BY <2>1, <2>3, ClearOpNext
      <3>5. iGetValue \in UT!Word
        BY DEF WordInv
      <3>6. CASE Ran = 0
        <4>1. Ran' = 1 /\ run' = "config" /\ ~Done(2)' /\ ~Done(2) /\ ~Done(3)'
          BY <2>1, <3>1, <3>3, <3>6
        <4> QED BY <2>1, <2>3, <3>2, <4>1 DEF ClearInv
      <3>7. CASE Ran = 1
        <4>1. Ran' = 2 /\ ~Done(2)' /\ ~Done(2) /\ ~Done(3)' /\ Ran >= 1
          BY <3>1, <3>3, <3>7
        <4>2. iGetValue' = [iGetValue EXCEPT !.bit7 = FALSE, !.high = "zero"]
          BY <2>1, <3>4, <4>1 DEF UT!Masked
        <4>3. iGetValue'.low = "own" /\ ~iGetValue'.bit7
          BY <3>2, <3>5, <4>1, <4>2 DEF UT!Word
        <4> QED BY <2>1, <2>3, <3>2, <4>1, <4>3 DEF ClearInv
      <3>8. CASE Ran = 2
        <4>1. Ran' = 3 /\ Done(2)' /\ Done(2) /\ ~Done(3)' /\ ~Done(3) /\ Ran >= 1
          BY <3>1, <3>3, <3>8
        <4>2. iGetValue' = [iGetValue EXCEPT !.bit7 = TRUE]
          BY <2>1, <3>4, <4>1 DEF UT!Masked
        <4>3. iGetValue'.low = "own" /\ iGetValue'.bit7
          BY <3>2, <3>5, <4>1, <4>2 DEF UT!Word
        <4> QED BY <2>1, <2>3, <3>2, <4>1, <4>3 DEF ClearInv
      <3> QED BY <3>1, <3>6, <3>7, <3>8
    <2> QED BY <2>2, <2>3
  <1>3. CASE UT!Exited
    <2>1. /\ UNCHANGED <<button, axis, cmd, word, clicked, faults>>
          /\ run = "exit" /\ run' = "none" /\ script' = UT!Rest
          /\ iGetValue' = IF cmd.op = "get" /\ output # <<>> THEN output[1] ELSE iGetValue
      BY <1>3 DEF UT!Exited, UT!slaves, UT!history
    <2>2. CASE faults # 0 \/ button # "clear"
      BY <2>1, <2>2 DEF ClearInv
    <2>3. CASE faults = 0 /\ button = "clear"
      <3>1. /\ Ran \in 1 .. 3 /\ cmd.fn \in {"g", "e"} /\ axis \in Axes
            /\ Ran = 1 => cmd.op = "get"
        BY <2>1, <2>3, ClearCmd
      <3>2. Ran' = Ran
        BY <2>1, <3>1, SameScript DEF UT!Rest
      <3>3. Ran # 1 => cmd.op # "get"
        <4>1. Ran # 1 => Ran = 2 \/ Ran = 3
          BY <3>1
        <4> QED BY <2>1, <2>3, <4>1, CmdIs
      <3>4. Done(2)' = Done(2) /\ Done(3)' = Done(3)
        BY <2>1, <3>2 DEF Done
      <3>5. CASE Ran = 1
        <4>1. output = <<word[axis]>>
          BY <2>1, <2>3, <3>5 DEF ClearInv
        <4>2. iGetValue' = word[axis]
          BY <2>1, <3>1, <3>5, <4>1
        <4>3. iGetValue'.low = "own"
          BY <2>3, <3>1, <4>2 DEF ClearInv
        <4>4. ~Done(2)' /\ ~Done(3)' /\ Ran' = 1
          BY <2>1, <3>2, <3>4, <3>5 DEF Done
        <4> QED BY <2>1, <2>3, <3>4, <4>3, <4>4 DEF ClearInv
      <3>6. CASE Ran # 1
        <4>1. iGetValue' = iGetValue /\ Ran > 1
          BY <2>1, <3>1, <3>3, <3>6
        <4> QED BY <2>1, <2>3, <3>2, <3>4, <4>1 DEF ClearInv
      <3> QED BY <3>5, <3>6
    <2> QED BY <2>2, <2>3
  <1>4. CASE UT!HandlerReturns
    BY <1>4 DEF UT!HandlerReturns, UT!gui, UT!run, UT!slaves, UT!history, UT!Fault,
       UT!NoFault, ClearInv
  <1>5. CASE UT!ConfigFails
    <2>1. /\ UNCHANGED <<button, axis, script, cmd, iGetValue, word, clicked>>
          /\ run \notin {"none", "exit"} /\ run' # "none"
          /\ faults' = faults \/ faults' = faults + 1
      BY <1>5 DEF UT!ConfigFails, UT!gui, UT!run, UT!slaves, UT!history, UT!Fault,
         UT!NoFault
    <2>2. faults' = 0 /\ faults = 0 =>
            /\ run' = "safeop" => \A s \in Axes : al'[s] = "PREOP"
            /\ run' = "write" => al'[cmd.slave] # "INIT"
            /\ button = "clear" /\ run' = "exit" => Ran = 1 /\ output' = <<word[axis]>>
      BY <1>5, CmdIs, SlaveIs, RanIs DEF UT!ConfigFails, UT!gui, UT!run, UT!slaves,
         UT!history, UT!Fault, UT!NoFault, ClearInv, CountInv, SlaveInv, StageInv
    <2> QED BY <2>1, <2>2, ClearKept
  <1>6. CASE UT!Config
    <2>1. /\ UNCHANGED <<button, axis, script, cmd, iGetValue, word, clicked>>
          /\ run = "config" /\ run' = UT!Dispatch(cmd.fn)
          /\ \/ al' = [s \in Axes |-> "PREOP"]
             \/ UT!Fault
          /\ UT!NoFault \/ UT!Fault
      BY <1>6 DEF UT!Config, UT!gui, Axes
    <2>2. cmd \in Cmds
      BY <2>1 DEF StageInv
    <2>3. run' \in {"init", "safeop", "preop"}
      BY <2>1, <2>2 DEF UT!Dispatch, Cmds
    <2>4. faults' = faults \/ faults' = faults + 1
      BY <2>1 DEF UT!NoFault, UT!Fault
    <2>5. faults' = 0 /\ faults = 0 => al' = [s \in Axes |-> "PREOP"]
      BY <2>1 DEF UT!Fault
    <2>6. faults' = 0 /\ faults = 0 =>
            /\ run' = "safeop" => \A s \in Axes : al'[s] = "PREOP"
            /\ run' = "write" => al'[cmd.slave] # "INIT"
            /\ button = "clear" /\ run' = "exit" => Ran = 1 /\ output' = <<word[axis]>>
      BY <2>3, <2>5
    <2> QED BY <2>1, <2>3, <2>4, <2>6, ClearKept
  <1>7. CASE UT!RequestPreop
    <2>1. /\ UNCHANGED <<button, axis, script, cmd, iGetValue, word, clicked>>
          /\ run \notin {"none", "exit"} /\ run' # "none"
          /\ faults' = faults \/ faults' = faults + 1
      BY <1>7 DEF UT!RequestPreop, UT!gui, UT!run, UT!slaves, UT!history, UT!Fault,
         UT!NoFault
    <2>2. faults' = 0 /\ faults = 0 =>
            /\ run' = "safeop" => \A s \in Axes : al'[s] = "PREOP"
            /\ run' = "write" => al'[cmd.slave] # "INIT"
            /\ button = "clear" /\ run' = "exit" => Ran = 1 /\ output' = <<word[axis]>>
      BY <1>7, CmdIs, SlaveIs, RanIs DEF UT!RequestPreop, UT!gui, UT!run, UT!slaves,
         UT!history, UT!Fault, UT!NoFault, ClearInv, CountInv, SlaveInv, StageInv
    <2> QED BY <2>1, <2>2, ClearKept
  <1>8. CASE UT!Read
    <2>1. /\ UNCHANGED <<button, axis, script, cmd, iGetValue, word, clicked>>
          /\ run \notin {"none", "exit"} /\ run' # "none"
          /\ faults' = faults \/ faults' = faults + 1
      BY <1>8 DEF UT!Read, UT!gui, UT!run, UT!slaves, UT!history, UT!Fault, UT!NoFault,
         UT!Finish
    <2>2. faults' = 0 /\ faults = 0 =>
            /\ run' = "safeop" => \A s \in Axes : al'[s] = "PREOP"
            /\ run' = "write" => al'[cmd.slave] # "INIT"
            /\ button = "clear" /\ run' = "exit" => Ran = 1 /\ output' = <<word[axis]>>
      <3>1. /\ run = "work" /\ run' = "exit" /\ cmd.fn # "e"
            /\ output' = <<word[cmd.slave]>> \/ UT!Fault
        BY <1>8 DEF UT!Read, UT!Finish
      <3>2. faults' = 0 /\ faults = 0 => output' = <<word[cmd.slave]>>
        BY <3>1 DEF UT!Fault
      <3>3. button = "clear" => Ran = 1 /\ cmd.slave = axis
        BY <3>1, ClearCmd
      <3> QED BY <3>1, <3>2, <3>3
    <2> QED BY <2>1, <2>2, ClearKept
  <1>9. CASE UT!Write
    <2>1. /\ UNCHANGED <<button, axis, script, cmd, iGetValue, word, clicked>>
          /\ run \notin {"none", "exit"} /\ run' # "none"
          /\ faults' = faults \/ faults' = faults + 1
      BY <1>9 DEF UT!Write, UT!gui, UT!run, UT!slaves, UT!history, UT!Fault,
         UT!NoFault, UT!Finish
    <2>2. faults' = 0 /\ faults = 0 =>
            /\ run' = "safeop" => \A s \in Axes : al'[s] = "PREOP"
            /\ run' = "write" => al'[cmd.slave] # "INIT"
            /\ button = "clear" /\ run' = "exit" => Ran = 1 /\ output' = <<word[axis]>>
      <3>1. run = "work" /\ run' = "exit" /\ cmd.fn \notin {"g", "e"}
        BY <1>9 DEF UT!Write, UT!Finish
      <3>2. button # "clear"
        BY <3>1, ClearCmd
      <3> QED BY <3>1, <3>2
    <2> QED BY <2>1, <2>2, ClearKept
  <1>10. CASE UT!Reset
    <2>1. /\ UNCHANGED <<button, axis, script, cmd, iGetValue, word, clicked>>
          /\ run \notin {"none", "exit"} /\ run' # "none"
          /\ faults' = faults \/ faults' = faults + 1
      BY <1>10 DEF UT!Reset, UT!gui, UT!run, UT!slaves, UT!history, UT!Fault,
         UT!NoFault, UT!Finish
    <2>2. faults' = 0 /\ faults = 0 =>
            /\ run' = "safeop" => \A s \in Axes : al'[s] = "PREOP"
            /\ run' = "write" => al'[cmd.slave] # "INIT"
            /\ button = "clear" /\ run' = "exit" => Ran = 1 /\ output' = <<word[axis]>>
      <3>1. run = "work" /\ run' = "exit" /\ cmd.fn \notin {"g", "e"}
        BY <1>10 DEF UT!Reset, UT!Finish
      <3>2. button # "clear"
        BY <3>1, ClearCmd
      <3> QED BY <3>1, <3>2
    <2> QED BY <2>1, <2>2, ClearKept
  <1>11. CASE UT!Parameters
    <2>1. /\ UNCHANGED <<button, axis, script, cmd, iGetValue, word, clicked>>
          /\ run \notin {"none", "exit"} /\ run' # "none"
          /\ faults' = faults \/ faults' = faults + 1
      BY <1>11 DEF UT!Parameters, UT!gui, UT!run, UT!slaves, UT!history, UT!Fault,
         UT!NoFault, UT!Finish
    <2>2. faults' = 0 /\ faults = 0 =>
            /\ run' = "safeop" => \A s \in Axes : al'[s] = "PREOP"
            /\ run' = "write" => al'[cmd.slave] # "INIT"
            /\ button = "clear" /\ run' = "exit" => Ran = 1 /\ output' = <<word[axis]>>
      <3>1. run = "work" /\ run' = "exit" /\ cmd.fn \notin {"g", "e"}
        BY <1>11 DEF UT!Parameters, UT!Finish
      <3>2. button # "clear"
        BY <3>1, ClearCmd
      <3> QED BY <3>1, <3>2
    <2> QED BY <2>1, <2>2, ClearKept
  <1>12. CASE UT!RequestSafeop
    <2>1. /\ UNCHANGED <<button, axis, script, cmd, iGetValue, word, clicked>>
          /\ run \notin {"none", "exit"} /\ run' # "none"
          /\ faults' = faults \/ faults' = faults + 1
      BY <1>12 DEF UT!RequestSafeop, UT!gui, UT!run, UT!slaves, UT!history, UT!Fault,
         UT!NoFault
    <2>2. faults' = 0 /\ faults = 0 =>
            /\ run' = "safeop" => \A s \in Axes : al'[s] = "PREOP"
            /\ run' = "write" => al'[cmd.slave] # "INIT"
            /\ button = "clear" /\ run' = "exit" => Ran = 1 /\ output' = <<word[axis]>>
      <3>1. /\ run = "safeop" /\ run' = "write" /\ cmd.slave \in Axes
            /\ \/ al' = [s \in Axes |-> IF al[s] = "PREOP" THEN "SAFEOP" ELSE al[s]]
               \/ UT!Fault
        BY <1>12, SlaveIs DEF UT!RequestSafeop, Axes
      <3>2. ASSUME faults' = 0, faults = 0
            PROVE  al'[cmd.slave] # "INIT"
        <4>1. ~UT!Fault
          BY <3>2 DEF UT!Fault
        <4>2. al[cmd.slave] = "PREOP"
          BY <3>1, <3>2 DEF ClearInv
        <4> QED BY <3>1, <4>1, <4>2
      <3> QED BY <3>1, <3>2
    <2> QED BY <2>1, <2>2, ClearKept
  <1>13. CASE UT!WriteSafeOp
    <2>1. /\ run = "write" /\ run' = "exit" /\ cmd.fn = "e"
          /\ UNCHANGED <<button, axis, script, cmd, iGetValue>>
      BY <1>13 DEF UT!WriteSafeOp, UT!Finish, UT!gui, StageInv
    <2>2. CASE faults' # 0
      BY <2>2 DEF ClearInv
    <2>3. CASE faults' = 0
      <3>1. faults = 0 /\ ~UT!Fault
        BY <1>13, <2>3 DEF UT!WriteSafeOp, UT!Finish, UT!NoFault, UT!Fault, CountInv
      <3>2. al[cmd.slave] # "INIT"
        BY <2>1, <3>1 DEF ClearInv
      <3>3. /\ word' = [word EXCEPT ![cmd.slave] = iGetValue]
            /\ clicked' = Append(clicked, iGetValue)
        BY <1>13, <3>1, <3>2 DEF UT!WriteSafeOp
      <3>4. button = "clear" /\ Ran \in {2, 3}
        BY <2>1, CmdIs
      <3>5. cmd.slave = axis /\ axis \in Axes
        BY <2>1, <3>4, ClearCmd
      <3>6. Ran' = Ran
        BY <2>1, SameScript
      <3>7. iGetValue.low = "own"
        BY <3>1, <3>4 DEF ClearInv
      <3>8. \A s \in Axes : word'[s].low = "own"
        BY <3>1, <3>3, <3>7 DEF ClearInv, WordInv
      <3>9. word'[axis] = iGetValue
        BY <3>3, <3>5 DEF WordInv
      <3>10. CASE Ran = 2
        <4>1. ~Done(2) /\ Done(2)' /\ ~Done(3)'
          BY <2>1, <3>6, <3>10 DEF Done
        <4>2. clicked = <<>> /\ ~iGetValue.bit7
          BY <2>1, <3>1, <3>4, <3>10, <4>1 DEF ClearInv
        <4>3. Len(clicked') = 1 /\ clicked'[1] = iGetValue
          BY <3>3, <4>2
        <4>4. Ran' = 2 /\ ~iGetValue'.bit7 /\ iGetValue'.low = "own"
          BY <2>1, <3>6, <3>7, <3>10, <4>2
        <4>5. clicked'[1].low = "own" /\ ~clicked'[1].bit7
          BY <3>7, <4>2, <4>3
        <4> QED BY <2>1, <3>8, <4>1, <4>3, <4>4, <4>5 DEF ClearInv
      <3>11. CASE Ran = 3
        <4>1. Done(2) /\ ~Done(3) /\ Done(2)' /\ Done(3)'
          BY <2>1, <3>6, <3>11 DEF Done
        <4>2. /\ Len(clicked) = 1 /\ clicked[1].low = "own" /\ ~clicked[1].bit7
              /\ iGetValue.bit7
          BY <2>1, <3>1, <3>4, <3>11, <4>1 DEF ClearInv
        <4>3. clicked \in Seq(UT!Word)
          BY DEF WordInv
        <4>4. Len(clicked') = 2 /\ clicked'[1] = clicked[1] /\ clicked'[2] = iGetValue
          <5>0. iGetValue \in UT!Word
            BY DEF WordInv
          <5>1. Len(clicked) = 1 /\ iGetValue \in UT!Word
            BY <4>2, <5>0
          <5>2. /\ Len(Append(clicked, iGetValue)) = Len(clicked) + 1
                /\ Append(clicked, iGetValue)[Len(clicked) + 1] = iGetValue
            BY <4>3, <5>0
          <5>3. Append(clicked, iGetValue)[1] = clicked[1]
            <6>1. \A j \in 1 .. Len(clicked) : Append(clicked, iGetValue)[j] = clicked[j]
              BY <4>3, <5>0
            <6>2. 1 \in 1 .. Len(clicked)
              BY <5>1
            <6> QED BY <6>1, <6>2
          <5>4. 1 + 1 = 2
            OBVIOUS
          <5> QED BY <3>3, <5>1, <5>2, <5>3, <5>4, Zenon
        <4>5. Ran' = 3 /\ iGetValue'.bit7 /\ iGetValue'.low = "own"
          BY <2>1, <3>6, <3>7, <3>11, <4>2
        <4>6. clicked'[1].low = "own" /\ ~clicked'[1].bit7
          BY <4>2, <4>4
        <4> QED BY <2>1, <3>8, <3>9, <4>1, <4>4, <4>5, <4>6 DEF ClearInv
      <3> QED BY <3>4, <3>10, <3>11
    <2> QED BY <2>2, <2>3
  <1>14. CASE UT!RequestInit
    <2>1. /\ UNCHANGED <<button, axis, script, cmd, iGetValue, word, clicked>>
          /\ run \notin {"none", "exit"} /\ run' # "none"
          /\ faults' = faults \/ faults' = faults + 1
      BY <1>14 DEF UT!RequestInit, UT!gui, UT!run, UT!slaves, UT!history, UT!Fault,
         UT!NoFault
    <2>2. faults' = 0 /\ faults = 0 =>
            /\ run' = "safeop" => \A s \in Axes : al'[s] = "PREOP"
            /\ run' = "write" => al'[cmd.slave] # "INIT"
            /\ button = "clear" /\ run' = "exit" => Ran = 1 /\ output' = <<word[axis]>>
      BY <1>14, CmdIs, SlaveIs, RanIs DEF UT!RequestInit, UT!gui, UT!run, UT!slaves,
         UT!history, UT!Fault, UT!NoFault, ClearInv, CountInv, SlaveInv, StageInv
    <2> QED BY <2>1, <2>2, ClearKept
  <1>15. CASE UT!ReadBootMailbox
    <2>1. /\ UNCHANGED <<button, axis, script, cmd, iGetValue, word, clicked>>
          /\ run \notin {"none", "exit"} /\ run' # "none"
          /\ faults' = faults \/ faults' = faults + 1
      BY <1>15 DEF UT!ReadBootMailbox, UT!gui, UT!run, UT!slaves, UT!history, UT!Fault,
         UT!NoFault
    <2>2. faults' = 0 /\ faults = 0 =>
            /\ run' = "safeop" => \A s \in Axes : al'[s] = "PREOP"
            /\ run' = "write" => al'[cmd.slave] # "INIT"
            /\ button = "clear" /\ run' = "exit" => Ran = 1 /\ output' = <<word[axis]>>
      BY <1>15, CmdIs, SlaveIs, RanIs DEF UT!ReadBootMailbox, UT!gui, UT!run,
         UT!slaves, UT!history, UT!Fault, UT!NoFault, ClearInv, CountInv, SlaveInv,
         StageInv
    <2> QED BY <2>1, <2>2, ClearKept
  <1>16. CASE UT!ProgramMailbox
    <2>1. /\ UNCHANGED <<button, axis, script, cmd, iGetValue, word, clicked>>
          /\ run \notin {"none", "exit"} /\ run' # "none"
          /\ faults' = faults \/ faults' = faults + 1
      BY <1>16 DEF UT!ProgramMailbox, UT!gui, UT!run, UT!slaves, UT!history, UT!Fault,
         UT!NoFault
    <2>2. faults' = 0 /\ faults = 0 =>
            /\ run' = "safeop" => \A s \in Axes : al'[s] = "PREOP"
            /\ run' = "write" => al'[cmd.slave] # "INIT"
            /\ button = "clear" /\ run' = "exit" => Ran = 1 /\ output' = <<word[axis]>>
      BY <1>16, CmdIs, SlaveIs, RanIs DEF UT!ProgramMailbox, UT!gui, UT!run, UT!slaves,
         UT!history, UT!Fault, UT!NoFault, ClearInv, CountInv, SlaveInv, StageInv
    <2> QED BY <2>1, <2>2, ClearKept
  <1>17. CASE UT!RequestBoot
    <2>1. /\ UNCHANGED <<button, axis, script, cmd, iGetValue, word, clicked>>
          /\ run \notin {"none", "exit"} /\ run' # "none"
          /\ faults' = faults \/ faults' = faults + 1
      BY <1>17 DEF UT!RequestBoot, UT!gui, UT!run, UT!slaves, UT!history, UT!Fault,
         UT!NoFault
    <2>2. faults' = 0 /\ faults = 0 =>
            /\ run' = "safeop" => \A s \in Axes : al'[s] = "PREOP"
            /\ run' = "write" => al'[cmd.slave] # "INIT"
            /\ button = "clear" /\ run' = "exit" => Ran = 1 /\ output' = <<word[axis]>>
      BY <1>17, CmdIs, SlaveIs, RanIs DEF UT!RequestBoot, UT!gui, UT!run, UT!slaves,
         UT!history, UT!Fault, UT!NoFault, ClearInv, CountInv, SlaveInv, StageInv
    <2> QED BY <2>1, <2>2, ClearKept
  <1>18. CASE UT!NoFile
    <2>1. /\ UNCHANGED <<button, axis, script, cmd, iGetValue, word, clicked>>
          /\ run \notin {"none", "exit"} /\ run' # "none"
          /\ faults' = faults \/ faults' = faults + 1
      BY <1>18 DEF UT!NoFile, UT!gui, UT!run, UT!slaves, UT!history, UT!Fault,
         UT!NoFault
    <2>2. faults' = 0 /\ faults = 0 =>
            /\ run' = "safeop" => \A s \in Axes : al'[s] = "PREOP"
            /\ run' = "write" => al'[cmd.slave] # "INIT"
            /\ button = "clear" /\ run' = "exit" => Ran = 1 /\ output' = <<word[axis]>>
      BY <1>18, CmdIs, SlaveIs, RanIs DEF UT!NoFile, UT!gui, UT!run, UT!slaves,
         UT!history, UT!Fault, UT!NoFault, ClearInv, CountInv, SlaveInv, StageInv
    <2> QED BY <2>1, <2>2, ClearKept
  <1>19. CASE UT!FOEwrite
    <2>1. /\ UNCHANGED <<button, axis, script, cmd, iGetValue, word, clicked>>
          /\ run \notin {"none", "exit"} /\ run' # "none"
          /\ faults' = faults \/ faults' = faults + 1
      BY <1>19 DEF UT!FOEwrite, UT!gui, UT!run, UT!slaves, UT!history, UT!Fault,
         UT!NoFault
    <2>2. faults' = 0 /\ faults = 0 =>
            /\ run' = "safeop" => \A s \in Axes : al'[s] = "PREOP"
            /\ run' = "write" => al'[cmd.slave] # "INIT"
            /\ button = "clear" /\ run' = "exit" => Ran = 1 /\ output' = <<word[axis]>>
      BY <1>19, CmdIs, SlaveIs, RanIs DEF UT!FOEwrite, UT!gui, UT!run, UT!slaves,
         UT!history, UT!Fault, UT!NoFault, ClearInv, CountInv, SlaveInv, StageInv
    <2> QED BY <2>1, <2>2, ClearKept
  <1>20. CASE UT!LeaveBoot
    <2>1. /\ UNCHANGED <<button, axis, script, cmd, iGetValue, word, clicked>>
          /\ run \notin {"none", "exit"} /\ run' # "none"
          /\ faults' = faults \/ faults' = faults + 1
      BY <1>20 DEF UT!LeaveBoot, UT!gui, UT!run, UT!slaves, UT!history, UT!Fault,
         UT!NoFault
    <2>2. faults' = 0 /\ faults = 0 =>
            /\ run' = "safeop" => \A s \in Axes : al'[s] = "PREOP"
            /\ run' = "write" => al'[cmd.slave] # "INIT"
            /\ button = "clear" /\ run' = "exit" => Ran = 1 /\ output' = <<word[axis]>>
      BY <1>20, CmdIs, SlaveIs, RanIs DEF UT!LeaveBoot, UT!gui, UT!run, UT!slaves,
         UT!history, UT!Fault, UT!NoFault, ClearInv, CountInv, SlaveInv, StageInv
    <2> QED BY <2>1, <2>2, ClearKept
  <1>21. CASE UNCHANGED toolVars
    <2>1. Ran' = Ran
      BY <1>21, SameScript DEF toolVars
    <2>2. Done(2)' = Done(2) /\ Done(3)' = Done(3)
      BY <1>21, <2>1 DEF toolVars, Done
    <2> QED BY <1>21, <2>1, <2>2 DEF toolVars, ClearInv
  <1> QED BY <1>1, <1>2, <1>3, <1>4, <1>5, <1>6, <1>7, <1>8, <1>9, <1>10, <1>11, <1>12,
         <1>13, <1>14, <1>15, <1>16, <1>17, <1>18, <1>19, <1>20, <1>21
          DEF UT!Next, UT!Gui, UT!Work, UT!Boottest, Buttons, Axes

LEMMA UpdateInit ==
  ASSUME UT!Init
  PROVE  UpdateInv
  <1>1. StageInv
    BY DEF UT!Init, StageInv, UT!Plain, UT!Cmd, Stages, Axes
  <1>2. CountInv
    BY BoundAssumption DEF UT!Init, CountInv
  <1>3. SlaveInv
    <2>1. /\ al = [s \in Axes |-> "INIT"] /\ sm = [s \in Axes |-> <<"none", "none">>]
          /\ mbx = <<"none", "none">> /\ fw = [s \in Axes |-> s] /\ par = [s \in Axes |-> s]
          /\ readable \in SUBSET Axes
      BY DEF UT!Init, Axes
    <2>2. <<"none", "none">> \in Boxes \X Boxes
      BY DEF Boxes
    <2>3. sm \in [Axes -> Boxes \X Boxes] /\ mbx \in Boxes \X Boxes
      BY <2>1, <2>2
    <2> QED BY <2>1, <2>3 DEF SlaveInv
  <1>4. WordInv
    <2>1. word \in [Axes -> {UT!Own(TRUE), UT!Own(FALSE)}]
      BY DEF UT!Init, Axes
    <2>2. UT!Own(TRUE) \in UT!Word /\ UT!Own(FALSE) \in UT!Word
      BY DEF UT!Own, UT!Word
    <2>3. word \in [Axes -> UT!Word]
      BY <2>1, <2>2
    <2>4. iGetValue \in UT!Word /\ clicked = <<>> /\ output = <<>>
      BY WordsAre DEF UT!Init
    <2>5. clicked \in Seq(UT!Word)
      BY <2>4
    <2> QED BY <2>3, <2>4, <2>5 DEF WordInv
  <1>5. ScriptInv /\ MailboxInv
    BY DEF UT!Init, ScriptInv, MailboxInv
  <1>6. FirmwareInv
    BY NoFileYet DEF UT!Init, FirmwareInv
  <1>7. CleanInv
    BY DEF UT!Init, CleanInv
  <1>8. ClearInv
    <2>1. word \in [Axes -> {UT!Own(TRUE), UT!Own(FALSE)}] /\ run = "none" /\ button = "none"
      BY DEF UT!Init, Axes
    <2>2. UT!Own(TRUE).low = "own" /\ UT!Own(FALSE).low = "own"
      BY DEF UT!Own
    <2>3. \A s \in Axes : word[s].low = "own"
      BY <2>1, <2>2
    <2> QED BY <2>1, <2>3 DEF ClearInv
  <1> QED BY <1>1, <1>2, <1>3, <1>4, <1>5, <1>6, <1>7, <1>8 DEF UpdateInv

LEMMA UpdateStep ==
  ASSUME UpdateInv, UT!Next \/ UNCHANGED toolVars
  PROVE  UpdateInv'
  <1>1. /\ StageInv /\ CountInv /\ SlaveInv /\ WordInv /\ ScriptInv
        /\ MailboxInv /\ FirmwareInv /\ CleanInv /\ ClearInv
    BY DEF UpdateInv
  <1>2. StageInv' /\ CountInv' /\ SlaveInv' /\ WordInv' /\ ScriptInv' /\ MailboxInv'
    BY <1>1, StageStep, CountStep, SlaveStep, WordStep, ScriptStep, MailboxStep
  <1>3. FirmwareInv' /\ CleanInv' /\ ClearInv'
    BY <1>1, <1>2, FirmwareStep, CleanStep, ClearStep
  <1> QED BY <1>2, <1>3 DEF UpdateInv

\* A behaviour of the tool that is about its buttons keeps the invariant.
ButtonsInv == which = "buttons" => UpdateInv
LEMMA ButtonsKept == ToolSpec => []ButtonsInv
  <1>1. ToolInit => ButtonsInv
    <2>1. ToolInit /\ which = "buttons" => UT!Init
      BY DEF ToolInit
    <2> QED BY <2>1, UpdateInit DEF ButtonsInv
  <1>2. ButtonsInv /\ [ToolNext]_<<which, vars, toolVars, sessionVars>> => ButtonsInv'
    <2> SUFFICES ASSUME which = "buttons", UpdateInv, UT!Next \/ UNCHANGED toolVars
                 PROVE  UpdateInv'
      BY DEF ButtonsInv, ToolNext
    <2> QED BY UpdateStep
  <1> QED BY <1>1, <1>2, PTL DEF ToolSpec

\* When the handler of a button is done everything that the button is there for has
\* been run.
LEMMA FinishedIs ==
  ASSUME UpdateInv, NEW b \in Buttons, UT!Finished(b)
  PROVE  /\ button = b /\ run = "none" /\ Ran = Len(Whole)
         /\ b = "firmware" => Ran = 13
         /\ b = "parameter" => Ran = 6
         /\ b = "clear" => Ran = 3
  <1>1. button = b /\ run = "none" /\ script = <<>> /\ StageInv /\ ScriptInv
    BY DEF UT!Finished, UpdateInv
  <1>2. Whole \in Seq(Cmds)
    BY <1>1, RanIs DEF Buttons
  <1>3. Len(script) = 0 /\ Len(Whole) \in Nat
    BY <1>1, <1>2
  <1>4. Ran = Len(Whole)
    BY <1>3 DEF Ran
  <1> QED BY <1>1, <1>4, RanIs DEF Buttons

LEMMA LengthIs ==
  /\ \A n \in 0 .. 3 : FirstFiles(n) = SubSeq(<<1, 2, 3>>, 1, n)
  /\ Len(FirstFiles(3)) = 3 /\ FirstFiles(3)[3] = 3
  <1>1. ASSUME NEW n \in 0 .. 3
        PROVE  FirstFiles(n) = SubSeq(<<1, 2, 3>>, 1, n)
    <2>1. /\ SubSeq(<<1, 2, 3>>, 1, n) = [k \in 1 .. n |-> <<1, 2, 3>>[k]]
      OBVIOUS
    <2>2. \A k \in 1 .. n : <<1, 2, 3>>[k] = k
      <3>1. \A k \in 1 .. n : k = 1 \/ k = 2 \/ k = 3
        OBVIOUS
      <3> QED BY <3>1
    <2> QED BY <2>1, <2>2 DEF FirstFiles
  <1>2. Len(FirstFiles(3)) = 3 /\ FirstFiles(3)[3] = 3
    BY DEF FirstFiles
  <1> QED BY <1>1, <1>2

\* Firmware is downloaded in BOOT, over mailboxes that the slave and the master
\* agree on, however the calls before it have gone.
THEOREM DownloadIsInBoot == ToolSpec => []BootMailboxAgrees
  <1>1. ButtonsInv => BootMailboxAgrees
    BY DEF ButtonsInv, UpdateInv, MailboxInv, BootMailboxAgrees, UT!BootMailboxAgrees
  <1> QED BY <1>1, ButtonsKept, PTL

\* The firmware files arrive in order, and when the user is told that the update is
\* ok all three have, the last of them being what slave 1 has.
THEOREM OkIsStored == ToolSpec => []OkMeansStored
  <1>1. ASSUME UpdateInv
        PROVE  UT!TypeOK
    <2>1. StageInv /\ CountInv /\ SlaveInv /\ WordInv
      BY <1>1 DEF UpdateInv
    <2>2. output = <<>> \/ output[1] \in UT!Word
      BY <2>1 DEF WordInv
    <2>3. run \in {"none", "config", "preop", "work", "exit", "safeop", "write", "init",
                   "eeprom", "program", "boot", "download", "leave"}
      BY <2>1 DEF StageInv, Stages
    <2> QED BY <2>1, <2>2, <2>3
            DEF UT!TypeOK, StageInv, CountInv, SlaveInv, WordInv, Buttons, Axes, UT!Torn
  <1>2. ASSUME UpdateInv
        PROVE  UT!InOrder
    <2>1. PICK n \in 0 .. 3 : loaded = FirstFiles(n)
      BY <1>2 DEF UpdateInv, FirmwareInv
    <2> QED BY <2>1, LengthIs
            DEF UT!InOrder, UT!AXIS_DRIVING, UT!AXIS_HOIST, UT!AXIS_SLIDE
  <1>3. ASSUME UpdateInv
        PROVE  UT!OkMeansStored
    <2> SUFFICES ASSUME UT!Finished("firmware"), msg = "ok"
                 PROVE  Len(loaded) = 3 /\ fw[1] = loaded[3]
      BY DEF UT!OkMeansStored
    <2>1. button = "firmware" /\ run = "none" /\ Ran = 13
      BY <1>3, FinishedIs DEF Buttons
    <2>2. Complete = 3
      BY <2>1, FilesAre DEF Complete
    <2>3. loaded = FirstFiles(3) /\ fw[1] = 3
      <3>1. 3 > 0
        OBVIOUS
      <3> QED BY <1>3, <2>1, <2>2, <3>1 DEF UpdateInv, FirmwareInv
    <2> QED BY <2>3, LengthIs
  <1>4. ButtonsInv => OkMeansStored
    BY <1>1, <1>2, <1>3 DEF ButtonsInv, OkMeansStored, UT!Inv
  <1> QED BY <1>4, ButtonsKept, PTL

\* A second attempt at an update or a download in which nothing fails succeeds, and
\* is not said to have failed, whatever an earlier attempt has left behind.
THEOREM RetryIsClean == ToolSpec => []SecondTrySucceeds
  <1>1. ASSUME UpdateInv
        PROVE  UT!SecondTrySucceeds
    <2>1. CleanInv /\ FirmwareInv
      BY <1>1 DEF UpdateInv
    <2>2. faults = before /\ readable = Axes => msg # "fail"
      BY <2>1 DEF CleanInv, Clean
    <2>3. ASSUME UT!Finished("firmware"), faults = before, readable = Axes
          PROVE  msg = "ok" /\ Len(loaded) = 3
      <3>1. button = "firmware" /\ run = "none" /\ Ran = 13
        BY <1>1, <2>3, FinishedIs DEF Buttons
      <3>2. Complete = 3
        BY <3>1, FilesAre DEF Complete
      <3>3. msg # "fail" /\ 13 >= 2
        BY <2>2, <2>3
      <3>4. loaded = FirstFiles(3) /\ msg = "ok"
        BY <2>1, <3>1, <3>2, <3>3 DEF FirmwareInv
      <3> QED BY <3>4, LengthIs
    <2>4. ASSUME UT!Finished("parameter"), faults = before
          PROVE  msg = "ok" /\ par[1] = axis
      <3>1. button = "parameter" /\ run = "none" /\ Ran = 6
        BY <1>1, <2>4, FinishedIs DEF Buttons
      <3>2. Clean /\ 6 >= 2
        BY <2>4, <3>1 DEF Clean
      <3> QED BY <2>1, <3>1, <3>2 DEF CleanInv
    <2> QED BY <2>2, <2>3, <2>4 DEF UT!SecondTrySucceeds, Axes
  <1>2. ButtonsInv => SecondTrySucceeds
    BY <1>1 DEF ButtonsInv, SecondTrySucceeds
  <1> QED BY <1>2, ButtonsKept, PTL

\* The error-clear button, when no call fails, makes a rising edge of bit 7 and leaves
\* bits 0 to 6 as they were.
THEOREM ClearsByEdge == ToolSpec => []ClearIsPulse
  <1>1. ASSUME UpdateInv
        PROVE  UT!ClearIsPulse
    <2> SUFFICES ASSUME UT!Finished("clear"), faults = 0
                 PROVE  /\ Len(clicked) = 2 /\ ~clicked[1].bit7 /\ clicked[2].bit7
                        /\ clicked[1].low = "own" /\ clicked[2].low = "own"
                        /\ word[axis] = clicked[2]
      BY DEF UT!ClearIsPulse
    <2>1. button = "clear" /\ run = "none" /\ Ran = 3
      BY <1>1, FinishedIs DEF Buttons
    <2>2. Done(2) /\ Done(3) /\ Ran > 1
      BY <2>1 DEF Done
    <2>3. ClearInv
      BY <1>1 DEF UpdateInv
    <2> QED BY <2>1, <2>2, <2>3 DEF ClearInv
  <1>2. ButtonsInv => ClearIsPulse
    BY <1>1 DEF ButtonsInv, ClearIsPulse
  <1> QED BY <1>2, ButtonsKept, PTL

-------------------------------------------------------------------------------
(* The parameter download *)

USE WidthAssumption, ParamAssumption

Arrays ==
    /\ Count \in Nat /\ i \in 1 .. Count
    /\ pc \in {"pre", "set", "check", "log", "save", "done"}
    /\ \A n \in 1 .. Count : params[n] \in Param
    /\ DOMAIN pre = 1 .. Count /\ DOMAIN check = 1 .. Count
    /\ DOMAIN log = 1 .. Count /\ DOMAIN od = Objects

\* What a line holds when it is read from dictionary d.
ValueIn(d, n) == Decode(params[n].type, d[params[n].obj])

\* The loops that come after one, and the lines it has dealt with.
After(loop) == CASE loop = "pre"   -> {"set", "check", "log", "save", "done"}
                 [] loop = "set"   -> {"check", "log", "save", "done"}
                 [] loop = "check" -> {"log", "save", "done"}
Past(loop, n) == pc \in After(loop) \/ (pc = loop /\ n < i)

\* The values before are those of the dictionary before, which is the dictionary
\* until the first value is set.
PreInv ==
    /\ pc = "pre" => od = od0
    /\ "read" \notin failed =>
          \A n \in 1 .. Count : Past("pre", n) => pre[n] = ValueIn(od0, n)

\* The values after are those of the dictionary, which nothing changes any more.
CheckInv ==
    "read" \notin failed =>
       \A n \in 1 .. Count : Past("check", n) => check[n] = ValueIn(od, n)

\* A verdict is that of the values before and after.
LogInv ==
    \A n \in 1 .. Count :
       log[n] # "" => pc \in {"log", "save", "done"} /\ log[n] = Verdict(n)

\* An object holds the value of its last line that was set.
SetInv ==
    "write" \notin failed =>
       \A n \in 1 .. Count :
          /\ Past("set", n)
          /\ \A m \in n + 1 .. Count :
                Past("set", m) => params[m].obj # params[n].obj
          => od[params[n].obj] = Encode(params[n].set)

\* And the slave keeps it.
SaveInv == pc = "done" /\ "save" \notin failed => stored = od

IInv == Arrays /\ PreInv /\ CheckInv /\ LogInv /\ SetInv /\ SaveInv

\* The invariant holds at the start.
LEMMA InitIInv == Init => IInv
  <1> SUFFICES ASSUME Init PROVE IInv
    OBVIOUS
  <1>0. i = 1 /\ pc = "pre"
    BY DEF Init
  <1>1. PICK c \in 1 .. MaxParam : params \in [1 .. c -> Param]
    BY DEF Init
  <1>2. params \in Seq(Param) /\ Count = c
    BY <1>1 DEF Count
  <1>3. Arrays
    <2>1. /\ Count \in Nat /\ i \in 1 .. Count
          /\ \A n \in 1 .. Count : params[n] \in Param
      BY <1>0, <1>1, <1>2
    <2>2. /\ DOMAIN pre = 1 .. Count /\ DOMAIN check = 1 .. Count
          /\ DOMAIN log = 1 .. Count
      BY DEF Init, Zeros
    <2>3. DOMAIN od = Objects
      BY DEF Init
    <2> QED BY <2>1, <2>2, <2>3 DEF Init, Arrays
  <1>4. \A n \in 1 .. Count :
           /\ log[n] = ""
           /\ ~Past("pre", n) /\ ~Past("set", n) /\ ~Past("check", n)
    <2> TAKE n \in 1 .. Count
    <2>1. log[n] = ""
      BY DEF Init
    <2>2. pc = "pre" /\ ~(n < i)
      BY <1>0, <1>3 DEF Arrays
    <2> QED BY <2>1, <2>2 DEF Past, After
  <1> QED BY <1>3, <1>4
          DEF Init, IInv, PreInv, CheckInv, LogInv, SetInv, SaveInv

\* The arrays keep their size.
LEMMA ArraysStep ==
  ASSUME Arrays, [Next]_vars
  PROVE  Arrays'
  <1>1. CASE ReadPre
    BY <1>1 DEF ReadPre, Arrays, Count, Advance, SDOread
  <1>2. CASE WriteSet
    BY <1>2 DEF WriteSet, Arrays, Count, Advance, SDOread
  <1>3. CASE ReadCheck
    BY <1>3 DEF ReadCheck, Arrays, Count, Advance, SDOread
  <1>4. CASE WriteLog
    BY <1>4 DEF WriteLog, Arrays, Count, Advance, SDOread
  <1>5. CASE Save
    BY <1>5 DEF Save, Arrays, Count, Advance, SDOread
  <1>6. CASE UNCHANGED vars
    BY <1>6 DEF vars, Arrays, Count
  <1> QED BY <1>1, <1>2, <1>3, <1>4, <1>5, <1>6 DEF Next

\* Reading the values before changes nothing.
LEMMA PreStep ==
  ASSUME Arrays, Arrays', PreInv, [Next]_vars
  PROVE  PreInv'
  <1>1. CASE ReadPre
    <2>1. PICK v \in Values :
             /\ SDOread(params[i], v)
             /\ pre' = [pre EXCEPT ![i] = v]
      BY <1>1 DEF ReadPre
    <2>2. UNCHANGED <<params, od, od0>> /\ pc = "pre"
      BY <1>1 DEF ReadPre
    <2>3. "read" \notin failed' => "read" \notin failed /\ v = ValueIn(od, i)
      BY <2>1 DEF SDOread, ValueIn
    <2>4. \A n \in 1 .. Count : Past("pre", n)' => n = i \/ Past("pre", n)
      BY <1>1 DEF ReadPre, Advance, Past, After, Arrays
    <2>5. ASSUME "read" \notin failed', NEW n \in 1 .. Count, Past("pre", n)'
          PROVE  pre'[n] = ValueIn(od0, n)
      BY <2>1, <2>2, <2>3, <2>4, <2>5 DEF PreInv, Arrays
    <2>6. pc' = "pre" => pc = "pre"
      BY <1>1 DEF ReadPre, Advance
    <2> QED BY <2>2, <2>5, <2>6 DEF PreInv, Count, ValueIn
  <1>2. CASE WriteSet
    BY <1>2 DEF WriteSet, Arrays, Count, PreInv, Past, After, ValueIn, Advance,
       SDOread
  <1>3. CASE ReadCheck
    BY <1>3 DEF ReadCheck, Arrays, Count, PreInv, Past, After, ValueIn,
       Advance, SDOread
  <1>4. CASE WriteLog
    BY <1>4 DEF WriteLog, Arrays, Count, PreInv, Past, After, ValueIn, Advance,
       SDOread
  <1>5. CASE Save
    BY <1>5 DEF Save, Arrays, Count, PreInv, Past, After, ValueIn, Advance,
       SDOread
  <1>6. CASE UNCHANGED vars
    BY <1>6 DEF vars, Arrays, Count, PreInv, Past, After, ValueIn
  <1> QED BY <1>1, <1>2, <1>3, <1>4, <1>5, <1>6 DEF Next

\* Nor does reading them after.
LEMMA CheckStep ==
  ASSUME Arrays, Arrays', CheckInv, [Next]_vars
  PROVE  CheckInv'
  <1>1. CASE ReadPre
    BY <1>1 DEF ReadPre, Arrays, Count, CheckInv, Past, After, ValueIn,
       Advance, SDOread
  <1>2. CASE WriteSet
    BY <1>2 DEF WriteSet, Arrays, Count, CheckInv, Past, After, ValueIn,
       Advance, SDOread
  <1>3. CASE ReadCheck
    <2>1. PICK v \in Values :
             /\ SDOread(params[i], v)
             /\ check' = [check EXCEPT ![i] = v]
      BY <1>3 DEF ReadCheck
    <2>2. UNCHANGED <<params, od, od0>> /\ pc = "check"
      BY <1>3 DEF ReadCheck
    <2>3. "read" \notin failed' => "read" \notin failed /\ v = ValueIn(od, i)
      BY <2>1 DEF SDOread, ValueIn
    <2>4. \A n \in 1 .. Count : Past("check", n)' => n = i \/ Past("check", n)
      BY <1>3 DEF ReadCheck, Advance, Past, After, Arrays
    <2>5. ASSUME "read" \notin failed', NEW n \in 1 .. Count, Past("check", n)'
          PROVE  check'[n] = ValueIn(od, n)
      BY <2>1, <2>2, <2>3, <2>4, <2>5 DEF CheckInv, Arrays
    <2>6. pc' = "pre" => pc = "pre"
      BY <1>3 DEF ReadCheck, Advance
    <2> QED BY <2>2, <2>5, <2>6 DEF CheckInv, Count, ValueIn
  <1>4. CASE WriteLog
    BY <1>4 DEF WriteLog, Arrays, Count, CheckInv, Past, After, ValueIn,
       Advance, SDOread
  <1>5. CASE Save
    BY <1>5 DEF Save, Arrays, Count, CheckInv, Past, After, ValueIn, Advance,
       SDOread
  <1>6. CASE UNCHANGED vars
    BY <1>6 DEF vars, Arrays, Count, CheckInv, Past, After, ValueIn
  <1> QED BY <1>1, <1>2, <1>3, <1>4, <1>5, <1>6 DEF Next

\* A verdict is written when both values are known.
LEMMA LogStep ==
  ASSUME Arrays, Arrays', LogInv, [Next]_vars
  PROVE  LogInv'
  <1>1. CASE ReadPre
    BY <1>1 DEF ReadPre, Arrays, Count, LogInv, Verdict, Advance, SDOread
  <1>2. CASE WriteSet
    BY <1>2 DEF WriteSet, Arrays, Count, LogInv, Verdict, Advance, SDOread
  <1>3. CASE ReadCheck
    BY <1>3 DEF ReadCheck, Arrays, Count, LogInv, Verdict, Advance, SDOread
  <1>4. CASE WriteLog
    BY <1>4 DEF WriteLog, Arrays, Count, LogInv, Verdict, Advance, SDOread
  <1>5. CASE Save
    BY <1>5 DEF Save, Arrays, Count, LogInv, Verdict, Advance, SDOread
  <1>6. CASE UNCHANGED vars
    BY <1>6 DEF vars, Arrays, Count, LogInv, Verdict
  <1> QED BY <1>1, <1>2, <1>3, <1>4, <1>5, <1>6 DEF Next

\* A line that is set hides the earlier ones of its object.
LEMMA SetStep ==
  ASSUME Arrays, Arrays', SetInv, [Next]_vars
  PROVE  SetInv'
  <1>1. CASE ReadPre
    BY <1>1 DEF ReadPre, Arrays, Count, SetInv, Past, After, Param, Advance,
       SDOread
  <1>2. CASE WriteSet
    BY <1>2 DEF WriteSet, Arrays, Count, SetInv, Past, After, Param, Advance,
       SDOread
  <1>3. CASE ReadCheck
    BY <1>3 DEF ReadCheck, Arrays, Count, SetInv, Past, After, Param, Advance,
       SDOread
  <1>4. CASE WriteLog
    BY <1>4 DEF WriteLog, Arrays, Count, SetInv, Past, After, Param, Advance,
       SDOread
  <1>5. CASE Save
    BY <1>5 DEF Save, Arrays, Count, SetInv, Past, After, Param, Advance,
       SDOread
  <1>6. CASE UNCHANGED vars
    BY <1>6 DEF vars, Arrays, Count, SetInv, Past, After, Param
  <1> QED BY <1>1, <1>2, <1>3, <1>4, <1>5, <1>6 DEF Next

\* Saving comes last.
LEMMA SaveStep ==
  ASSUME Arrays, Arrays', SaveInv, [Next]_vars
  PROVE  SaveInv'
  <1>1. CASE ReadPre
    BY <1>1 DEF ReadPre, Arrays, Count, SaveInv, Advance, SDOread
  <1>2. CASE WriteSet
    BY <1>2 DEF WriteSet, Arrays, Count, SaveInv, Advance, SDOread
  <1>3. CASE ReadCheck
    BY <1>3 DEF ReadCheck, Arrays, Count, SaveInv, Advance, SDOread
  <1>4. CASE WriteLog
    BY <1>4 DEF WriteLog, Arrays, Count, SaveInv, Advance, SDOread
  <1>5. CASE Save
    BY <1>5 DEF Save, Arrays, Count, SaveInv, Advance, SDOread
  <1>6. CASE UNCHANGED vars
    BY <1>6 DEF vars, Arrays, Count, SaveInv
  <1> QED BY <1>1, <1>2, <1>3, <1>4, <1>5, <1>6 DEF Next

\* The parts together are inductive.
LEMMA InvariantStep ==
  ASSUME IInv, [Next]_vars
  PROVE  IInv'
  BY ArraysStep, PreStep, CheckStep, LogStep, SetStep, SaveStep DEF IInv

LEMMA Invariant == Spec => []IInv
  <1>1. IInv /\ [Next]_vars => IInv'
    BY InvariantStep
  <1> QED BY InitIInv, <1>1, PTL DEF Spec

\* What they say of the file, the log and the slave.
LEMMA PreIs == IInv => PreIsOriginal
  BY DEF IInv, Arrays, PreInv, PreIsOriginal, Past, After, ValueIn

LEMMA StoredIs == IInv => LastLineStored
  <1> SUFFICES ASSUME IInv, pc = "done", failed = {}, NEW n \in 1 .. Count,
                      \A m \in n + 1 .. Count : params[m].obj # params[n].obj
               PROVE  /\ stored[params[n].obj] = Encode(params[n].set)
                      /\ check[n] = Decode(params[n].type, stored[params[n].obj])
    BY DEF LastLineStored
  <1>1. stored = od
    BY DEF IInv, SaveInv
  <1>2. od[params[n].obj] = Encode(params[n].set)
    BY DEF IInv, SetInv, Past, After
  <1>3. check[n] = ValueIn(od, n)
    BY DEF IInv, CheckInv, Past, After
  <1> QED BY <1>1, <1>2, <1>3 DEF ValueIn

LEMMA OkIs == IInv => OkIsStable
  <1> SUFFICES ASSUME IInv, NEW n \in 1 .. Count,
                      log[n] = "OK", "read" \notin failed
               PROVE  /\ Decode(params[n].type, od0[params[n].obj]) = params[n].set
                      /\ Decode(params[n].type, od[params[n].obj]) = params[n].set
    BY DEF OkIsStable
  <1>1. pc \in {"log", "save", "done"} /\ Verdict(n) = "OK"
    BY DEF IInv, LogInv
  <1>2. pre[n] = params[n].set /\ check[n] = params[n].set
    BY <1>1 DEF Verdict
  <1>3. pre[n] = ValueIn(od0, n) /\ check[n] = ValueIn(od, n)
    BY <1>1 DEF IInv, PreInv, CheckInv, Past, After
  <1> QED BY <1>2, <1>3 DEF ValueIn

\* The column of values before is that of the dictionary before the download,
\* also for lines about one object.
THEOREM ValuesBefore == Spec => []PreIsOriginal
  BY Invariant, PreIs, PTL

\* Without a failed call, the slave holds and has saved the value of the last
\* line of every object, and it was read back.
THEOREM DownloadIsStored == Spec => []LastLineStored
  BY Invariant, StoredIs, PTL

\* "OK" in the log means that the object had the value of the file before the
\* download and has it after, whichever writes failed.
THEOREM OkIsTrue == Spec => []OkIsStable
  BY Invariant, OkIs, PTL

-------------------------------------------------------------------------------
(* The tool: a behaviour about the parameters *)

\* What is sent for a value is a raw value of the slave.
LEMMA EncodeIsRaw ==
  ASSUME NEW d \in [Objects -> Raw], NEW o \in Objects, NEW v \in Values
  PROVE  Encode(v) \in Raw
  <1> DEFINE M == 2^Width
  <1>1. M \in Int /\ v \in Int
    BY DEF Values
  <1>2. d[o] \in 0 .. M - 1
    BY DEF Raw
  <1> HIDE DEF M
  <1>3. M > 0
    BY <1>1, <1>2
  <1>4. v % M \in 0 .. M - 1
    BY <1>1, <1>3
  <1> QED BY <1>4 DEF Encode, Raw, M

\* Variables hold what was read into them, or what they were set to.
TypeInv ==
    /\ TypeOK
    /\ local \in [Types -> UNION {Held(t) : t \in Types}]

LEMMA InitTypeInv == Init => TypeInv
  <1> SUFFICES ASSUME Init PROVE TypeInv
    OBVIOUS
  <1>1. PICK c \in 1 .. MaxParam : params \in [1 .. c -> Param]
    BY DEF Init
  <1>2. params \in Seq(Param) /\ Count = c /\ i \in 1 .. Count
    <2>1. params \in Seq(Param) /\ Len(params) = c
      BY <1>1
    <2>2. i = 1
      BY DEF Init
    <2> QED BY <2>1, <2>2 DEF Count
  <1>3. \A t : 0 \in Held(t)
    BY DEF Held
  <1>4. local \in [Types -> UNION {Held(t) : t \in Types}] /\ \A t \in Types : local[t] \in Held(t)
    BY <1>3 DEF Init
  <1>5. \A n \in 1 .. Count : /\ {pre[n], check[n]} \subseteq Held(params[n].type)
                              /\ log[n] \in {"", "OK", "Modified", "Warning"}
    BY <1>3 DEF Init, Zeros
  <1> QED BY <1>2, <1>4, <1>5 DEF Init, TypeInv, TypeOK

LEMMA TypeStep ==
  ASSUME Arrays, TypeInv, [Next]_vars
  PROVE  TypeInv'
  <1> DEFINE All == UNION {Held(t) : t \in Types}
  <1>0. /\ params \in Seq(Param) /\ i \in 1 .. Count /\ Count \in Nat
        /\ params[i] \in Param /\ params[i].type \in Types /\ params[i].obj \in Objects
        /\ params[i].set \in Values
        /\ od \in [Objects -> Raw] /\ stored \in [Objects -> Raw] /\ od0 \in [Objects -> Raw]
        /\ DOMAIN pre = 1 .. Count /\ DOMAIN check = 1 .. Count /\ DOMAIN log = 1 .. Count
        /\ local \in [Types -> All] /\ \A t \in Types : local[t] \in Held(t)
    BY DEF Arrays, TypeInv, TypeOK, Param
  <1>a. ASSUME NEW v, SDOread(params[i], v)
        PROVE  v \in Held(params[i].type) /\ failed' \subseteq failed \cup {"read"}
    BY <1>0, <1>a DEF SDOread, Held
  <1>b. ASSUME NEW v, v \in Held(params[i].type), local' = [local EXCEPT ![params[i].type] = v]
        PROVE  local' \in [Types -> All] /\ \A t \in Types : local'[t] \in Held(t)
    <2>1. v \in All
      BY <1>0, <1>b
    <2> QED BY <1>0, <1>b, <2>1
  <1>c. ASSUME NEW next \in {"set", "check", "log", "save"}, Advance(next),
               pc \in {"pre", "set", "check", "log"}, params' = params
        PROVE  i' \in 1 .. Count' /\ pc' \in {"pre", "set", "check", "log", "save", "done"}
    BY <1>0, <1>c DEF Advance, Count
  <1>1. CASE ReadPre
    <2>1. PICK v \in Values : /\ SDOread(params[i], v)
                              /\ local' = [local EXCEPT ![params[i].type] = v]
                              /\ pre' = [pre EXCEPT ![i] = v]
      BY <1>1 DEF ReadPre
    <2>2. Advance("set") /\ UNCHANGED <<params, check, log, od, stored, od0>> /\ pc = "pre"
      BY <1>1 DEF ReadPre
    <2>3. i' \in 1 .. Count' /\ pc' \in {"pre", "set", "check", "log", "save", "done"}
      BY <1>c, <2>2
    <2>4. local' \in [Types -> All] /\ \A t \in Types : local'[t] \in Held(t)
      BY <1>a, <1>b, <2>1
    <2>5. \A n \in 1 .. Count : pre'[n] \in Held(params[n].type)
      BY <1>0, <1>a, <2>1 DEF TypeInv, TypeOK
    <2>6. failed' \subseteq {"read", "write", "save"}
      BY <1>a, <2>1 DEF TypeInv, TypeOK
    <2> QED BY <2>2, <2>3, <2>4, <2>5, <2>6 DEF TypeInv, TypeOK, Count
  <1>2. CASE WriteSet
    <2> DEFINE e == Encode(params[i].set)
    <2>1. e \in Raw
      BY <1>0, EncodeIsRaw
    <2>2. Decode(params[i].type, e) \in Held(params[i].type)
      BY <2>1 DEF Held
    <2> HIDE DEF e
    <2>3. /\ local' = [local EXCEPT ![params[i].type] = Decode(params[i].type, e)]
          /\ od' = [od EXCEPT ![params[i].obj] = e] \/ od' = od
          /\ failed' = failed \/ failed' = failed \cup {"write"}
          /\ Advance("check") /\ UNCHANGED <<params, pre, check, log, stored, od0>> /\ pc = "set"
      BY <1>2 DEF WriteSet, e
    <2>4. local' \in [Types -> All] /\ \A t \in Types : local'[t] \in Held(t)
      BY <1>b, <2>2, <2>3
    <2>5. od' \in [Objects -> Raw] /\ failed' \subseteq {"read", "write", "save"}
      <3>1. od' \in [Objects -> Raw]
        BY <1>0, <2>1, <2>3
      <3>2. failed \subseteq {"read", "write", "save"}
        BY DEF TypeInv, TypeOK
      <3> QED BY <2>3, <3>1, <3>2
    <2>6. i' \in 1 .. Count' /\ pc' \in {"pre", "set", "check", "log", "save", "done"}
      BY <1>c, <2>3
    <2> QED BY <2>3, <2>4, <2>5, <2>6 DEF TypeInv, TypeOK, Count
  <1>3. CASE ReadCheck
    <2>1. PICK v \in Values : /\ SDOread(params[i], v)
                              /\ local' = [local EXCEPT ![params[i].type] = v]
                              /\ check' = [check EXCEPT ![i] = v]
      BY <1>3 DEF ReadCheck
    <2>2. Advance("log") /\ UNCHANGED <<params, pre, log, od, stored, od0>> /\ pc = "check"
      BY <1>3 DEF ReadCheck
    <2>3. i' \in 1 .. Count' /\ pc' \in {"pre", "set", "check", "log", "save", "done"}
      BY <1>c, <2>2
    <2>4. local' \in [Types -> All] /\ \A t \in Types : local'[t] \in Held(t)
      BY <1>a, <1>b, <2>1
    <2>5. \A n \in 1 .. Count : check'[n] \in Held(params[n].type)
      BY <1>0, <1>a, <2>1 DEF TypeInv, TypeOK
    <2>6. failed' \subseteq {"read", "write", "save"}
      BY <1>a, <2>1 DEF TypeInv, TypeOK
    <2> QED BY <2>2, <2>3, <2>4, <2>5, <2>6 DEF TypeInv, TypeOK, Count
  <1>4. CASE WriteLog
    <2>1. /\ log' = [log EXCEPT ![i] = Verdict(i)] /\ Advance("save") /\ pc = "log"
          /\ UNCHANGED <<params, local, pre, check, od, stored, od0, failed>>
      BY <1>4 DEF WriteLog
    <2>2. Verdict(i) \in {"OK", "Modified", "Warning"}
      BY DEF Verdict
    <2>3. \A n \in 1 .. Count : log'[n] \in {"", "OK", "Modified", "Warning"}
      BY <1>0, <2>1, <2>2 DEF TypeInv, TypeOK
    <2>4. i' \in 1 .. Count' /\ pc' \in {"pre", "set", "check", "log", "save", "done"}
      BY <1>c, <2>1
    <2> QED BY <2>1, <2>3, <2>4 DEF TypeInv, TypeOK, Count
  <1>5. CASE Save
    <2>1. /\ stored' \in {stored, od} /\ failed' \subseteq failed \cup {"save"} /\ pc' = "done"
          /\ UNCHANGED <<params, i, local, pre, check, log, od, od0>>
      BY <1>5 DEF Save
    <2> QED BY <1>0, <2>1 DEF TypeInv, TypeOK, Count
  <1>6. CASE UNCHANGED vars
    BY <1>6 DEF vars, TypeInv, TypeOK, Count
  <1> QED BY <1>1, <1>2, <1>3, <1>4, <1>5, <1>6 DEF Next

\* Everything that is logged by a parameter download is true, in every behaviour of
\* the tool that is about one.
THEOREM LogsAreTrue == ToolSpec => []LogIsTrue
  <1> DEFINE LogInv0 == which = "parameters" => IInv /\ TypeInv
  <1>1. ToolInit => LogInv0
    <2>1. ToolInit /\ which = "parameters" => Init
      BY DEF ToolInit
    <2> QED BY <2>1, InitIInv, InitTypeInv
  <1>2. LogInv0 /\ [ToolNext]_<<which, vars, toolVars, sessionVars>> => LogInv0'
    <2> SUFFICES ASSUME which = "parameters", IInv, TypeInv, which' = which, [Next]_vars
                 PROVE  IInv' /\ TypeInv'
      BY DEF ToolNext
    <2>1. IInv'
      BY InvariantStep
    <2>2. TypeInv'
      BY TypeStep DEF IInv
    <2> QED BY <2>1, <2>2
  <1>3. LogInv0 => LogIsTrue
    <2>1. IInv => PreIsOriginal /\ LastLineStored /\ OkIsStable
      BY PreIs, StoredIs, OkIs
    <2> QED BY <2>1 DEF LogIsTrue, Inv, TypeInv
  <1> QED BY <1>1, <1>2, <1>3, PTL DEF ToolSpec
===============================================================================
