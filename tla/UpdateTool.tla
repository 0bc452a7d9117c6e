------------------------------ MODULE UpdateTool ------------------------------
(* The update application: a button of the GUI (OnButtonClick) runs            *)
(* firm_update one time after the other, each run a process that configures    *)
(* the network anew, brings its slave to a state, does its work and exits with *)
(* a result; then the next command follows from the result.  The slaves are    *)
(* the three axes, and the file of an axis has the axis' name.                 *)
(*                                                                             *)
(* A fault is one call on the network that fails; at most MaxFaults happen.    *)
(* FoE, SDO and state changes are what FoEWrite, Mailbox and AlState model.    *)
EXTENDS Integers, Sequences, FiniteSets

CONSTANTS MaxFaults,   \* bound: faults
          MaxClicks    \* bound: buttons pressed

AXIS_DRIVING == 1
AXIS_HOIST == 2
AXIS_SLIDE == 3
Axes == {AXIS_DRIVING, AXIS_HOIST, AXIS_SLIDE}

\* A value of the 16-bit error-clear word: bits 0-6, bit 7, bits 8-15, each group
\* as it was or not.
Word == [low : {"own", "zero", "ones"}, bit7 : BOOLEAN, high : {"own", "zero", "ones"}]
Zero == [low |-> "zero", bit7 |-> FALSE, high |-> "zero"]
Ones == [low |-> "ones", bit7 |-> TRUE, high |-> "ones"]

\* fn is the option of firm_update; file the file's axis for /f and /p; op what is
\* done with the error-clear word: "get", "and" (/e of the word & 127), "or"
\* (/e of the word | 128).
Cmd(fn, slave, file, op) == [fn |-> fn, slave |-> slave, file |-> file, op |-> op]
Plain(fn, slave) == Cmd(fn, slave, 0, "none")
Torn == 0     \* in place of an axis: firmware or parameters of no file

VARIABLES
  \* the GUI
  button,    \* what was pressed, "none" when the handler is over
  axis,      \* for which axis
  script,    \* the commands it has still to run
  iGetValue, \* the value that was read
  msg,       \* what the last handler told the user
  clicks,    \* buttons pressed
  \* the run of firm_update
  pc,        \* where it is; "none" when there is none
  cmd,       \* its command
  iResult,   \* RESULT_SUCCESS or not
  mbx,       \* the mailboxes (out, in) that the master uses: "std", "boot", "none"
  output,    \* the file it leaves: <<>>, or <<word>>
  \* the slaves, external
  al,        \* AL state
  sm,        \* mailboxes (in, out) as programmed in SM0 and SM1
  fw,        \* firmware: the axis of its file, or Torn
  par,       \* parameters: the axis of their file, or Torn
  word,      \* the error-clear word of each axis
  readable,  \* the firmware files that can be read
  \* history
  stored,    \* downloads that were complete since the click
  clicked,   \* values written to the error-clear word since the click
  before,    \* faults when the button was pressed
  faults     \* faults so far

gui == <<button, axis, script, iGetValue, msg, clicks>>
run == <<pc, cmd, iResult, mbx, output>>
slaves == <<al, sm, fw, par, word, readable>>
history == <<stored, clicked, before, faults>>
vars == <<gui, run, slaves, history>>

Own(b) == [low |-> "own", bit7 |-> b, high |-> "own"]
Std == <<"std", "std">>
Boot == <<"boot", "boot">>

Init ==
    /\ button = "none" /\ axis \in Axes /\ script = <<>>
    /\ iGetValue = Ones /\ msg = "none" /\ clicks = 0
    /\ pc = "none" /\ cmd = Plain("none", 1) /\ iResult = FALSE
    /\ mbx = <<"none", "none">> /\ output = <<>>
    /\ al = [s \in Axes |-> "INIT"] /\ sm = [s \in Axes |-> <<"none", "none">>]
    /\ fw = [s \in Axes |-> s] /\ par = [s \in Axes |-> s]
    /\ word \in [Axes -> {Own(TRUE), Own(FALSE)}]
    /\ readable \in SUBSET Axes
    /\ stored = <<>> /\ clicked = <<>> /\ before = 0 /\ faults = 0

\* A call goes wrong.
Fault == faults < MaxFaults /\ faults' = faults + 1
NoFault == UNCHANGED faults

-------------------------------------------------------------------------------
(* The GUI *)

getErrCode_All == <<Plain("g", AXIS_DRIVING), Plain("g", AXIS_DRIVING),
                    Plain("g", AXIS_HOIST), Plain("g", AXIS_SLIDE)>>
chkFirm_version == <<Plain("v", AXIS_DRIVING), Plain("v", AXIS_HOIST),
                     Plain("v", AXIS_SLIDE)>>

\* Every axis' firmware and parameters go to slave 1.
FirmwareNew == <<Cmd("f", 1, AXIS_DRIVING, "none"), Plain("r", AXIS_DRIVING),
                 Cmd("f", 1, AXIS_HOIST, "none"),   Plain("r", AXIS_HOIST),
                 Cmd("f", 1, AXIS_SLIDE, "none"),   Plain("r", AXIS_SLIDE)>>
               \o chkFirm_version \o getErrCode_All
Parameter(a) == <<Cmd("p", 1, a, "none"), Plain("r", a)>> \o getErrCode_All

ErrorClear(a) == <<Cmd("g", a, 0, "get"), Cmd("e", a, 0, "and"), Cmd("e", a, 0, "or")>>
EncoderReset(a) == <<Plain("s", a)>>
                   \o (IF a = AXIS_DRIVING THEN <<>> ELSE getErrCode_All)
Extraction == <<Plain("x", 1)>> \o getErrCode_All

Scripts(b, a) == CASE b = "firmware"  -> FirmwareNew
                   [] b = "parameter" -> Parameter(a)
                   [] b = "clear"     -> ErrorClear(a)
                   [] b = "encoder"   -> EncoderReset(a)
                   [] b = "extract"   -> Extraction

Click(b, a) ==
    /\ button = "none" /\ clicks < MaxClicks
    /\ b \in {"firmware", "extract"} => a = AXIS_DRIVING
    /\ button' = b /\ axis' = a /\ script' = Scripts(b, a)
    /\ iGetValue' = Ones /\ msg' = "none" /\ clicks' = clicks + 1
    /\ stored' = <<>> /\ clicked' = <<>> /\ before' = faults
    /\ UNCHANGED <<run, slaves, faults>>

\* Variant: the mask clears bit 0 to 6 too.
Masked_All(op) ==
    CASE op = "and" -> Zero
      [] op = "or" -> [iGetValue EXCEPT !.bit7 = TRUE]
      [] op \notin {"and", "or"} -> iGetValue

\* The masks are 127 and 128, in 16 bits.
Masked(op) ==
    CASE op = "and" -> [iGetValue EXCEPT !.bit7 = FALSE, !.high = "zero"]
      [] op = "or" -> [iGetValue EXCEPT !.bit7 = TRUE]
      [] op \notin {"and", "or"} -> iGetValue

\* A run of firm_update begins, and leaves its output file empty.
Run ==
    /\ pc = "none" /\ script # <<>>
    /\ cmd' = Head(script)
    /\ iGetValue' = Masked(cmd'.op)
    /\ script' = Tail(script)
    /\ pc' = "config" /\ iResult' = FALSE /\ output' = <<>>
    /\ UNCHANGED <<button, axis, msg, clicks, mbx, slaves, history>>

\* A download that fails ends the update, a parameter file that is refused its
\* reset; versions and error codes follow.
Rest == IF cmd.fn = "f" /\ ~iResult THEN chkFirm_version \o getErrCode_All
        ELSE IF cmd.fn = "p" /\ ~iResult THEN Tail(script) ELSE script

\* What the user is told depends on these runs.
Judged == {"f", "p", "s", "x"}

\* The GUI takes the exit status, and reads the output file.
Exited ==
    /\ pc = "exit"
    /\ script' = Rest
    /\ iGetValue' = IF cmd.op = "get" /\ output # <<>> THEN output[1] ELSE iGetValue
    /\ msg' = IF cmd.fn \notin Judged THEN msg
              ELSE IF iResult /\ msg # "fail" THEN "ok" ELSE "fail"
    /\ pc' = "none"
    /\ UNCHANGED <<button, axis, clicks, cmd, iResult, mbx, output, slaves, history>>

HandlerReturns ==
    /\ pc = "none" /\ button # "none" /\ script = <<>>
    /\ button' = "none"
    /\ UNCHANGED <<axis, script, iGetValue, msg, clicks, run, slaves, history>>

-------------------------------------------------------------------------------
(* The common part of a run *)

\* What follows the configuration, by the option.
Dispatch(fn) == CASE fn = "f" -> "init"
                  [] fn = "e" -> "safeop"
                  [] fn \in {"v", "g", "s", "r", "x", "p"} -> "preop"

ConfigFails ==
    /\ pc = "config"
    /\ Fault
    /\ pc' = "exit"
    /\ UNCHANGED <<gui, cmd, iResult, mbx, output, slaves, stored, clicked, before>>

\* ec_config_init: INIT, the standard mailboxes, PRE_OP; a slave may get stuck.
Config ==
    /\ pc = "config"
    /\ \/ al' = [s \in Axes |-> "PREOP"] /\ NoFault
       \/ \E s \in Axes : al' = [t \in Axes |-> IF t = s THEN "INIT" ELSE "PREOP"] /\ Fault
    /\ sm' = [s \in Axes |-> Std] /\ mbx' = Std
    /\ pc' = Dispatch(cmd.fn)
    /\ UNCHANGED <<gui, cmd, iResult, output, fw, par, word, readable, stored, clicked,
                   before>>

\* writestate and statecheck of PRE_OP; without it there is no work.
RequestPreop ==
    /\ pc = "preop"
    /\ \/ al' = [al EXCEPT ![cmd.slave] = "PREOP"] /\ pc' = "work" /\ NoFault
       \/ UNCHANGED al /\ pc' = "exit" /\ Fault
    /\ UNCHANGED <<gui, cmd, iResult, mbx, output, sm, fw, par, word, readable, stored,
                   clicked, before>>

\* The work is over; its result does not depend on the calls that did it.
Finish == pc' = "exit" /\ iResult' = TRUE

-------------------------------------------------------------------------------
(* /v /g /s /r /x /p: readVer, readCommon, writeCommon, resettest,             *)
(* param_extract, param_update                                                 *)

\* A read that fails leaves the local variable, which is 0.
Read ==
    /\ pc = "work" /\ cmd.fn \in {"v", "g", "x"}
    /\ \/ output' = <<word[cmd.slave]>> /\ Finish /\ NoFault
       \/ output' = <<Zero>> /\ Finish /\ Fault
    /\ UNCHANGED <<gui, cmd, mbx, slaves, stored, clicked, before>>

Write ==
    /\ pc = "work" /\ cmd.fn = "s"
    /\ Finish /\ (NoFault \/ Fault)
    /\ UNCHANGED <<gui, cmd, mbx, output, slaves, stored, clicked, before>>

\* The controller restarts.
Reset ==
    /\ pc = "work" /\ cmd.fn = "r"
    /\ \/ /\ al' = [al EXCEPT ![cmd.slave] = "INIT"]
          /\ sm' = [sm EXCEPT ![cmd.slave] = <<"none", "none">>]
          /\ Finish /\ NoFault
       \/ UNCHANGED <<al, sm>> /\ Finish /\ Fault
    /\ UNCHANGED <<gui, cmd, mbx, output, fw, par, word, readable, stored, clicked, before>>

\* param_download_to_motion, see module ParamDownload.
Parameters ==
    /\ pc = "work" /\ cmd.fn = "p"
    /\ \/ par' = [par EXCEPT ![cmd.slave] = cmd.file] /\ Finish /\ NoFault
       \/ par' = [par EXCEPT ![cmd.slave] = Torn] /\ Finish /\ Fault
    /\ UNCHANGED <<gui, cmd, mbx, output, al, sm, fw, word, readable, stored, clicked, before>>

-------------------------------------------------------------------------------
(* /e: writeSafeOp *)

\* config_map and configdc; statecheck(0, SAFE_OP), the result of which is not used.
RequestSafeop ==
    /\ pc = "safeop"
    /\ \/ al' = [s \in Axes |-> IF al[s] = "PREOP" THEN "SAFEOP" ELSE al[s]] /\ NoFault
       \/ UNCHANGED al /\ Fault
    /\ pc' = "write"
    /\ UNCHANGED <<gui, cmd, iResult, mbx, output, sm, fw, par, word, readable, stored,
                   clicked, before>>

\* The mailbox does not work in INIT.  All slaves are set to INIT then.
WriteSafeOp ==
    /\ pc = "write"
    /\ IF al[cmd.slave] = "INIT" THEN UNCHANGED <<word, clicked>> /\ Finish /\ NoFault
       ELSE \/ /\ word' = [word EXCEPT ![cmd.slave] = iGetValue]
               /\ clicked' = Append(clicked, iGetValue)
               /\ Finish /\ NoFault
            \/ UNCHANGED <<word, clicked>> /\ Finish /\ Fault
    /\ al' = [s \in Axes |-> "INIT"]
    /\ UNCHANGED <<gui, cmd, mbx, output, sm, fw, par, readable, stored, before>>

-------------------------------------------------------------------------------
(* /f: boottest *)

\* Variant: BOOT is requested from the state of the configuration.
RequestInit_Skip ==
    /\ pc = "init" /\ pc' = "eeprom"
    /\ UNCHANGED <<gui, cmd, iResult, mbx, output, slaves, history>>

\* The result of the state check is not used.
RequestInit ==
    /\ pc = "init"
    /\ \/ al' = [al EXCEPT ![cmd.slave] = "INIT"] /\ NoFault
       \/ UNCHANGED al /\ Fault
    /\ pc' = "eeprom"
    /\ UNCHANGED <<gui, cmd, iResult, mbx, output, sm, fw, par, word, readable, stored,
                   clicked, before>>

\* The two boot mailboxes are read from the EEPROM; one that cannot be is 0.
ReadBootMailbox ==
    /\ pc = "eeprom"
    /\ \/ mbx' = Boot /\ NoFault
       \/ mbx' \in {<<"none", "boot">>, <<"boot", "none">>} /\ Fault
    /\ pc' = "program"
    /\ UNCHANGED <<gui, cmd, iResult, output, slaves, stored, clicked, before>>

\* Their FPWR to SM0 and SM1; neither result is used.
ProgramMailbox ==
    /\ pc = "program"
    /\ \/ sm' = [sm EXCEPT ![cmd.slave] = mbx] /\ NoFault
       \/ \E i \in {1, 2} : sm' = [sm EXCEPT ![cmd.slave][i] = mbx[i]] /\ Fault
    /\ pc' = "boot"
    /\ UNCHANGED <<gui, cmd, iResult, mbx, output, al, fw, par, word, readable, stored,
                   clicked, before>>

\* External: a slave enters BOOT from INIT, with the mailboxes of its EEPROM.
EntersBoot(s) == al[s] = "INIT" /\ sm[s] = Boot

\* Variant: the download follows whether the slave is in BOOT or not.
RequestBoot_Anyway ==
    /\ pc = "boot"
    /\ IF EntersBoot(cmd.slave) THEN al' = [al EXCEPT ![cmd.slave] = "BOOT"]
                                ELSE UNCHANGED al
    /\ pc' = "download" /\ NoFault
    /\ UNCHANGED <<gui, cmd, iResult, mbx, output, sm, fw, par, word, readable, stored,
                   clicked, before>>

\* writestate, and statecheck, which may miss the state.
RequestBoot ==
    /\ pc = "boot"
    /\ \/ /\ EntersBoot(cmd.slave) /\ NoFault
          /\ al' = [al EXCEPT ![cmd.slave] = "BOOT"] /\ pc' = "download"
       \/ ~EntersBoot(cmd.slave) /\ NoFault /\ UNCHANGED al /\ pc' = "exit"
       \/ /\ Fault /\ pc' = "exit"
          /\ al' \in {al, [al EXCEPT ![cmd.slave] = IF EntersBoot(cmd.slave) THEN "BOOT" ELSE @]}
    /\ UNCHANGED <<gui, cmd, iResult, mbx, output, sm, fw, par, word, readable, stored,
                   clicked, before>>

NoFile ==
    /\ pc = "download" /\ cmd.file \notin readable
    /\ pc' = "exit"
    /\ UNCHANGED <<gui, cmd, iResult, mbx, output, slaves, history>>

\* Variant: the result of the download is not used.
FOEwrite_Anyway ==
    /\ pc = "download" /\ cmd.file \in readable
    /\ iResult' = TRUE
    /\ \/ /\ fw' = [fw EXCEPT ![cmd.slave] = cmd.file] /\ stored' = Append(stored, cmd.file)
          /\ NoFault
       \/ /\ fw' \in {fw, [fw EXCEPT ![cmd.slave] = Torn]}
          /\ UNCHANGED stored /\ Fault
    /\ pc' = "leave"
    /\ UNCHANGED <<gui, cmd, mbx, output, al, sm, par, word, readable, clicked, before>>

\* ec_FOEwrite: what fails may be complete all the same.
FOEwrite ==
    /\ pc = "download" /\ cmd.file \in readable
    /\ \/ /\ fw' = [fw EXCEPT ![cmd.slave] = cmd.file]
          /\ stored' = Append(stored, cmd.file)
          /\ iResult' = TRUE /\ NoFault
       \/ /\ \E f \in {fw[cmd.slave], Torn, cmd.file} : fw' = [fw EXCEPT ![cmd.slave] = f]
          /\ UNCHANGED <<iResult, stored>> /\ Fault
    /\ pc' = "leave"
    /\ UNCHANGED <<gui, cmd, mbx, output, al, sm, par, word, readable, clicked, before>>

\* INIT is requested, and not waited for.
LeaveBoot ==
    /\ pc = "leave"
    /\ \/ al' = [al EXCEPT ![cmd.slave] = "INIT"] /\ NoFault
       \/ UNCHANGED al /\ Fault
    /\ pc' = "exit"
    /\ UNCHANGED <<gui, cmd, iResult, mbx, output, sm, fw, par, word, readable, stored,
                   clicked, before>>

Gui == \/ \E b \in {"firmware", "parameter", "clear", "encoder", "extract"}, a \in Axes :
             Click(b, a)
       \/ Run \/ Exited \/ HandlerReturns
Work == Read \/ Write \/ Reset \/ Parameters
Boottest == \/ RequestInit \/ ReadBootMailbox \/ ProgramMailbox \/ RequestBoot
            \/ NoFile \/ FOEwrite \/ LeaveBoot

Next == Gui \/ ConfigFails \/ Config \/ RequestPreop \/ Work
        \/ RequestSafeop \/ WriteSafeOp \/ Boottest

Spec == Init /\ [][Next]_vars

-------------------------------------------------------------------------------
TypeOK ==
    /\ button \in {"none", "firmware", "parameter", "clear", "encoder", "extract"}
    /\ axis \in Axes /\ iGetValue \in Word /\ msg \in {"none", "ok", "fail"}
    /\ clicks \in 0 .. MaxClicks /\ faults \in 0 .. MaxFaults
    /\ pc \in {"none", "config", "preop", "work", "exit", "safeop", "write", "init",
              "eeprom", "program", "boot", "download", "leave"}
    /\ pc = "work" => cmd.fn \in {"v", "g", "s", "r", "x", "p"}
    /\ pc \in {"safeop", "write"} => cmd.fn = "e"
    /\ iResult \in BOOLEAN /\ before \in 0 .. faults
    /\ output = <<>> \/ output[1] \in Word
    /\ al \in [Axes -> {"INIT", "PREOP", "SAFEOP", "BOOT"}]
    /\ fw \in [Axes -> Axes \cup {Torn}] /\ par \in [Axes -> Axes \cup {Torn}]
    /\ word \in [Axes -> Word]

\* A download runs only when the slave is in BOOT and the master uses the
\* mailboxes the slave has, though no EEPROM read, no FPWR and no state check
\* before the last is looked at.
BootMailboxAgrees ==
    pc = "download" => /\ al[cmd.slave] = "BOOT"
                       /\ mbx = Boot /\ sm[cmd.slave] = mbx

\* The firmware files are downloaded in order and none after one that failed.
InOrder == \E n \in 0 .. 3 : stored = SubSeq(<<AXIS_DRIVING, AXIS_HOIST, AXIS_SLIDE>>, 1, n)

\* The process that runs, and what the GUI has made it do since the click.
Inv == TypeOK /\ InOrder

Finished(b) == button = b /\ script = <<>> /\ pc = "none"

\* "Running Ok" after a firmware update: every file has arrived as a whole, and
\* the slave they were all sent to has the last of them.
OkMeansStored ==
    Finished("firmware") /\ msg = "ok" => Len(stored) = 3 /\ fw[1] = stored[3]

\* A button pressed again after an attempt that failed at any place does its work
\* when nothing fails this time: it is not hindered by states and mailboxes that
\* the slaves were left in, and the user is not told of the earlier failure.
SecondTrySucceeds ==
    /\ faults = before /\ readable = Axes => msg # "fail"
    /\ Finished("firmware") /\ faults = before /\ readable = Axes =>
          msg = "ok" /\ Len(stored) = 3
    /\ Finished("parameter") /\ faults = before => msg = "ok" /\ par[1] = axis

\* When nothing fails the error-clear button gives bit 7 of the word of its axis
\* a rising edge and writes bits 0 to 6 back as they were read; the words of the
\* other axes are not written.
ClearIsPulse ==
    Finished("clear") /\ faults = 0 =>
       /\ Len(clicked) = 2 /\ ~clicked[1].bit7 /\ clicked[2].bit7
       /\ clicked[1].low = "own" /\ clicked[2].low = "own"
       /\ word[axis] = clicked[2]
===============================================================================
