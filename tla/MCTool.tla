--------------------------------- MODULE MCTool ---------------------------------
(* The parts of the tool: the GUI from its start to its end, its buttons with    *)
(* the runs of firm_update they start, and one such run in detail, that which   *)
(* downloads the parameters.  A behaviour is about one of them.                 *)
EXTENDS ParamDownload, TLC

CONSTANTS MaxFaults, MaxClicks, Sessions, MaxMishaps, MaxSwitches

ASSUME BoundAssumption == {MaxFaults, MaxClicks, MaxMishaps, MaxSwitches} \subseteq Nat

VARIABLES
  which,    \* "parameters", "buttons" or "session"
  button, axis, script, iGetValue, msg, clicks, run, cmd, iResult, mbx, output,
  al, sm, fw, par, word, readable, loaded, clicked, before, faults,
  gui, disk, host, seen, turn

UT == INSTANCE UpdateTool WITH pc <- run, stored <- loaded

\* file_version.ini, and what may become of it: a line goes on with the next, is
\* neither entry nor section, is empty, or is there twice.
I == INSTANCE IniFile
WholeIni ==
    <<I!Line("section", "NEW_FIRMWARE", "[NEW_FIRMWARE]")>>
    \o [a \in 1 .. 3 |-> I!Line("entry", a, <<"f1", "f2", "f3">>[a])]
    \o <<I!Line("empty", "", ""), I!Line("section", "PARAMETER", "[PARAMETER]")>>
    \o [a \in 1 .. 3 |-> I!Line("entry", a, <<"p1", "p2", "p3">>[a])]
Damaged ==
    {[WholeIni EXCEPT ![n] = I!Continued(@)] : n \in {2, 3, 4, 7, 8, 9}}
    \cup {[WholeIni EXCEPT ![n].kind = "error"] : n \in {2, 3, 4, 6, 7, 8, 9}}
    \cup {[WholeIni EXCEPT ![n].kind = "empty"] : n \in {2, 6, 7}}
    \cup {[WholeIni EXCEPT ![n] = WholeIni[2]] : n \in {3, 9}}

GS == INSTANCE GuiSession WITH IniFiles <- Damaged \cup {WholeIni}

toolVars == <<button, axis, script, iGetValue, msg, clicks, run, cmd, iResult, mbx,
              output, al, sm, fw, par, word, readable, loaded, clicked, before, faults>>
sessionVars == <<gui, disk, host, seen, turn>>

\* The parts that a behaviour is not about.
NoParameters ==
    /\ params = 0 /\ pc = 0 /\ i = 0 /\ local = 0 /\ pre = 0 /\ check = 0 /\ log = 0
    /\ od = 0 /\ stored = 0 /\ od0 = 0 /\ failed = 0
NoButtons ==
    /\ button = 0 /\ axis = 0 /\ script = 0 /\ iGetValue = 0 /\ msg = 0 /\ clicks = 0
    /\ run = 0 /\ cmd = 0 /\ iResult = 0 /\ mbx = 0 /\ output = 0 /\ al = 0 /\ sm = 0
    /\ fw = 0 /\ par = 0 /\ word = 0 /\ readable = 0 /\ loaded = 0 /\ clicked = 0
    /\ before = 0 /\ faults = 0

NoSession == gui = 0 /\ disk = 0 /\ host = 0 /\ seen = 0 /\ turn = 0

\* Bound: a damaged file is tried with EC-Master running, where the application ends
\* soon after it has read the file.
SessionInit == GS!Init /\ (disk.ini # WholeIni => host.ecmaster)

ToolInit == \/ which = "parameters" /\ Init /\ NoButtons /\ NoSession
            \/ which = "buttons" /\ UT!Init /\ NoParameters /\ NoSession
            \/ which = "session" /\ SessionInit /\ NoParameters /\ NoButtons
ToolNext == /\ UNCHANGED which
            /\ \/ which = "parameters" /\ Next /\ UNCHANGED <<toolVars, sessionVars>>
               \/ which = "buttons" /\ UT!Next /\ UNCHANGED <<vars, sessionVars>>
               \/ which = "session" /\ GS!Next /\ UNCHANGED <<vars, toolVars>>
ToolSpec == ToolInit /\ [][ToolNext]_<<which, vars, toolVars, sessionVars>>

Symmetry == Permutations(Objects) \cup Permutations(Sessions)

\* What the log of a parameter download says is true.
LogIsTrue == which = "parameters" => Inv /\ LastLineStored /\ OkIsStable

\* Firmware is downloaded in BOOT, and over the mailboxes that both sides have.
BootMailboxAgrees == which = "buttons" => UT!BootMailboxAgrees

\* The firmware files are downloaded in order, and "Running Ok" means all of them.
OkMeansStored == which = "buttons" => UT!Inv /\ UT!OkMeansStored

\* What failed before does not hinder a second attempt.
SecondTrySucceeds == which = "buttons" => UT!SecondTrySucceeds

\* An error is cleared by a rising edge of one bit.
ClearIsPulse == which = "buttons" => UT!ClearIsPulse

\* What the application shows is of the axis it stands beside, its ports are open
\* while it works, and it does not work beside EC-Master.
SessionSound == which = "session" => GS!SessionSound
===============================================================================
