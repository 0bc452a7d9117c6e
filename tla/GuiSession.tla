----------------------------- MODULE GuiSession -----------------------------
(* The update application from its start to its end: the constructor of         *)
(* update_uiFrame looks for its files and for a running EC-Master, opens the    *)
(* two network ports, reads the versions and the error codes of the axes with   *)
(* runs of firm_update, and the destructor closes the ports.  Nothing keeps a   *)
(* second application from being started: both work in one directory, on files  *)
(* of the same names, and on the same ports.                                    *)
(*                                                                              *)
(* A failure of anything outside is a mishap; at most MaxMishaps happen, and    *)
(* the applications take turns at most MaxSwitches times.  What the buttons do  *)
(* is in UpdateTool.                                                            *)
EXTENDS IniFile

CONSTANTS Sessions,    \* applications
          IniFiles,    \* what may be in file_version.ini, sequences of lines
          WholeIni,    \* the one as it should be
          MaxMishaps,  \* bound
          MaxSwitches  \* bound: how often another application goes on than did before

Axes == 1 .. 3          \* driving, hoist, slide
Codes == 1 .. 4         \* driving front and rear, hoist, slide
Texts == {<<"NEW_FIRMWARE", a>> : a \in Axes} \cup {<<"PARAMETER", a>> : a \in Axes}

VARIABLES
  gui,     \* each application: its place and its variables
  disk,    \* the files that the applications share
  host,    \* ports, link, other programs
  seen,    \* history of each application
  turn     \* which application went on last, how often that was another one

vars == <<gui, disk, host, seen, turn>>

\* In place of an axis or an object:
None == -1      \* nothing in the file, or not initialised
Garbage == 0    \* of no axis; as an error code, 0
Blank == 10     \* a text that was not set
Err == 11       \* "ERR", "READ ERR"

\* buffer is chkFirm_version's cBuffer, later iGetValue; named what FILE_LOCATION holds.
\* found and net02, net03 are the results of ecmaster_process_find and network_check.
Fresh == [pc |-> "off", k |-> 1, success |-> FALSE, found |-> FALSE, net02 |-> FALSE,
          net03 |-> FALSE, buffer |-> None, named |-> [t \in Texts |-> <<>>],
          marks |-> {}, versions |-> [a \in Axes |-> Blank], codes |-> [c \in Codes |-> Blank]]
\* running: EC-Master was there when ps looked.  late: grep was not yet; crowd: lines
\* of another application.  mixed: another application wrote a shared file between a
\* write and a read of this one.  misread: an SDO read of a run failed.  lost: a port
\* was not opened, or closed by another application.
NothingSeen == [running |-> FALSE, late |-> FALSE, crowd |-> 0, mixed |-> FALSE,
                misread |-> FALSE, lost |-> FALSE]

Init ==
    /\ gui = [s \in Sessions |-> Fresh]
    /\ \E present \in SUBSET {"firm_update", "file_version.ini"}, ini \in IniFiles,
          ports \in SUBSET {"02", "03"}, ecmaster \in BOOLEAN :
        /\ disk = [present |-> present, ini |-> ini, ps |-> 0, version |-> Garbage, common |-> Garbage]
        /\ host = [bound |-> ports, up |-> FALSE, ecmaster |-> ecmaster, executable |-> FALSE,
                   mishaps |-> (IF ini = WholeIni THEN 0 ELSE 1)
                               + (IF Cardinality(present) = 2 THEN 0 ELSE 1)]
        /\ host.mishaps <= MaxMishaps
    /\ seen = [s \in Sessions |-> NothingSeen]
    /\ turn \in [who : Sessions, switches : {0}]

At(s, label) == gui[s].pc = label
Goto(s, label) == gui' = [gui EXCEPT ![s].pc = label]
Mishap == host.mishaps < MaxMishaps /\ host' = [host EXCEPT !.mishaps = @ + 1]

\* What the other applications are in the middle of is mixed up by a write of s.
Reading == {"list", "count", "versionRuns", "readVersion", "codeRuns", "readCode"}
Writes(s) == [t \in Sessions |->
    IF t # s /\ gui[t].pc \in Reading THEN [seen[t] EXCEPT !.mixed = TRUE] ELSE seen[t]]

-------------------------------------------------------------------------------
(* The constructor: files, EC-Master, ports *)

\* chkFileExist_firm_update; chmod 755.
Open(s) ==
    /\ At(s, "off") /\ Goto(s, "ini")
    /\ host' = [host EXCEPT !.executable = @ \/ "firm_update" \in disk.present]
    /\ UNCHANGED <<disk, seen>>

\* chkFileExist_firm_version; load_version_info does not look at the result of Load.
load_version_info(s) ==
    /\ At(s, "ini")
    /\ gui' = [gui EXCEPT ![s].pc = "ps", ![s].named =
                 IF "file_version.ini" \in disk.present
                 THEN LET file == ParseStream(disk.ini)
                      IN [t \in Texts |-> GetValue(file, t[1], t[2])]
                 ELSE [t \in Texts |-> <<>>]]
    /\ UNCHANGED <<disk, host, seen>>

\* ecmaster_process_find: the shell empties ps_list.txt, and starts ps and grep.
ListBegins(s) ==
    /\ At(s, "ps") /\ Goto(s, "list")
    /\ disk' = [disk EXCEPT !.ps = 0]
    /\ seen' = Writes(s)
    /\ UNCHANGED host

\* What ps lists that holds the word "ecmaster": the shell, grep unless it is late,
\* EC-Master, and the shells and greps of the other applications.
ListEnds(s) ==
    /\ At(s, "list") /\ Goto(s, "count")
    /\ \E late \in BOOLEAN :
        LET crowd == 2 * Cardinality({t \in Sessions \ {s} : At(t, "list")})
        IN /\ IF late THEN Mishap ELSE UNCHANGED host
           /\ disk' = [disk EXCEPT !.ps = 1 + (IF late THEN 0 ELSE 1)
                                           + (IF host.ecmaster THEN 1 ELSE 0) + crowd]
           /\ seen' = [Writes(s) EXCEPT ![s].running = host.ecmaster, ![s].late = late,
                                        ![s].crowd = crowd]

\* iProcessLineCnt < 3: the shell and grep, and no EC-Master.
Found(lines) == ~(lines < 3)

\* With EC-Master running, a message and exit(-1), which closes no port.
Count(s) ==
    /\ At(s, "count")
    /\ gui' = [gui EXCEPT ![s].found = Found(disk.ps),
                          ![s].pc = IF Found(disk.ps) THEN "gone" ELSE "check"]
    /\ UNCHANGED <<disk, host, seen>>

network_check(s) ==
    /\ At(s, "check")
    /\ gui' = [gui EXCEPT ![s].pc = "bind02", ![s].net02 = "02" \in host.bound,
                          ![s].net03 = "03" \in host.bound]
    /\ seen' = [seen EXCEPT ![s].lost = FALSE]
    /\ UNCHANGED <<disk, host>>

\* network_bind_command, for a port that was not there; its result is not looked at.
Bind(s, port, there) ==
    \/ /\ there /\ UNCHANGED <<host, seen>>
    \/ /\ ~there /\ host' = [host EXCEPT !.bound = @ \cup {port}] /\ UNCHANGED seen
    \/ /\ ~there /\ port \notin host.bound /\ Mishap
       /\ seen' = [seen EXCEPT ![s].lost = TRUE]
Bind02(s) == /\ At(s, "bind02") /\ Goto(s, "bind03") /\ UNCHANGED disk
             /\ Bind(s, "02", gui[s].net02)
Bind03(s) == /\ At(s, "bind03") /\ Goto(s, "up") /\ UNCHANGED disk
             /\ Bind(s, "03", gui[s].net03)

\* ip link set enp2s0 up: the first port, when it is there.
network_manager_command(s) ==
    /\ At(s, "up")
    /\ Goto(s, IF "firm_update" \in disk.present THEN "version" ELSE "marks")
    /\ host' = [host EXCEPT !.up = "02" \in host.bound]
    /\ UNCHANGED <<disk, seen>>

-------------------------------------------------------------------------------
(* Runs of firm_update for versions and error codes *)

\* The run empties its output file; the shell cannot start what is no program.
RunBegins(s, at, runs, read, file) ==
    /\ At(s, at)
    /\ \/ /\ host.executable /\ Goto(s, runs)
          /\ disk' = [disk EXCEPT ![file] = None]
          /\ seen' = Writes(s)
       \/ /\ ~host.executable
          /\ gui' = [gui EXCEPT ![s].pc = read, ![s].success = FALSE]
          /\ UNCHANGED <<disk, seen>>
    /\ UNCHANGED host

\* It fails without the port, and when the network fails.  A failed SDO read is none:
\* what the variable held before is written, bad.
RunEnds(s, runs, read, file, bad) ==
    /\ At(s, runs)
    /\ LET Ends(success, text) ==
             /\ gui' = [gui EXCEPT ![s].pc = read, ![s].success = success]
             /\ disk' = [disk EXCEPT ![file] = text]
       IN \/ /\ host.up /\ Ends(TRUE, gui[s].k) /\ seen' = Writes(s) /\ UNCHANGED host
          \/ /\ ~host.up /\ Ends(FALSE, None) /\ seen' = Writes(s) /\ UNCHANGED host
          \/ /\ host.up /\ Mishap /\ Ends(FALSE, None) /\ seen' = Writes(s)
          \/ /\ host.up /\ Mishap /\ \E text \in bad : Ends(TRUE, text)
             /\ seen' = [Writes(s) EXCEPT ![s].misread = TRUE]

VersionBegins(s) == RunBegins(s, "version", "versionRuns", "readVersion", "version")
\* fwVer is not initialised: it may be no text at all.
VersionEnds(s) == RunEnds(s, "versionRuns", "readVersion", "version", {None, Garbage})

\* Variant: the file is read whatever the run returned.
Shown_Always(s) ==
    IF disk.version = None THEN gui[s].buffer ELSE disk.version
\* fscanf leaves the buffer as it was when there is nothing in the file.
Shown(s) ==
    IF ~gui[s].success THEN Err
    ELSE IF disk.version = None THEN gui[s].buffer ELSE disk.version

ReadVersion(s) ==
    /\ At(s, "readVersion")
    /\ gui' = [gui EXCEPT
                 ![s].versions[gui[s].k] = Shown(s),
                 ![s].buffer = IF gui[s].success /\ disk.version # None
                               THEN disk.version ELSE @,
                 ![s].k = IF @ = 3 THEN 1 ELSE @ + 1,
                 ![s].pc = IF gui[s].k = 3 THEN "marks" ELSE "version"]
    /\ UNCHANGED <<disk, host, seen>>

\* chkFileExist_firmware_new, chkFileExist_param: the files of the names that the
\* whole file has are there.
Marks(s) ==
    /\ At(s, "marks")
    /\ gui' = [gui EXCEPT ![s].pc = "code", ![s].buffer = None, ![s].marks =
                 {t \in Texts : gui[s].named[t] = GetValue(ParseStream(WholeIni), t[1], t[2])}]
    /\ UNCHANGED <<disk, host, seen>>

CodeBegins(s) == RunBegins(s, "code", "codeRuns", "readCode", "common")
\* The variables of readCommon begin with 0.
CodeEnds(s) == RunEnds(s, "codeRuns", "readCode", "common", {Garbage})

\* GetCommon, getErrCode_DrvFront to getErrCode_Slide: the file is read in any case,
\* iGetValue is shown when the run succeeded.  buffer is iGetValue here.
ReadCode(s) ==
    /\ At(s, "readCode")
    /\ LET value == IF disk.common = None THEN gui[s].buffer ELSE disk.common
       IN gui' = [gui EXCEPT
                    ![s].codes[gui[s].k] = IF gui[s].success THEN value ELSE Err,
                    ![s].buffer = value,
                    ![s].k = IF @ = 4 THEN 1 ELSE @ + 1,
                    ![s].pc = IF gui[s].k = 4 THEN "ready" ELSE "code"]
    /\ UNCHANGED <<disk, host, seen>>

-------------------------------------------------------------------------------
(* The destructor *)

\* network_unbind_command, whoever else uses the port; a port that is not there stays
\* away.
Close(s, at, port, next) ==
    /\ At(s, at) /\ Goto(s, next)
    /\ host' = [host EXCEPT !.bound = @ \ {port}, !.up = @ /\ port # "02"]
    /\ seen' = [t \in Sessions |-> IF t = s THEN seen[t] ELSE [seen[t] EXCEPT !.lost = TRUE]]
    /\ UNCHANGED disk
CloseFirst(s) == Close(s, "ready", "02", "close03")
CloseSecond(s) == Close(s, "close03", "03", "down")

\* The link is set up here too.
CloseLink(s) ==
    /\ At(s, "down") /\ Goto(s, "closed")
    /\ host' = [host EXCEPT !.up = "02" \in host.bound]
    /\ UNCHANGED <<disk, seen>>

-------------------------------------------------------------------------------
\* EC-Master is started or ends, external.
EcMaster ==
    /\ host.mishaps < MaxMishaps
    /\ host' = [host EXCEPT !.ecmaster = ~@, !.mishaps = @ + 1]
    /\ UNCHANGED <<gui, disk, seen, turn>>

Turn(s) ==
    /\ turn.who # s => turn.switches < MaxSwitches
    /\ turn' = [who |-> s, switches |-> turn.switches + (IF turn.who = s THEN 0 ELSE 1)]

Next ==
    \/ EcMaster
    \/ \E s \in Sessions : Turn(s) /\
        \/ Open(s) \/ load_version_info(s)
        \/ ListBegins(s) \/ ListEnds(s) \/ Count(s)
        \/ network_check(s) \/ Bind02(s) \/ Bind03(s) \/ network_manager_command(s)
        \/ VersionBegins(s) \/ VersionEnds(s) \/ ReadVersion(s) \/ Marks(s)
        \/ CodeBegins(s) \/ CodeEnds(s) \/ ReadCode(s)
        \/ CloseFirst(s) \/ CloseSecond(s) \/ CloseLink(s)

Spec == Init /\ [][Next]_vars

-------------------------------------------------------------------------------
\* What is shown beside an axis was read from that axis, or is an error, unless a read
\* failed or another application wrote the files meanwhile.
TextsAreOwn ==
    \A s \in Sessions : seen[s].mixed \/ seen[s].misread \/
        /\ \A a \in Axes : gui[s].versions[a] \in {Blank, Err, a}
        /\ \A c \in Codes : gui[s].codes[c] \in {Blank, Err, c}

\* A failed read shows as code 0, "no error", never as the code of another object.
CodeOrNone ==
    \A s \in Sessions : ~seen[s].mixed =>
        \A c \in Codes : gui[s].codes[c] \in {Blank, Err, c, Garbage}

\* Once opened the ports are there and up, unless a bind failed or another application
\* has closed them.
Working == {"version", "versionRuns", "readVersion", "marks", "code", "codeRuns",
            "readCode", "ready"}
PortsAreOpen ==
    \A s \in Sessions : gui[s].pc \in Working /\ ~seen[s].lost =>
        host.bound = {"02", "03"} /\ host.up

\* The application gives up for a running EC-Master, and only for one, unless grep was
\* late or another application was listing.
EcMasterIsSeen ==
    \A s \in Sessions : gui[s].pc \in Working \cup {"gone"} /\ ~seen[s].mixed =>
        /\ gui[s].pc = "gone" => seen[s].running \/ seen[s].crowd > 0
        /\ gui[s].pc # "gone" => ~seen[s].running \/ seen[s].late

\* The names of the files are read as they are written.
NamesAreRead ==
    \A s \in Sessions : At(s, "ps") /\ "file_version.ini" \in disk.present =>
        \A t \in Texts :
            /\ gui[s].named[t] = GetValue(ParseStream(disk.ini), t[1], t[2])
            /\ ReadsAsWritten(disk.ini, t[1], t[2])

SessionSound == TextsAreOwn /\ CodeOrNone /\ PortsAreOpen /\ EcMasterIsSeen /\ NamesAreRead
===============================================================================
