------------------------------- MODULE IniFile -------------------------------
(* INI::File of the update application: ParseStream takes a file line by line, *)
(* joins the lines that go on, and keeps sections of keys and values.  A line   *)
(* is reduced to what kind it is of, its key or section, its text, and whether  *)
(* it ends with a character that says that the next line continues it.          *)
(* Comments and inclusions are left out.                                        *)
EXTENDS Integers, Sequences, FiniteSets, SequencesExt

\* kind: "section", "entry", "empty", or "error" (neither of them).  What goes on
\* with the next line is an entry.
Line(kind, name, text) == [kind |-> kind, name |-> name, text |-> <<text>>, more |-> FALSE]
Continued(line) == [line EXCEPT !.more = TRUE]

NoLine == [kind |-> "none"]
NoSection == ""
Empty == [values |-> <<>>, cur |-> NoSection, prev |-> NoLine, failed |-> FALSE]

\* Two lines in one: of the kind and with the name of the first.
Joined(prev, line) ==
    IF prev = NoLine THEN line ELSE [prev EXCEPT !.text = @ \o line.text, !.more = FALSE]

\* SetValue: the last entry of a name counts.
SetValue(values, section, line) ==
    LET others == SelectSeq(values, LAMBDA v : <<v.section, v.key>> # <<section, line.name>>)
    IN Append(others, [section |-> section, key |-> line.name, text |-> line.text])

\* One line that is whole: a line that is neither ends the parsing.
Taken(file, line) ==
    CASE line.kind = "section" -> [file EXCEPT !.cur = line.name]
      [] line.kind = "entry"   -> [file EXCEPT !.values = SetValue(@, file.cur, line)]
      [] line.kind = "error"   -> [file EXCEPT !.failed = TRUE]

\* An empty line is passed over also between a line and its continuation, and what
\* is continued by nothing is lost.
ParseLine(file, line) ==
    IF file.failed \/ line.kind = "empty" THEN file
    ELSE IF line.more
         THEN [file EXCEPT !.prev = [Joined(file.prev, line) EXCEPT !.more = FALSE]]
         ELSE Taken([file EXCEPT !.prev = NoLine], Joined(file.prev, line))

ParseStream(lines) == FoldLeft(ParseLine, Empty, lines)

\* GetSection(section)->GetValue(key, -1): a section that is missing is created, and
\* a key that is missing has the value "-1".
GetValue(file, section, key) ==
    LET found == SelectSeq(file.values, LAMBDA v : v.section = section /\ v.key = key)
    IN IF found = <<>> THEN <<"-1">> ELSE found[1].text

-------------------------------------------------------------------------------
\* What a reader of the file expects.  The line stands for itself: no line is
\* joined to it.
Own(lines, i) ==
    \A j \in 1 .. i - 1 : lines[j].more =>
        \E k \in j + 1 .. i - 1 : lines[k].kind # "empty" /\ ~lines[k].more
Reached(lines, i) == \A j \in 1 .. i : lines[j].kind # "error"
SectionOf(lines, i) ==
    LET above == {j \in 1 .. i : lines[j].kind = "section" /\ Own(lines, j)}
    IN IF above = {} THEN NoSection ELSE lines[Max(above)].name
Named(lines, section, key) ==
    {i \in 1 .. Len(lines) : /\ lines[i].kind = "entry" /\ lines[i].name = key
                             /\ Own(lines, i) /\ Reached(lines, i)
                             /\ SectionOf(lines, i) = section}

\* The value of a key is the text of the last line of its section that names it and
\* stands for itself, above every line that is neither; with none it is "-1".
ReadsAsWritten(lines, section, key) ==
    LET got == GetValue(ParseStream(lines), section, key)
        named == Named(lines, section, key)
    IN /\ named = {} => got = <<"-1">>
       /\ named # {} => IF lines[Max(named)].more THEN got # <<>>
                        ELSE got = lines[Max(named)].text
===============================================================================
