------------------------------- MODULE Config -------------------------------
(***************************************************************************)
(* The reader of configuration files, parseIniStream of lib/utils/config.h *)
(* line by line, up to its callback.  A line is a sequence of characters   *)
(* without its newline; a carriage return stays.                           *)
(***************************************************************************)
EXTENDS Integers, Sequences, SequencesExt

CONSTANTS Files     \* files that may be read: their entries, and how those are laid out

VARIABLES
    file,              \* {} or the file being read
    lines,             \* its lines still to be read
    currentSection,
    calls              \* the calls of the callback

configVars == <<file, lines, currentSection, calls>>

Trim(str) ==
    LET kept == {i \in DOMAIN str : str[i] \notin {" ", "\t"}}
    IN  IF kept = {} THEN <<>> ELSE SubSeq(str, Min(kept), Max(kept))

\* The lines of a file: a comment, and an entry's section and its key and value.
Lines(f) ==
    LET Line(str) == f.indent \o str \o f.tail
        Entry(e) == <<Line(<<"[">> \o f.indent \o e.section \o f.indent \o <<"]">>),
                      Line(e.key \o f.indent \o <<"=">> \o f.indent \o e.value)>>
    IN  <<Line(<<>>), Line(<<"#", "a", "=">>)>> \o FlattenSeq([i \in DOMAIN f.entries |-> Entry(f.entries[i])])

ConfigInit == file = {} /\ lines = <<>> /\ currentSection = <<>> /\ calls = <<>>

Open(f) ==
    /\ file = {}
    /\ file' = {f} /\ lines' = Lines(f)
    /\ UNCHANGED <<currentSection, calls>>

Read(line) == lines # <<>> /\ line = Trim(Head(lines)) /\ lines' = Tail(lines) /\ UNCHANGED file

EqPos(line) == {i \in DOMAIN line : line[i] = "="}

\* Comments, empty lines and whatever is neither a section nor has a sign are ignored.
Kind(line) ==
    IF line = <<>> \/ line[1] = "#" THEN "ignored"
    ELSE IF line[1] = "[" /\ Last(line) = "]" THEN "section"
    ELSE IF EqPos(line) # {} THEN "value" ELSE "ignored"

Header(line) ==
    /\ Read(line) /\ Kind(line) = "section"
    /\ currentSection' = Trim(SubSeq(line, 2, Len(line) - 1))
    /\ UNCHANGED calls

Call(line, eqPos) ==
    [section |-> currentSection, key |-> Trim(SubSeq(line, 1, eqPos - 1)), value |-> Trim(SubSeq(line, eqPos + 1, Len(line)))]

\* A faulty variant: the key ends at the last sign.
KeyAndValueSplitLast(line) ==
    /\ Read(line) /\ Kind(line) = "value"
    /\ calls' = Append(calls, Call(line, Max(EqPos(line))))
    /\ UNCHANGED currentSection

KeyAndValue(line) ==
    /\ Read(line) /\ Kind(line) = "value"
    /\ calls' = Append(calls, Call(line, Min(EqPos(line))))
    /\ UNCHANGED currentSection

Ignored(line) ==
    /\ Read(line) /\ Kind(line) = "ignored"
    /\ UNCHANGED <<currentSection, calls>>

ConfigNext ==
    \/ \E f \in Files : Open(f)
    \/ LET line == Trim(Head(lines))
       IN  Header(line) \/ KeyAndValue(line) \/ Ignored(line)

\* Is the end of every line blank?
Clean(f) == Trim(f.tail) = <<>>

(***************************************************************************)
(* An entry comes back as it is written, also with signs in its value.  If *)
(* the lines end in more than blanks, in a carriage return or a comment,   *)
(* that is part of every value, and no section is recognised: all entries  *)
(* are in the section without a name, with no error.                       *)
(***************************************************************************)
ConfigReadBack ==
    \A f \in file :
        lines = <<>> =>
            calls = [i \in DOMAIN f.entries |->
                        IF Clean(f) THEN f.entries[i]
                        ELSE [f.entries[i] EXCEPT !.section = <<>>, !.value = Trim(@ \o f.tail)]]
=============================================================================
