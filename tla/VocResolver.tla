---------------------------- MODULE VocResolver -----------------------------
(***************************************************************************)
(* VocResolver: entries of the VOC file, and what verbs and program names  *)
(* resolve to.  A record's text is a sequence of words, in which "^" stands *)
(* for the end of a line; a table maps item ids to entries.  Case is left  *)
(* out: ids and verbs are compared in upper case.                          *)
(***************************************************************************)
EXTENDS Naturals, Sequences, FiniteSets

MaxHops == 64
VocTypes == {"F", "Q", "V", "D", "A", "X"}

\* Attribute 2 of a record, or no text.
Attribute2(text) == IF Len(text) >= 3 THEN text[3] ELSE ""

\* parseVocEntry: the first line is the type, alone; all but V and X need a target.
IsVocEntry(text) ==
    /\ text # <<>>
    /\ text[1] \in VocTypes
    /\ Len(text) >= 2 => text[2] = "^"
    /\ text[1] \in {"V", "X"} \/ Attribute2(text) # ""

VocEntry(text) == [type |-> text[1], target |-> Attribute2(text)]

RECURSIVE FileFromVocKey(_, _, _)
FileFromVocKey(table, key, visited) ==
    IF key \in visited \/ key \notin DOMAIN table THEN ""
    ELSE IF table[key].type \in {"F", "D", "A"} THEN table[key].target
    ELSE IF table[key].type = "Q"
         THEN FileFromVocKey(table, table[key].target, visited \cup {key})
    ELSE ""

\* resolveProcScriptLocation: the file that holds a script.
ProcFile(table, name) ==
    LET file == FileFromVocKey(table, name, {}) IN IF file = "" THEN "PROC" ELSE file

\* Faulty variant: an entry that was passed before is passed again, once.
RECURSIVE VerbFromAgain(_, _, _, _)
VerbFromAgain(table, key, resolved, visited) ==
    IF key \notin DOMAIN table \/ Cardinality(visited) >= MaxHops THEN resolved
    ELSE LET entry == table[key] IN
         IF entry.type \notin {"Q", "V", "X"} \/ entry.target = "" THEN resolved
         ELSE IF key \in visited THEN entry.target
         ELSE VerbFromAgain(table, entry.target,
                            IF entry.type = "Q" THEN resolved ELSE entry.target,
                            visited \cup {key})

\* resolveVerbName: V and X name a verb, Q leads on without one.
RECURSIVE VerbFrom(_, _, _, _)
VerbFrom(table, key, resolved, visited) ==
    IF key \in visited \/ key \notin DOMAIN table \/ Cardinality(visited) >= MaxHops
    THEN resolved
    ELSE LET entry == table[key] IN
         IF entry.type \notin {"Q", "V", "X"} \/ entry.target = "" THEN resolved
         ELSE VerbFrom(table, entry.target,
                       IF entry.type = "Q" THEN resolved ELSE entry.target,
                       visited \cup {key})

VerbName(table, token) == VerbFrom(table, token, token, {})
=============================================================================
