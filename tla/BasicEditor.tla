----------------------------- MODULE BasicEditor -----------------------------
(***************************************************************************)
(* The BASIC shell of a session: BasicProgram, the numbered lines in       *)
(* memory; BasicShell, the commands on them; LineRecordEditor, which EDIT  *)
(* opens on the source record; and Tcl's RUN, which loads object records.  *)
(* Another session may lock a record, which makes reads and writes of it   *)
(* fail.  shadow follows what the user means by all that text: statements  *)
(* as trees, never as text.                                                *)
(***************************************************************************)
EXTENDS BytecodeText, BasicEmitter

CONSTANTS
    ProgNames,    \* the names of programs
    Statements,   \* what the user types, as trees
    Typed(_),     \* how the user writes a statement
    LineNos,      \* the line numbers the user types
    Samples,      \* the programs on disk at the start -> the number of edits that follow
    Assembled0,   \* a hand-written object record, and the code it stands for
    MaxLocks      \* bound on the locks of other sessions

VARIABLES
    mode,         \* "tcl", "basic" or "ed"
    name, lines,  \* BasicProgram: its name ("" for none), number -> text
    rows,         \* LineRecordEditor, while it is open: the rows of the record
    edited, back, \* the program it is open on, the mode it returns to
    source, object, \* the records on disk
    locked,       \* the records another session has locked: <<kind, name>>
    edits,        \* bound: how many changes of text may still be made
    shadow        \* [lines, rows, source, object]: the trees behind the texts

program == <<name, lines>>
editor == <<rows, edited, back>>
disk == <<source, object>>
vars == <<mode, program, editor, disk, locked, edits, shadow>>

Absent == [exists |-> FALSE]
Record(v) == [exists |-> TRUE, value |-> v]
Without(f, S) == [n \in DOMAIN f \ S |-> f[n]]
With(f, n, v) == (n :> v) @@ f

-----------------------------------------------------------------------------
(* Text.                                                                   *)

RECURSIVE Words(_)
Words(t) ==
    LET s == Trim(t)
    IN IF s = <<>> THEN <<>>
       ELSE IF First(s, " ") = 0 THEN <<s>>
       ELSE <<SubSeq(s, 1, First(s, " ") - 1)>> \o Words(SubSeq(s, First(s, " "), Len(s)))

\* joinTokens: one blank between two words, in a literal too.
JoinTokens(words) ==
    FlattenSeq([i \in DOMAIN words |-> (IF i = 1 THEN <<>> ELSE <<" ">>) \o words[i]])

\* The rows of a program, and the program that rows hold.
RowOf(n, t) == IF t = <<>> THEN <<ToString(n)>> ELSE <<ToString(n), " ">> \o t
RowsOf(f) == [i \in DOMAIN Sorted(DOMAIN f) |-> RowOf(Sorted(DOMAIN f)[i], f[Sorted(DOMAIN f)[i]])]

RowNumber(row) == LineNumber(<<Keyword(row)>>)

\* loadProgramIfPresent collapses blanks; Tcl keeps all but the one after the number.
RowText(row, collapse) == IF collapse THEN JoinTokens(Tail(Words(row))) ELSE SubSeq(row, 3, Len(row))
Collected(rs, collapse) ==
    FoldLeft(LAMBDA f, row : IF RowNumber(row) = 0 THEN f
                             ELSE With(f, RowNumber(row), RowText(row, collapse)), <<>>, rs)

LinesIn(rs) == Collected(rs, TRUE)
RawLinesIn(rs) == Collected(rs, FALSE)

CompiledLines(f) == IF ParseProgram(f) = Failure THEN Failed ELSE Compile(ParseProgram(f))

-----------------------------------------------------------------------------
(* RENUM.                                                                  *)

Renumbering(f) == [n \in DOMAIN f |-> 10 * Cardinality({k \in DOMAIN f : k <= n})]
Mapped(map, word) == IF LineNumber(word) \in DOMAIN map THEN <<ToString(map[LineNumber(word)])>> ELSE word

\* rewriteRenumberTargets: an IF whose arms are both lines, or one line alone.
RewriteIf(words, then, else, map) ==
    IF then = 0 THEN words
    ELSE IF else = 0
    THEN IF then + 1 = Len(words) /\ LineNumber(words[then + 1]) > 0
         THEN [words EXCEPT ![then + 1] = Mapped(map, @)] ELSE words
    ELSE IF /\ else = then + 2 /\ else + 1 = Len(words)
            /\ LineNumber(words[then + 1]) > 0 /\ LineNumber(words[else + 1]) > 0
         THEN [words EXCEPT ![then + 1] = Mapped(map, @), ![else + 1] = Mapped(map, @)]
         ELSE words
Rewritten(words, map) ==
    CASE words # <<>> /\ words[1] = <<"GOTO">> /\ Len(words) = 2 -> [words EXCEPT ![2] = Mapped(map, @)]
      [] words # <<>> /\ words[1] = <<"IF">> ->
            RewriteIf(words, SelectInSeq(words, LAMBDA w : w = <<"THEN">>),
                      SelectLastInSeq(words, LAMBDA w : w = <<"ELSE">>), map)
      [] OTHER -> words
RewriteTargets(t, map) == IF Rewritten(Words(t), map) = Words(t) THEN t ELSE JoinTokens(Rewritten(Words(t), map))
Renumbered(f) ==
    [m \in Range(Renumbering(f)) |->
        RewriteTargets(f[CHOOSE n \in DOMAIN f : Renumbering(f)[n] = m], Renumbering(f))]

\* What RENUM should do to a tree: the lines that exist get their new numbers.
Moved(map, n) == IF n \in DOMAIN map THEN map[n] ELSE n
MovedArm(map, arm) == IF arm # None /\ arm[1] = "line" THEN <<"line", Moved(map, arm[2])>> ELSE arm
Retargeted(s, map) ==
    CASE s[1] = "GOTO" -> <<"GOTO", Moved(map, s[2])>>
      [] s[1] = "IF" -> <<"IF", s[2], MovedArm(map, s[3]), MovedArm(map, s[4])>>
      [] OTHER -> s
MixedArms(s) == s[1] = "IF" /\ s[4] # None /\ (s[3][1] = "line") # (s[4][1] = "line")
RenumberedTrees(f) ==
    [m \in Range(Renumbering(f)) |->
        Retargeted(f[CHOOSE n \in DOMAIN f : Renumbering(f)[n] = m], Renumbering(f))]

-----------------------------------------------------------------------------
(* Records.                                                                *)

Readable(kind, nm) == <<kind, nm>> \notin locked
HasSource(nm) == Readable("source", nm) /\ source[nm].exists
HasObject(nm) == Readable("object", nm) /\ object[nm].exists

\* loadProgramIfPresent: a record that cannot be read is one that is not there.
LoadIfPresent(nm, otherwise, otherTrees) ==
    IF nm # "" /\ HasSource(nm)
    THEN lines' = LinesIn(source[nm].value) /\ shadow' = [shadow EXCEPT !.lines = shadow.source[nm], !.rows = <<>>]
    ELSE lines' = otherwise /\ shadow' = [shadow EXCEPT !.lines = otherTrees, !.rows = <<>>]

\* flushProgramSourceToDisk.
Flush(nm) ==
    IF Readable("source", nm)
    THEN source' = [source EXCEPT ![nm] = Record(RowsOf(lines))] /\ shadow' = [shadow EXCEPT !.source[nm] = shadow.lines]
    ELSE UNCHANGED <<source, shadow>>

-----------------------------------------------------------------------------
(* BasicShell.                                                             *)

InBasic == mode = "basic"
Edit == edits > 0 /\ edits' = edits - 1

Enter(nm) ==
    /\ mode = "tcl"
    /\ mode' = "basic" /\ name' = nm
    /\ LoadIfPresent(nm, <<>>, <<>>)
    /\ UNCHANGED <<editor, disk, locked, edits>>

SetLine(n, s) ==
    /\ InBasic /\ Edit
    /\ lines' = With(lines, n, JoinTokens(Words(Typed(s))))
    /\ shadow' = [shadow EXCEPT !.lines = With(@, n, s)]
    /\ UNCHANGED <<mode, name, editor, disk, locked>>

\* A bare line number, or DELETE with a line or a range.
DeleteLines(first, last) ==
    /\ InBasic /\ Edit
    /\ first <= last
    /\ lines' = Without(lines, first .. last)
    /\ shadow' = [shadow EXCEPT !.lines = Without(@, first .. last)]
    /\ UNCHANGED <<mode, name, editor, disk, locked>>

Renum ==
    /\ InBasic /\ Edit
    /\ lines' = Renumbered(lines)
    /\ shadow' = [shadow EXCEPT !.lines = RenumberedTrees(@)]
    /\ UNCHANGED <<mode, name, editor, disk, locked>>

New ==
    /\ InBasic /\ Edit
    /\ lines' = <<>> /\ shadow' = [shadow EXCEPT !.lines = <<>>]
    /\ UNCHANGED <<mode, name, editor, disk, locked>>

Load(nm) ==
    /\ InBasic /\ nm # ""
    /\ name' = nm
    /\ LoadIfPresent(nm, <<>>, <<>>)
    /\ UNCHANGED <<mode, editor, disk, locked, edits>>

Save(nm) ==
    /\ InBasic /\ nm # ""
    /\ name' = nm
    /\ Flush(nm)
    /\ UNCHANGED <<mode, lines, editor, object, locked, edits>>

\* saveObjectCode.
SaveObject(nm, compiled) ==
    IF compiled # Failed /\ Readable("object", nm)
    THEN /\ object' = [object EXCEPT ![nm] = Record(Serialized(compiled))]
         /\ shadow' = [shadow EXCEPT !.object[nm] = [code |-> compiled.code, lines |-> compiled.lines]]
    ELSE UNCHANGED <<object, shadow>>

\* COMPILE and RUN (C.
CompileProgram ==
    /\ InBasic /\ name # ""
    /\ SaveObject(name, CompiledLines(lines))
    /\ UNCHANGED <<mode, program, editor, source, locked, edits>>

Quit ==
    /\ InBasic
    /\ mode' = "tcl"
    /\ UNCHANGED <<program, editor, disk, locked, edits, shadow>>

-----------------------------------------------------------------------------
(* LineRecordEditor.                                                       *)

RowTrees(f) == [i \in DOMAIN Sorted(DOMAIN f) |-> <<Sorted(DOMAIN f)[i], f[Sorted(DOMAIN f)[i]]>>]
TreesIn(rs) ==
    [n \in {rs[i][1] : i \in DOMAIN rs} |-> rs[Max({i \in DOMAIN rs : rs[i][1] = n})][2]]

\* EDIT in the BASIC shell: nothing happens unless the program can be flushed.
EditBasic ==
    /\ InBasic /\ name # "" /\ Readable("source", name)
    /\ Edit
    /\ mode' = "ed" /\ back' = "basic" /\ edited' = name
    /\ source' = [source EXCEPT ![name] = Record(RowsOf(lines))]
    /\ rows' = RowsOf(lines)
    /\ shadow' = [shadow EXCEPT !.source[name] = shadow.lines, !.rows = RowTrees(shadow.lines)]
    /\ UNCHANGED <<program, object, locked>>

EditTcl(nm) ==
    /\ mode = "tcl" /\ Readable("source", nm)
    /\ Edit
    /\ mode' = "ed" /\ back' = "tcl" /\ edited' = nm
    /\ rows' = IF source[nm].exists THEN source[nm].value ELSE <<>>
    /\ shadow' = [shadow EXCEPT !.rows = IF source[nm].exists THEN RowTrees(shadow.source[nm]) ELSE <<>>]
    /\ UNCHANGED <<program, disk, locked>>

\* INSERT, REPLACE and DELETE of one row.
NewRow(n, s) == <<ToString(n), " ">> \o Typed(s)
ChangeRows(newRows, newTrees) ==
    /\ mode = "ed" /\ Edit
    /\ rows' = newRows
    /\ shadow' = [shadow EXCEPT !.rows = newTrees]
    /\ UNCHANGED <<mode, program, edited, back, disk, locked>>
InsertRow(i, n, s) ==
    ChangeRows(InsertAt(rows, i + 1, NewRow(n, s)), InsertAt(shadow.rows, i + 1, <<n, s>>))
ReplaceRow(i, n, s) == ChangeRows(ReplaceAt(rows, i, NewRow(n, s)), ReplaceAt(shadow.rows, i, <<n, s>>))
DeleteRow(i) == ChangeRows(RemoveAt(rows, i), RemoveAt(shadow.rows, i))

SaveRows ==
    /\ mode = "ed" /\ Readable("source", edited)
    /\ source' = [source EXCEPT ![edited] = Record(rows)]
    /\ shadow' = [shadow EXCEPT !.source[edited] = TreesIn(shadow.rows)]
    /\ UNCHANGED <<mode, program, editor, object, locked, edits>>

\* QUIT; the BASIC shell loads the record again.
QuitEditor ==
    /\ mode = "ed"
    /\ mode' = back
    /\ rows' = <<>> /\ edited' = "" /\ back' = "tcl"
    /\ IF back = "basic" THEN LoadIfPresent(name, lines, shadow.lines) ELSE UNCHANGED lines /\ shadow' = [shadow EXCEPT !.rows = <<>>]
    /\ UNCHANGED <<name, disk, locked, edits>>

-----------------------------------------------------------------------------
(* Tcl RUN and CHAIN compile an object that is missing from the source.    *)

RunSource(nm) ==
    /\ mode = "tcl" /\ ~HasObject(nm) /\ HasSource(nm)
    /\ SaveObject(nm, CompiledLines(RawLinesIn(source[nm].value)))
    /\ UNCHANGED <<mode, program, editor, source, locked, edits>>

\* Another session: READU and RELEASE.
ToggleLock(kind, nm) ==
    /\ Cardinality(locked \ {<<kind, nm>>}) < MaxLocks
    /\ locked' = IF <<kind, nm>> \in locked THEN locked \ {<<kind, nm>>} ELSE locked \cup {<<kind, nm>>}
    /\ UNCHANGED <<mode, program, editor, disk, edits, shadow>>

-----------------------------------------------------------------------------
Nothing == [code |-> <<>>, lines |-> <<>>]
TextsOf(trees) == [n \in DOMAIN trees |-> JoinTokens(Words(Typed(trees[n])))]

Init ==
    /\ mode = "tcl" /\ name = "" /\ lines = <<>>
    /\ rows = <<>> /\ edited = "" /\ back = "tcl"
    /\ locked = {}
    /\ \E p \in DOMAIN Samples :
          /\ edits = Samples[p]
          /\ source = [nm \in ProgNames |-> Record(RowsOf(TextsOf(p)))]
          /\ \E own \in SUBSET ProgNames :
                /\ object = [nm \in ProgNames |-> IF nm \in own THEN Record(Assembled0.object) ELSE Absent]
                /\ shadow = [lines |-> <<>>, rows |-> <<>>, source |-> [nm \in ProgNames |-> p],
                             object |-> [nm \in ProgNames |-> IF nm \in own THEN Assembled0.code ELSE Nothing]]

Next ==
    \/ \E nm \in ProgNames \cup {""} : Enter(nm)
    \/ \E n \in LineNos, s \in Statements : SetLine(n, s)
    \/ \E a, b \in LineNos : DeleteLines(a, b)
    \/ Renum \/ New \/ CompileProgram \/ Quit
    \/ \E nm \in ProgNames : Load(nm) \/ Save(nm)
    \/ EditBasic
    \/ \E nm \in ProgNames : EditTcl(nm)
    \/ \E i \in 0 .. Len(rows), n \in LineNos, s \in Statements : InsertRow(i, n, s)
    \/ \E i \in DOMAIN rows, n \in LineNos, s \in Statements : ReplaceRow(i, n, s)
    \/ \E i \in DOMAIN rows : DeleteRow(i)
    \/ SaveRows \/ QuitEditor
    \/ \E nm \in ProgNames : RunSource(nm)
    \/ \E kind \in {"source", "object"}, nm \in ProgNames : ToggleLock(kind, nm)

Spec == Init /\ [][Next]_vars

-----------------------------------------------------------------------------
(* Properties.                                                             *)

Meant(f, trees) ==
    /\ DOMAIN f = DOMAIN trees
    /\ \A n \in DOMAIN f : MixedArms(trees[n]) \/ Statement(f[n]) = trees[n]


\* What the text of an object record cannot hold.
BareNext(code) == \E k \in DOMAIN code : code[k] = <<"ForNext", "">>
JumpPastEnd(code) ==
    \E k \in DOMAIN code : code[k][1] \in {"Jump", "JumpIfZero", "Call"} /\ code[k][2] >= Len(code)
Rounded(code) ==
    [k \in DOMAIN code |-> IF code[k][1] = "PushFlt" THEN <<"PushFlt", Floats[Shown[code[k][2]]]>> ELSE code[k]]

\* An object record loads to the code that was compiled, its floats rounded
\* to six digits, with the same source lines -- unless the program has a NEXT
\* without a name or a jump to the place after its last instruction; then the
\* record cannot be loaded at all.
ObjectLoadsExactly ==
    \A nm \in ProgNames : object[nm].exists =>
        ParseText(object[nm].value) =
            IF BareNext(shadow.object[nm].code) \/ JumpPastEnd(shadow.object[nm].code) THEN Unloadable
            ELSE [code |-> Rounded(shadow.object[nm].code), lines |-> shadow.object[nm].lines]

=============================================================================
