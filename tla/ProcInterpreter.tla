-------------------------- MODULE ProcInterpreter ---------------------------
(***************************************************************************)
(* ProcInterpreter::runScript and the shell around it: lines typed at the  *)
(* TCL prompt, PROC scripts, the Tcl commands in them, and scripts that    *)
(* these start in turn.  A step executes one line of the innermost script. *)
(* Another session acts at the prompt and while INPUT waits.               *)
(*                                                                         *)
(* A line of a script is the sequence of its words; the line of a label    *)
(* begins with ":", and what follows is the label.  What DISPLAY and error *)
(* messages print is left out; an error ends its script.                   *)
(***************************************************************************)
EXTENDS TclSession, TLC

CONSTANTS
    Workloads,  \* scripts, what is typed and stored, how often the peer acts
    Answers,    \* what may be typed at INPUT
    PeerTexts   \* what the other session may write

VARIABLES
    scripts,    \* the PROC scripts, by file and name
    typed,      \* the lines still to be typed
    calls,      \* the scripts that run, the innermost last
    shell,      \* "up", "ended", or "threw" for an exception nobody caught
    peer,       \* how often the other session may still act
    lists       \* the loops of the scripts end with a list

procVars == <<scripts, typed, calls, shell, peer, lists, sessionVars>>

Empty == <<"">>
LockedToken == <<"?LOCKED?">>

SystemVariables == {"@USERNO", "@ACCOUNT", "@LOGNAME", "@DEFDATA"}
SystemVariable(name) ==
    CASE name = "@DEFDATA" -> IF loggedIn THEN <<DefData>> ELSE Empty
      [] name = "@USERNO" -> IF loggedIn THEN <<"7">> ELSE <<"0">>
      [] OTHER -> IF loggedIn THEN <<"ME">> ELSE Empty

-----------------------------------------------------------------------------
(* Words of a statement.                                                   *)

IsLabel(line) == line # <<>> /\ line[1] = ":"

Aliases == [D |-> "DISPLAY", I |-> "INPUT", G |-> "GO", T |-> "TCL", E |-> "END",
            S |-> "SELECT", RN |-> "READNEXT"]

\* parseStatement: an assignment is recognised before any keyword.
Command(words) ==
    IF Len(words) >= 3 /\ words[2] = "=" THEN "assignment"
    ELSE IF words[1] \in DOMAIN Aliases THEN Aliases[words[1]] ELSE words[1]

Substitute(word, vars) ==
    IF word \in DOMAIN vars THEN vars[word]
    ELSE IF word \in SystemVariables THEN SystemVariable(word)
    ELSE <<word>>

Substituted(words, vars) == [i \in DOMAIN words |-> Substitute(words[i], vars)]

\* joinTokens and evalValue.
Joined(texts) == IF texts = <<>> THEN Empty ELSE FlattenSeq(texts)
Value(words, vars) == Joined(Substituted(words, vars))

\* The first place of a word behind the first one, or 0.
Place(words, word) ==
    LET at == {i \in 2..Len(words) : words[i] = word}
    IN IF at = {} THEN 0 ELSE CHOOSE i \in at : \A j \in at : i <= j

From(words, i) == SubSeq(words, i, Len(words))

\* parseIfParts.
IsIf(words) ==
    LET eq == Place(words, "=")
        then == Place(words, "THEN")
        else == Place(words, "ELSE")
    IN /\ Len(words) >= 6
       /\ eq > 2 /\ then > eq + 1 /\ then < Len(words)
       /\ else # 0 => else > then + 1

\* The statement an IF comes to, inner IFs included; <<>> when it is none, and
\* <<"?">> when its form is wrong.
RECURSIVE Effective(_, _)
Effective(words, vars) ==
    IF words = <<>> \/ Command(words) # "IF" THEN words
    ELSE IF ~IsIf(words) THEN <<"?">>
    ELSE LET eq == Place(words, "=")
             then == Place(words, "THEN")
             else == Place(words, "ELSE")
             last == IF else = 0 THEN Len(words) ELSE else - 1
         IN IF Value(SubSeq(words, 2, eq - 1), vars) = Value(SubSeq(words, eq + 1, then - 1), vars)
            THEN Effective(SubSeq(words, then + 1, last), vars)
            ELSE IF else = 0 THEN <<>> ELSE Effective(From(words, else + 1), vars)

-----------------------------------------------------------------------------
(* Scripts.                                                                *)

LabelLines(lines, name) == {n \in DOMAIN lines : IsLabel(lines[n]) /\ Tail(lines[n]) = name}

\* The first pass over the labels.
LabelsOK(lines) ==
    \A n \in DOMAIN lines : IsLabel(lines[n]) =>
        Len(lines[n]) > 1 /\ LabelLines(lines, Tail(lines[n])) = {n}

LineKind(line) ==
    IF IsLabel(line) THEN "label"
    ELSE IF line # <<>> /\ Command(line) \in {"LOOP", "REPEAT", "EXIT", "EXITIF"} THEN Command(line)
    ELSE "other"

NewCall(lines, args) ==
    [lines |-> lines, scan |-> 1, open |-> <<>>, pairs |-> {}, pc |-> 1, frames |-> <<>>,
     vars |-> [p \in {<<"P1", "P2">>[i] : i \in DOMAIN args} |->
                  <<args[IF p = "P1" THEN 1 ELSE 2]>>]]

Top == calls[Len(calls)]
Outer == Front(calls)
Becomes(call) == calls' = Append(Outer, call)

\* The script is over; that it failed makes no difference to its caller.
Return == calls' = Outer /\ UNCHANGED sessionVars

\* buildLoopPairs, line by line.
Scan ==
    /\ UNCHANGED sessionVars
    /\ LET kind == LineKind(Top.lines[Top.scan])
           open == Top.open
           next == [Top EXCEPT !.scan = @ + 1]
       IN CASE kind = "LOOP" -> Becomes([next EXCEPT !.open = Append(@, Top.scan)])
            [] kind = "REPEAT" /\ open # <<>> ->
                 Becomes([next EXCEPT !.open = Front(@),
                                      !.pairs = @ \cup {<<Last(open), Top.scan>>}])
            [] kind = "REPEAT" /\ open = <<>> -> calls' = Outer
            [] OTHER -> Becomes(next)

-----------------------------------------------------------------------------
(* Statements.  call is the innermost script with its frames in step with  *)
(* the line, words the statement without its IFs.                          *)

NextLine(call) == [call EXCEPT !.pc = @ + 1]
Assigned(call, name, text) == [call EXCEPT !.vars = (name :> text) @@ @]

\* syncLoopFramesForPc: a frame is kept in the body of its loop.
Sync(frames, pc) == SelectSeq(frames, LAMBDA f : f[1] < pc /\ pc <= f[2])

Session == UNCHANGED sessionVars

Go(call, words) ==
    LET lines == IF Len(words) = 2 THEN LabelLines(call.lines, <<words[2]>>) ELSE {}
    IN IF lines = {} THEN Return
       ELSE Session /\ \E n \in lines : Becomes([call EXCEPT !.pc = n])

Loop(call) ==
    IF \A l \in call.pairs : l[1] # call.pc THEN Return
    ELSE /\ Session
         /\ \E l \in call.pairs :
               /\ l[1] = call.pc
               /\ Becomes(NextLine([call EXCEPT !.frames =
                      IF @ # <<>> /\ Last(@)[1] = call.pc THEN @ ELSE Append(@, l)]))

Repeat(call) ==
    IF \A l \in call.pairs : l[2] # call.pc THEN Return
    ELSE Session /\ \E l \in call.pairs : l[2] = call.pc /\ Becomes([call EXCEPT !.pc = l[1] + 1])

\* Faulty variant: the outermost loop is left.
ExitFirst(call) ==
    IF call.frames = <<>> THEN Return
    ELSE /\ Session
         /\ Becomes([call EXCEPT !.frames = Tail(@), !.pc = call.frames[1][2] + 1])

Exit(call) ==
    IF call.frames = <<>> THEN Return
    ELSE /\ Session
         /\ Becomes([call EXCEPT !.frames = Front(@), !.pc = Last(call.frames)[2] + 1])

ExitIf(call, words) ==
    LET eq == Place(words, "=") IN
    IF eq <= 2 THEN Return
    ELSE IF Value(SubSeq(words, 2, eq - 1), call.vars) = Value(From(words, eq + 1), call.vars)
         THEN Exit(call)
         ELSE Session /\ Becomes(NextLine(call))

Assign(call, words) ==
    IF words[1] \in SystemVariables THEN Return
    ELSE Session /\ Becomes(NextLine(Assigned(call, words[1], Value(From(words, 3), call.vars))))

\* Faulty variant: the cursor stays where it is.
SelectOnly(call, words) ==
    LET file == IF Len(words) = 2 THEN Substitute(words[2], call.vars) ELSE Empty IN
    IF file[1] \notin files \/ Len(file) > 1 THEN Return
    ELSE /\ list' = [file |-> file[1], ids |-> IdsOf(file[1])]
         /\ walk' = NewWalk
         /\ Becomes(NextLine(call))
         /\ UNCHANGED <<recordVars, loggedIn, cursor, vocVars>>

Select(call, words) ==
    LET file == IF Len(words) = 2 THEN Substitute(words[2], call.vars) ELSE Empty IN
    IF file[1] \notin files \/ Len(file) > 1 THEN Return
    ELSE /\ list' = [file |-> file[1], ids |-> IdsOf(file[1])]
         /\ cursor' = 0 /\ walk' = NewWalk
         /\ Becomes(NextLine(call))
         /\ UNCHANGED <<recordVars, loggedIn, vocVars>>

\* Faulty variant: the cursor stays on the record it gave.
ReadNextStays(call, words) ==
    IF Len(words) # 2 \/ words[2] \in SystemVariables \/ list.file = "" THEN Return
    ELSE /\ IF cursor >= Len(list.ids)
            THEN Becomes(NextLine(Assigned(call, words[2], Empty)))
            ELSE Becomes(NextLine(Assigned(call, words[2], <<list.ids[cursor + 1]>>)))
         /\ UNCHANGED <<recordVars, loggedIn, listVars, vocVars>>

ReadNext(call, words) ==
    IF Len(words) # 2 \/ words[2] \in SystemVariables \/ list.file = "" THEN Return
    ELSE /\ IF cursor >= Len(list.ids)
            THEN /\ Becomes(NextLine(Assigned(call, words[2], Empty)))
                 /\ walk' = [walk EXCEPT !.exhausted = TRUE]
                 /\ UNCHANGED cursor
            ELSE /\ Becomes(NextLine(Assigned(call, words[2], <<list.ids[cursor + 1]>>)))
                 /\ walk' = [walk EXCEPT !.got = IF walk.disturbed THEN @
                                                 ELSE Append(@, list.ids[cursor + 1])]
                 /\ cursor' = cursor + 1
         /\ UNCHANGED <<recordVars, loggedIn, list, vocVars>>

\* The record that operands name: a file and an id, or an id in the file of
\* @DEFDATA.  Names of several words are invalid.
Target(texts) ==
    LET names == [i \in DOMAIN texts |-> IF Len(texts[i]) = 1 THEN texts[i][1] ELSE ""]
    IN IF Len(names) = 2 THEN names
       ELSE IF Len(names) = 1 /\ loggedIn THEN <<DefData, names[1]>>
       ELSE <<"", "">>

Outcome(call, refused, text) ==
    Becomes(NextLine(IF refused THEN Assigned(call, "PROCERR", LockedToken)
                     ELSE Assigned(Assigned(call, text[1], text[2]), "PROCERR", Empty)))

\* READU: a lock that was refused is told in PROCERR; the lock stays with a
\* record that turns out to be missing, which ends the script.
ProcReadU(call, words) ==
    LET k == Target(Substituted(From(words, 3), call.vars)) IN
    IF Len(words) < 3 \/ words[2] \in SystemVariables \/ k \notin Keys THEN Return
    ELSE /\ ReadU(k, voc)
         /\ IF Accessible(k) /\ store[k] = Absent THEN calls' = Outer
            ELSE Outcome(call, ~Accessible(k), <<words[2], store[k]>>)

ProcWriteU(call, words) ==
    LET texts == Substituted(From(words, 2), call.vars)
        k == Target(IF Len(texts) >= 3 THEN SubSeq(texts, 1, 2) ELSE SubSeq(texts, 1, 1))
        text == Joined(From(texts, IF Len(texts) >= 3 THEN 3 ELSE 2)) IN
    IF Len(words) < 3 \/ text = Empty \/ k \notin Keys THEN Return
    ELSE /\ Write(k, text, TRUE, voc)
         /\ IF Accessible(k) /\ k[1] \notin files THEN calls' = Outer
            ELSE Outcome(call, ~Accessible(k), <<"PROCERR", Empty>>)

ProcRelease(call, words) ==
    LET k == Target(Substituted(From(words, 2), call.vars)) IN
    IF k \notin Keys THEN Return
    ELSE Release(k, voc) /\ Outcome(call, FALSE, <<"PROCERR", Empty>>)

-----------------------------------------------------------------------------
(* Tcl commands: at the prompt, and from a script through executeProcTcl-  *)
(* Command, which resolves the verb once more.                             *)

\* cmdProc, for the caller with the given calls.
Proc(words, caller) ==
    LET key == <<ProcFile(Loaded.table, words[2]), words[2]>>
        opened == key \in DOMAIN scripts /\ (key \in Keys => Accessible(key)) IN
    /\ VocKept(Loaded)
    /\ cursor' = IF opened THEN 0 ELSE cursor
    /\ walk' = IF ~opened THEN walk
               ELSE IF caller = <<>> THEN NewWalk ELSE Disturbed(walk, TRUE)
    /\ calls' = IF opened /\ LabelsOK(scripts[key])
                THEN Append(caller, NewCall(scripts[key], From(words, 3))) ELSE caller
    /\ UNCHANGED <<recordVars, loggedIn, list>>

\* A Tcl command with a known verb and acceptable operands, but PROC.
SessionCommand(verb, words) ==
    LET operands == From(words, 2)
        count == Len(operands)
        texts == [i \in DOMAIN operands |-> <<operands[i]>>]
        k == Target(texts)
        w == Target(SubSeq(texts, 1, IF count >= 3 THEN 2 ELSE 1)) IN
    CASE verb = "SELECT" /\ count = 1 -> SelectCommand(operands[1])
      [] verb = "CLEAR-LIST" /\ count = 0 -> ClearList
      [] verb = "LOGOFF" /\ count = 0 /\ loggedIn -> EndOfSession(verb)
      [] verb = "QUIT" -> EndOfSession(verb)
      [] verb = "READU" /\ k \in Keys -> ReadU(k, Loaded)
      [] verb = "RELEASE" /\ k \in Keys -> Release(k, Loaded)
      [] verb \in {"WRITE", "WRITEU"} /\ count >= 2 /\ w \in Keys ->
           Write(w, From(operands, IF count >= 3 THEN 3 ELSE 2), verb = "WRITEU", Loaded)
      [] verb = "CREATE-VOC" /\ count >= 3 /\ operands[1] \in Range(Ids) /\ operands[2] \in VocTypes ->
           CreateVoc(operands[1], FlattenSeq([i \in 1..(count - 1) |-> <<operands[i + 1], "^">>]))
      [] verb = "DELETE-VOC" /\ count = 1 /\ operands[1] \in Range(Ids) -> DeleteVoc(operands[1])
      [] verb = "DEFINE-FIELD" /\ count = 3 /\ SubSeq(operands, 1, 2) \in Keys ->
           DefineField(SubSeq(operands, 1, 2), operands[3])
      [] verb = "CREATE-FILE" /\ count = 1 -> CreateFile(operands[1])
      [] verb = "DELETE-FILE" /\ count = 1 -> DeleteFile(operands[1])
      [] OTHER -> OtherCommand

\* handleTclCommand, with the verb resolved.
TclCommand(verb, words, caller) ==
    LET expanded == [i \in DOMAIN words |->
                        IF i = 1 \/ words[i] \notin SystemVariables \/ (verb = "PROC" /\ i = 2)
                        THEN words[i] ELSE SystemVariable(words[i])[1]] IN
    IF verb = "PROC" /\ Len(words) >= 2 THEN Proc(expanded, caller)
    ELSE SessionCommand(verb, expanded) /\ calls' = caller

\* The TCL statement: what was substituted is split into words again.
Tcl(call, words) ==
    LET line == SelectSeq(Value(From(words, 2), call.vars), LAMBDA w : w # "")
        caller == Append(Outer, NextLine(call))
        verb == VerbName(Loaded.table, VerbName(Loaded.table, line[1])) IN
    IF line = <<>> THEN Session /\ calls' = caller /\ UNCHANGED shell
    ELSE IF ~VocLoads THEN shell' = "threw" /\ UNCHANGED <<calls, sessionVars>>
    ELSE TclCommand(verb, line, caller) /\ UNCHANGED shell

-----------------------------------------------------------------------------
(* Steps.                                                                  *)

Scanned == Top.scan > Len(Top.lines)
Line == Top.lines[Top.pc]
Synced == [Top EXCEPT !.frames = Sync(@, Top.pc)]
Statement == Effective(Line, Top.vars)

\* The script waits for a line from the terminal.
AtInput ==
    /\ shell = "up" /\ calls # <<>>
    /\ Scanned /\ Top.open = <<>> /\ Top.pc <= Len(Top.lines)
    /\ Line # <<>> /\ ~IsLabel(Line)
    /\ \E words \in {Statement} :
          Len(words) = 2 /\ Command(words) = "INPUT" /\ words[2] \notin SystemVariables

Execute(call, words) ==
    IF words # <<>> /\ Command(words) = "TCL" THEN Tcl(call, words)
    ELSE /\ UNCHANGED shell
         /\ CASE words = <<>> -> Session /\ Becomes(NextLine(call))
              [] OTHER ->
            CASE Command(words) = "DISPLAY" -> Session /\ Becomes(NextLine(call))
              [] Command(words) \in {"END", "RETURN"} ->
                   Session /\ Becomes([call EXCEPT !.pc = Len(call.lines) + 1])
              [] Command(words) = "GO" -> Go(call, words)
              [] Command(words) = "LOOP" -> Loop(call)
              [] Command(words) = "REPEAT" -> Repeat(call)
              [] Command(words) = "EXIT" -> Exit(call)
              [] Command(words) = "EXITIF" -> ExitIf(call, words)
              [] Command(words) = "SELECT" -> Select(call, words)
              [] Command(words) = "READNEXT" -> ReadNext(call, words)
              [] Command(words) = "READU" -> ProcReadU(call, words)
              [] Command(words) = "WRITEU" -> ProcWriteU(call, words)
              [] Command(words) = "RELEASE" -> ProcRelease(call, words)
              [] Command(words) = "assignment" -> Assign(call, words)
              [] OTHER -> Return

ScanLine ==
    /\ shell = "up" /\ calls # <<>> /\ ~Scanned
    /\ Scan
    /\ UNCHANGED <<scripts, typed, shell, peer, lists>>

\* The end of the script, or a LOOP without REPEAT.
EndOfScript ==
    /\ shell = "up" /\ calls # <<>>
    /\ Scanned /\ (Top.open # <<>> \/ Top.pc > Len(Top.lines))
    /\ Return
    /\ UNCHANGED <<scripts, typed, shell, peer, lists>>

ExecuteLine ==
    /\ shell = "up" /\ calls # <<>>
    /\ Scanned /\ Top.open = <<>> /\ Top.pc <= Len(Top.lines)
    /\ IF Line = <<>> \/ IsLabel(Line)
       THEN Becomes(NextLine(Top)) /\ UNCHANGED <<shell, sessionVars>>
       ELSE ~AtInput /\ \E call \in {Synced}, words \in {Statement} : Execute(call, words)
    /\ UNCHANGED <<scripts, typed, peer, lists>>

\* INPUT; the end of the input reads as an empty line.
Input ==
    /\ AtInput
    /\ \E text \in Answers \cup {Empty} : Becomes(NextLine(Assigned(Synced, Statement[2], text)))
    /\ UNCHANGED <<scripts, typed, shell, peer, lists, sessionVars>>

\* runTclRepl reads a line and handles it.
Type ==
    /\ shell = "up" /\ calls = <<>> /\ loggedIn /\ typed # <<>>
    /\ typed' = Tail(typed)
    /\ LET line == Head(typed)
           verb == VerbName(Loaded.table, line[1]) IN
       IF ~VocLoads THEN shell' = "threw" /\ UNCHANGED <<calls, sessionVars>>
       ELSE /\ TclCommand(verb, line, <<>>)
            /\ shell' = IF verb = "QUIT" THEN "ended" ELSE shell
    /\ UNCHANGED <<scripts, peer, lists>>

\* A LOGOFF was executed, at the prompt or in a script.
EndSession ==
    /\ shell = "up" /\ calls = <<>> /\ ~loggedIn
    /\ shell' = "ended"
    /\ UNCHANGED <<scripts, typed, calls, peer, lists, sessionVars>>

\* The other session has its turn.
Peer ==
    /\ peer > 0 /\ (calls = <<>> \/ AtInput)
    /\ peer' = peer - 1
    /\ \E k \in Keys :
          \/ PeerReadU(k) \/ PeerReleases(k)
          \/ \E text \in PeerTexts : PeerWrites(k, text)
    /\ UNCHANGED <<scripts, typed, calls, shell, lists>>

ProcInit ==
    /\ \E w \in Workloads :
          /\ scripts = w.scripts /\ typed = w.typed /\ peer = w.peer /\ lists = w.lists
          /\ store = [k \in Keys |-> IF k \in DOMAIN w.store THEN w.store[k] ELSE Absent]
    /\ calls = <<>> /\ shell = "up"
    /\ files = Files
    /\ locks = [k \in Keys |-> "nobody"]
    /\ loggedIn = TRUE
    /\ list = NoList /\ cursor = 0 /\ walk = NewWalk
    /\ voc = Unloaded /\ behind = FALSE

ProcNext == Type \/ ScanLine \/ ExecuteLine \/ EndOfScript \/ Input \/ EndSession \/ Peer

\* A session that holds the token goes on, and someone types in the end.
ProcFairness == WF_procVars(ScanLine \/ ExecuteLine \/ EndOfScript) /\ WF_procVars(Input)

ProcSpec == ProcInit /\ [][ProcNext]_procVars /\ ProcFairness

-----------------------------------------------------------------------------
(* Properties.                                                             *)

\* The loops of a script the user starts do what LOOP, REPEAT and EXIT mean: the
\* frames, which are cleared lazily, agree with the loops that are entered.
First == IF calls = <<>> THEN NewCall(<<>>, <<>>) ELSE calls[1]
Loops == INSTANCE ProcLoops WITH
            running <- (calls # <<>>),
            kinds <- [n \in DOMAIN First.lines |-> LineKind(First.lines[n])],
            scan <- First.scan, open <- First.open, pairs <- First.pairs, pc <- First.pc,
            entered <- {f \in Range(First.frames) : f[1] < First.pc /\ First.pc <= f[2]}
LoopControl == Loops!LoopSpec

\* READNEXT gives every record of the list, once and in order, before it gives
\* nothing, as long as no Tcl command of the script touches list or cursor.
ReadNextVisitsEveryRecord == walk.exhausted /\ ~walk.disturbed => walk.got = list.ids


\* Loops over a list end: a script that leaves each loop when READNEXT has
\* nothing more comes to its end, whatever the list holds and other sessions do,
\* unless a Tcl command of its own touches list or cursor.
ListLoopsEnd == lists /\ calls # <<>> ~> calls = <<>> \/ walk.disturbed

\* A lock conflict is reported to the user or the script, and the session goes on.
ConflictsAreReported == shell # "threw"
=============================================================================
