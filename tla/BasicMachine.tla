---------------------------- MODULE BasicMachine ----------------------------
(***************************************************************************)
(* What a BASIC program means, line by line, beside what the machine does  *)
(* with the compiled program.  source is the state of an interpreter of    *)
(* the program text: it executes a line at a time, without a stack of      *)
(* operands or addresses, and it executes one whenever the machine has     *)
(* come to the start of a line or to an end.  The two share the operations *)
(* on values, and nothing of the translation.                              *)
(***************************************************************************)
EXTENDS BasicDebugger

CONSTANTS
    Programs,     \* the programs a user runs
    Environments, \* [disk, locks, in]: what a program finds
    Debugged,     \* the programs the user breaks into
    MaxLines,     \* bound on the lines a run executes
    MaxCommands   \* bound on the breaks and debugger commands of a run

VARIABLES
    source,       \* the state of the reference interpreter
    strayed,      \* whether the user moved the machine with the debugger
    commands      \* breaks and debugger commands so far

vars == <<vmVars, debugVars, source, strayed, commands>>

-----------------------------------------------------------------------------
(* Expressions: a value, or Undefined where the program fails.             *)

RECURSIVE Eval(_, _)
EvalAll(args, s) == [i \in DOMAIN args |-> Eval(args[i], s)]
BinaryOf(op, a, b) ==
    CASE op \in {"+", "-", "*"} -> Arithmetic(OpCodeOf(op), a, b)
      [] op = "/" -> Division(a, b)
      [] OTHER -> Comparison(OpCodeOf(op), a, b)
Eval(e, s) ==
    CASE e[1] = "int" -> IntValue(e[2])
      [] e[1] = "flt" -> <<"flt", e[2]>>
      [] e[1] \in {"str", "dict"} -> Str(e[2])
      [] e[1] = "var" -> IF e[2] \in DOMAIN SystemVars THEN SystemVars[e[2]]
                         ELSE IF e[2] \in DOMAIN s.vars THEN s.vars[e[2]] ELSE Undefined
      [] e[1] = "grp" -> Eval(e[2], s)
      [] e[1] = "neg" -> LET v == Eval(e[2], s)
                         IN IF v = Undefined THEN v ELSE Arithmetic("Sub", IntValue(0), v)
      [] e[1] = "bin" -> LET a == Eval(e[3], s) b == Eval(e[4], s)
                         IN IF Undefined \in {a, b} THEN Undefined ELSE BinaryOf(e[2], a, b)
      [] e[1] = "sub" -> LET i == Eval(e[3], s)
                         IN IF i = Undefined \/ e[2] \notin DOMAIN s.arrays THEN Undefined
                            ELSE IF CoerceToInt(i) \notin DOMAIN s.arrays[e[2]] THEN Undefined
                            ELSE s.arrays[e[2]][CoerceToInt(i)]
      [] e[1] = "attr" -> LET v == Eval(<<"var", e[2]>>, s) n == Eval(e[3], s)
                              i == IF e[4] = None THEN IntValue(0) ELSE Eval(e[4], s)
                          IN IF Undefined \in {v, n, i} THEN Undefined
                             ELSE <<"str", IF CoerceToInt(i) > 0
                                           THEN SubvalueText(ValueToString(v), CoerceToInt(n), CoerceToInt(i))
                                           ELSE AttributeText(ValueToString(v), CoerceToInt(n))>>
      [] e[1] = "fn" -> IF Undefined \in Range(EvalAll(e[3], s)) THEN Undefined
                        ELSE IF e[2] = "STATUS" THEN IntValue(s.status)
                        ELSE Builtin(e[2], EvalAll(e[3], s))

-----------------------------------------------------------------------------
(* Statements.                                                             *)

Fail(s) == [s EXCEPT !.mode = "error"]
IndexOf(n) == CHOOSE i \in DOMAIN text : text[i][1] = n
GoTo(s, n) == [s EXCEPT !.at = IndexOf(n)]
Assigned(s, v, x) ==
    IF v \in DOMAIN SystemVars THEN Fail(s)
    ELSE [s EXCEPT !.vars = (v :> IF IsIntVar(v) THEN IntValue(CoerceToInt(x)) ELSE x) @@ @]
Loaded(s, v, x) == IF v \in DOMAIN SystemVars THEN Fail(s) ELSE [s EXCEPT !.vars = (v :> x) @@ @]

RECURSIVE Exec(_, _)
Take(s, arm) == IF arm = None THEN s ELSE IF arm[1] = "line" THEN GoTo(s, arm[2]) ELSE Exec(s, arm[2])

\* s with the statement's expressions es evaluated, or the failure of one.
With(es, s, Do(_)) ==
    LET vs == EvalAll(es, s)
    IN IF Undefined \in Range(vs) THEN Fail(s) ELSE Do(vs)

\* How an access to a record turns out.
Access(s, fv, id) ==
    IF fv \notin DOMAIN s.files THEN "closed"
    ELSE LET key == <<s.files[fv].name, id>>
         IN IF key \in DOMAIN s.locks /\ s.locks[key] = "other" THEN "locked"
            ELSE IF id \in BadNames THEN "bad"
            ELSE IF id \in DOMAIN s.disk[s.files[fv].name] THEN "stored" ELSE "absent"
Else(s, arm) == IF arm = None THEN Fail(s) ELSE Take(s, arm)
Conflict(s, arm) == IF arm # None THEN Take(s, arm)
                    ELSE IF s.handler = 0 THEN [Fail(s) EXCEPT !.status = 1]
                    ELSE [GoTo(s, s.handler) EXCEPT !.status = 1]
Locking(s, fv, id, yes) ==
    IF yes THEN [s EXCEPT !.locks = (<<s.files[fv].name, id>> :> "me") @@ @] ELSE s
Rewound(s, fv) == [s EXCEPT !.files[fv].cursor = Unprimed]
Saved(s, fv, id, t) == Rewound([s EXCEPT !.disk[s.files[fv].name] = (id :> t) @@ @], fv)

Fetch(s, fv, id, update, arm, Into(_, _)) ==
    LET how == Access(s, fv, id) l == Locking(s, fv, id, update /\ how \notin {"closed", "locked"})
    IN CASE how = "stored" -> Into(l, s.disk[s.files[fv].name][id])
         [] how \in {"closed", "absent"} -> Else(l, arm)
         [] how = "locked" -> Conflict(s, arm)
         [] how = "bad" -> Fail(l)

Put(s, fv, id, update, arm, t) ==
    LET how == Access(s, fv, id) l == Locking(s, fv, id, update /\ how \notin {"closed", "locked"})
    IN CASE how \in {"stored", "absent"} -> Saved(l, fv, id, t)
         [] how = "closed" -> Else(s, arm)
         [] how = "locked" -> Conflict(s, arm)
         [] how = "bad" -> Fail(l)

FieldOf(s, fv, attr, v) ==
    IF attr[1] \notin {"dict", "str"} THEN v
    ELSE LET token == v[2][1][1]
         IN IF fv \notin DOMAIN s.files THEN IntValue(0)
            ELSE IF token \in DOMAIN IntOfText /\ IntOfText[token] > 0 THEN IntValue(IntOfText[token])
            ELSE IF token \notin DOMAIN DictFields THEN IntValue(0)
            ELSE IF DictFields[token].kind = "A" THEN IntValue(DictFields[token].attr) ELSE v

ExecFile(s, c) ==
    CASE c[1] = "OPEN" -> With(<<c[2]>>, s, LAMBDA v :
            IF RecordName(v[1]) \notin DOMAIN s.disk THEN Else(s, c[4])
            ELSE [s EXCEPT !.files = (c[3] :> [name |-> RecordName(v[1]), cursor |-> Unprimed]) @@ @])
      [] c[1] \in {"READ", "READU"} -> With(<<c[4]>>, s, LAMBDA v :
            Fetch(s, c[3], RecordName(v[1]), c[1] = "READU", c[5],
                  LAMBDA l, t : Loaded(l, c[2], <<"str", t>>)))
      [] c[1] \in {"WRITE", "WRITEU"} -> With(<<c[2], c[4]>>, s, LAMBDA v :
            Put(s, c[3], RecordName(v[2]), c[1] = "WRITEU", c[5], ValueToString(v[1])))
      [] c[1] = "READNEXT" ->
            IF c[3] \notin DOMAIN s.files THEN Else(s, c[4])
            ELSE LET f == s.files[c[3]]
                     all == SetToSortSeq(DOMAIN s.disk[f.name], LAMBDA a, b : RankOf(Plain(a)) < RankOf(Plain(b)))
                     ids == IF f.cursor.primed THEN f.cursor.ids ELSE all
                     After(rest) == [s EXCEPT !.files[c[3]].cursor = [primed |-> TRUE, ids |-> rest]]
                 IN IF ids = <<>> THEN Else(After(ids), c[4])
                    ELSE Loaded(After(Tail(ids)), c[2], Str(Head(ids)))
      [] c[1] = "READV" -> With(<<c[4], c[5]>> \o (IF c[6] = None THEN <<>> ELSE <<c[6]>>), s, LAMBDA v :
            LET how == Access(s, c[3], RecordName(v[1]))
                i == IF c[6] = None THEN 0 ELSE CoerceToInt(v[3])
                cell == IF how # "stored" THEN <<Undefined>>
                        ELSE CellOf(s.disk[s.files[c[3]].name][RecordName(v[1])], FieldOf(s, c[3], c[5], v[2]), i)
            IN IF how \in {"locked", "bad"} THEN Fail(s)
               ELSE IF cell = <<Undefined>> THEN Else(s, c[7]) ELSE Loaded(s, c[2], cell[1]))
      [] c[1] = "WRITEV" -> With(<<c[2], c[4], c[5]>> \o (IF c[6] = None THEN <<>> ELSE <<c[6]>>), s, LAMBDA v :
            LET id == RecordName(v[2]) how == Access(s, c[3], id)
                i == IF c[6] = None THEN 0 ELSE CoerceToInt(v[4])
                n == CoerceToInt(FieldOf(s, c[3], c[5], v[3]))
                old == IF how = "stored" THEN s.disk[s.files[c[3]].name][id] ELSE EmptyText
            IN IF how \notin {"stored", "absent"} THEN Else(s, c[7])
               ELSE Saved(s, c[3], id, IF i > 0 THEN WithSubvalue(old, n, i, ValueToString(v[1]))
                                       ELSE WithAttribute(old, n, ValueToString(v[1]))))
      [] c[1] = "RELEASE" -> With(<<c[3]>>, s, LAMBDA v :
            IF c[2] \notin DOMAIN s.files THEN Fail(s)
            ELSE LET mine == {k \in DOMAIN s.locks : k = <<s.files[c[2]].name, RecordName(v[1])>> /\ s.locks[k] = "me"}
                 IN [s EXCEPT !.locks = [k \in DOMAIN @ \ mine |-> @[k]]])
      [] c[1] = "CLOSE" -> [s EXCEPT !.files = [f \in DOMAIN @ \ {c[2]} |-> @[f]]]

Elements(a, xs) == [i \in DOMAIN xs |-> IF IsIntVar(a) THEN IntValue(CoerceToInt(xs[i])) ELSE xs[i]]
ArraySet(s, a, xs) == IF a \in DOMAIN SystemVars THEN Fail(s) ELSE [s EXCEPT !.arrays = (a :> xs) @@ @]
SizeOf(s, a) == IF a \in DOMAIN s.arrays THEN Len(s.arrays[a]) ELSE 0

ExecArray(s, c) ==
    CASE c[1] = "DIM" -> With(<<c[3]>>, s, LAMBDA v :
            IF CoerceToInt(v[1]) < 1 THEN Fail(s)
            ELSE ArraySet(s, c[2], [i \in 1 .. CoerceToInt(v[1]) |-> Str("")]))
      [] c[1] = "LETARR" -> With(<<c[3], c[4]>>, s, LAMBDA v :
            IF CoerceToInt(v[1]) \notin 1 .. SizeOf(s, c[2]) THEN Fail(s)
            ELSE ArraySet(s, c[2], [s.arrays[c[2]] EXCEPT
                            ![CoerceToInt(v[1])] = Elements(c[2], <<v[2]>>)[1]]))
      [] c[1] = "MATINIT" -> With(<<c[3]>>, s, LAMBDA v :
            IF SizeOf(s, c[2]) = 0 THEN Fail(s)
            ELSE ArraySet(s, c[2], Elements(c[2], [i \in DOMAIN s.arrays[c[2]] |-> v[1]])))
      [] c[1] = "MATCOPY" ->
            IF SizeOf(s, c[2]) = 0 \/ SizeOf(s, c[2]) # SizeOf(s, c[3]) THEN Fail(s)
            ELSE ArraySet(s, c[2], Elements(c[2], s.arrays[c[3]]))
      [] c[1] = "MATREAD" -> With(<<c[4]>>, s, LAMBDA v :
            Fetch(s, c[3], RecordName(v[1]), FALSE, c[5], LAMBDA l, t :
                IF Len(Attributes(t)) # SizeOf(l, c[2]) \/ c[2] \notin DOMAIN l.arrays THEN Fail(l)
                ELSE ArraySet(l, c[2], Elements(c[2], [i \in DOMAIN t |-> <<"str", <<t[i]>> >>]))))
      [] c[1] = "MATWRITE" -> IF SizeOf(s, c[2]) = 0 THEN Fail(s)
            ELSE With(<<c[4]>>, s, LAMBDA v :
                Put(s, c[3], RecordName(v[1]), FALSE, c[5],
                    FlattenSeq([i \in DOMAIN s.arrays[c[2]] |-> ValueToString(s.arrays[c[2]][i])])))

\* NEXT goes on with the innermost loop.
ExecNext(s, name) ==
    IF s.loops = <<>> \/ name \notin {"", Last(s.loops).var} THEN Fail(s)
    ELSE LET f == Last(s.loops)
             cur == IF f.var \in DOMAIN s.vars THEN CoerceToInt(s.vars[f.var]) ELSE 0
             new == Wrap(cur + f.step)
             t == [s EXCEPT !.vars = (f.var :> IntValue(new)) @@ @]
         IN IF (f.step > 0 /\ new > f.limit) \/ (f.step < 0 /\ new < f.limit)
            THEN [t EXCEPT !.loops = Front(@)] ELSE [t EXCEPT !.at = f.body]

Exec(s, c) ==
    CASE c[1] = "LET" -> With(<<c[3]>>, s, LAMBDA v : Assigned(s, c[2], v[1]))
      [] c[1] = "INPUT" -> With(IF c[3] = None THEN <<>> ELSE <<c[3]>>, s, LAMBDA v :
            LET p == IF v = <<>> THEN s ELSE [s EXCEPT !.out = Append(@, ValueToString(v[1]))]
            IN IF p.in = <<>> THEN Fail(p)
               ELSE Assigned([p EXCEPT !.in = Tail(@)], c[2], Str(Head(p.in))))
      [] c[1] = "PRINT" -> With(<<c[2]>>, s, LAMBDA v :
            [s EXCEPT !.out = @ \o <<ValueToString(v[1])>> \o (IF c[3] THEN <<>> ELSE <<Plain("EOL")>>)])
      [] c[1] = "GOTO" -> GoTo(s, c[2])
      [] c[1] = "GOSUB" -> [GoTo(s, c[2]) EXCEPT !.calls = Append(@, s.at)]
      [] c[1] = "RETURN" -> IF s.calls = <<>> THEN Fail(s)
                            ELSE [s EXCEPT !.at = Last(s.calls), !.calls = Front(@)]
      [] c[1] = "IF" -> With(<<c[2]>>, s, LAMBDA v :
            IF v[1][1] # "int" THEN Fail(s) ELSE Take(s, IF v[1][2] # 0 THEN c[3] ELSE c[4]))
      [] c[1] = "FOR" -> With(<<c[3]>>, s, LAMBDA v :
            LET t == Assigned(s, c[2], v[1])
            IN IF t.mode = "error" THEN t
               ELSE With(<<c[4]>> \o (IF c[5] = None THEN <<>> ELSE <<c[5]>>), t, LAMBDA w :
                        LET step == IF c[5] = None THEN 1 ELSE CoerceToInt(w[2])
                        IN IF step = 0 THEN Fail(t)
                           ELSE [t EXCEPT !.loops = Append(@, [var |-> c[2], limit |-> CoerceToInt(w[1]),
                                                              step |-> step, body |-> t.at])]))
      [] c[1] = "NEXT" -> ExecNext(s, c[2])
      [] c[1] = "ONERROR" -> [s EXCEPT !.handler = c[2]]
      [] c[1] = "CHAIN" -> With(<<c[2]>>, s, LAMBDA v :
            IF ValueToString(v[1]) = EmptyText THEN Fail(s) ELSE [s EXCEPT !.mode = "chain"])
      [] c[1] \in {"STOP", "END"} -> [s EXCEPT !.mode = "halted"]
      [] c[1] = "CLEAR" -> [s EXCEPT !.vars = <<>>, !.arrays = <<>>]
      [] c[1] = "REM" -> s
      [] c[1] \in {"DIM", "LETARR", "MATINIT", "MATCOPY", "MATREAD", "MATWRITE"} -> ExecArray(s, c)
      [] OTHER -> ExecFile(s, c)

-----------------------------------------------------------------------------
(* The two machines side by side.                                          *)

Fresh(d, l, i, o) ==
    [at |-> 1, mode |-> "running", vars |-> <<>>, arrays |-> <<>>, files |-> <<>>, status |-> 0,
     handler |-> 0, calls |-> <<>>, loops |-> <<>>, disk |-> d, locks |-> l, in |-> i, out |-> o, lines |-> 0]

\* Where the code of a line starts; the code ends with the Halt the emitter added.
EndIp == IF Last(program.lines) = 0 THEN Size - 1 ELSE Size
IpOf(i) == IF i <= Len(text) THEN program.starts[i] ELSE EndIp
LineStarts == Range(program.starts) \cup {EndIp}

RECURSIVE PastRemarks(_)
PastRemarks(s) ==
    IF s.at <= Len(text) /\ s.mode = "running"
    THEN IF text[s.at][2][1] = "REM" THEN PastRemarks([s EXCEPT !.at = @ + 1]) ELSE s
    ELSE IF s.mode = "running" /\ EndIp = Size THEN [s EXCEPT !.mode = "halted"] ELSE s

\* The next line of the text.
SourceStep(s) ==
    LET n == [s EXCEPT !.at = @ + 1, !.lines = @ + 1]
    IN IF s.mode # "running" THEN s
       ELSE IF s.at > Len(text) THEN [s EXCEPT !.mode = "halted"]
       ELSE PastRemarks(Exec(n, text[s.at][2]))

LineDone == mode' \in {"halted", "error", "chain"} \/ ip' \in LineStarts

Init ==
    \E p \in Programs, e \in Environments :
       /\ program = p.image /\ text = p.text
       /\ ip = 0 /\ stack = <<>> /\ callStack = <<>> /\ forStack = <<>>
       /\ variables = <<>> /\ arrays = <<>> /\ openFiles = <<>>
       /\ statusCode = 0 /\ onErrorIp = None /\ interrupted = FALSE
       /\ mode = "running" /\ driver = "run" /\ chainTo = "" /\ breakpoints = {} /\ stepLine = 0
       /\ disk = e.disk /\ locks = e.locks /\ in = e.in /\ out = <<>>
       /\ strayed = FALSE /\ commands = 0
       /\ source = PastRemarks(Fresh(e.disk, e.locks, e.in, <<>>))

\* The machine executes an instruction; the interpreter follows at a line's end.
MachineStep ==
    /\ source.lines < MaxLines
    /\ ExecuteStep
    /\ source' = IF LineDone THEN SourceStep(source) ELSE source
    /\ UNCHANGED <<strayed, commands>>

Chaining ==
    /\ \/ ChainStarts /\ source' = [Fresh(disk, locks, in, out) EXCEPT !.lines = source.lines]
       \/ ChainFails /\ source' = [source EXCEPT !.mode = "halted"]
    /\ UNCHANGED <<strayed, commands>>

UserActs == commands < MaxCommands /\ text \in Debugged /\ commands' = commands + 1

BreakKey == UserActs /\ ~interrupted /\ Interrupt /\ UNCHANGED <<debugVars, source, strayed>>

\* At the prompt a user may go on, after an error without what the failed
\* instruction took off the stack.
AtDebugger ==
    /\ UserActs
    /\ \/ /\ \E how \in {"cont", "step"} : Resume(how)
          /\ strayed' = (strayed \/ mode = "error")
       \/ /\ \E n \in LineNumbers(text) : SetBreakpoint(n) \/ ClearBreakpoint(n)
          /\ UNCHANGED strayed
       \/ /\ Quit \/ \E n \in LineNumbers(text) : DebuggerGoto(n)
          /\ strayed' = TRUE
    /\ UNCHANGED source

DebuggerStops == DebuggerStop /\ UNCHANGED <<source, strayed, commands>>

Next == MachineStep \/ Chaining \/ BreakKey \/ AtDebugger \/ DebuggerStops

Spec == Init /\ [][Next]_vars

-----------------------------------------------------------------------------
(* Properties.                                                             *)

Following == ~strayed
BetweenLines == mode \in {"running", "interrupt"} /\ ip \in LineStarts

\* Between two lines no operand is left on the stack, whichever arms, ELSE
\* paths, handlers, loops and calls led there: what one statement pushes it
\* also takes.
StatementBalance == Following /\ BetweenLines => stack = <<>>

\* A return address or a loop's body stands for a line of the text.
Denotes(address, i) == IpOf(i) = Min({x \in LineStarts : x >= address})
SameFrames ==
    /\ Len(callStack) = Len(source.calls) /\ Len(forStack) = Len(source.loops)
    /\ \A i \in DOMAIN callStack : Denotes(callStack[i], source.calls[i])
    /\ \A i \in DOMAIN forStack :
        LET f == forStack[i] g == source.loops[i]
        IN <<f.var, f.limit, f.step>> = <<g.var, g.limit, g.step>> /\ Denotes(f.body, g.body)

\* Between two lines, whatever was interrupted and resumed on the way, the
\* machine is where the text says, with the variables, arrays, files, cursors,
\* locks, loops, subroutine calls, error handler and output the text says.
CompiledMeetsSource ==
    Following /\ BetweenLines =>
        /\ source.mode = "running" /\ ip = IpOf(source.at)
        /\ variables = source.vars /\ arrays = source.arrays
        /\ openFiles = source.files /\ disk = source.disk /\ locks = source.locks
        /\ in = source.in /\ out = source.out /\ statusCode = source.status
        /\ SameFrames
        /\ onErrorIp = IF source.handler = 0 THEN None ELSE <<IpOf(IndexOf(source.handler))>>


=============================================================================
