---------------------------- MODULE BasicEmitter ----------------------------
(***************************************************************************)
(* The back end of the BASIC compiler: BasicSemanticAnalyzer checks the    *)
(* line numbers a program refers to, BasicBytecodeEmitter turns each line  *)
(* into instructions and patches the jumps between lines.                  *)
(* A jump to a line keeps the line's number until it is patched.           *)
(* The analyzer's normalized program has the same shape as the parser's,   *)
(* so one form stands for both; null subexpressions never leave the parser.*)
(***************************************************************************)
EXTENDS BasicSyntax

Bad == << <<"bad">> >>     \* what is emitted where the emitter reports an error

IsStringVar(name) == name \in StringNames
IsIntVar(name) == name \in IntNames

-----------------------------------------------------------------------------
(* BasicSemanticAnalyzer: every line a statement names must exist.         *)

RECURSIVE Targets(_)
TargetsOfArm(arm) == IF arm = None THEN {}
                     ELSE IF arm[1] = "line" THEN {arm[2]} ELSE Targets(arm[2])
Targets(s) ==
    CASE s[1] \in {"GOTO", "GOSUB"} -> {s[2]}
      [] s[1] = "ONERROR" -> {s[2]} \ {0}
      [] s[1] = "IF" -> TargetsOfArm(s[3]) \cup TargetsOfArm(s[4])
      [] s[1] \in {"OPEN", "READNEXT"} -> TargetsOfArm(s[4])
      [] s[1] \in {"READ", "READU", "WRITE", "WRITEU", "MATREAD", "MATWRITE"} -> TargetsOfArm(s[5])
      [] s[1] \in {"READV", "WRITEV"} -> TargetsOfArm(s[7])
      [] OTHER -> {}

LineNumbers(p) == {p[i][1] : i \in DOMAIN p}
Analyzed(p) == \A i \in DOMAIN p : Targets(p[i][2]) \subseteq LineNumbers(p)

-----------------------------------------------------------------------------
(* Expressions.                                                            *)

OpCodeOf(op) ==
    CASE op = "+" -> "Add" [] op = "-" -> "Sub" [] op = "*" -> "Mul" [] op = "/" -> "Div"
      [] op = "=" -> "Eq" [] op = "<>" -> "Ne" [] op = "<" -> "Lt" [] op = "<=" -> "Le"
      [] op = ">" -> "Gt" [] op = ">=" -> "Ge"

\* Whether an argument of a builtin is emitted as an arithmetic operand.
ArgInArithmetic(name, i) ==
    CASE name \in {"INDEX", "FIELD"} -> i = 3
      [] name \in {"OCONV", "ICONV", "CONVERT", "NUM", "SEQ", "LEN", "TRIM", "LCASE", "UCASE",
                   "DATE", "TIME"} -> FALSE
      [] OTHER -> TRUE

\* emitNode.  A $ name and a DICT token are refused as arithmetic operands.
RECURSIVE Expr(_, _)
BuiltinCall(name, args) ==
    IF name \notin DOMAIN Arities \/ Len(args) \notin Arities[name] THEN Bad
    ELSE LET implied == IF name = "INDEX" /\ Len(args) = 2 THEN << <<"PushInt", 1>> >> ELSE <<>>
         IN FlattenSeq([i \in DOMAIN args |-> Expr(args[i], ArgInArithmetic(name, i))])
                \o implied \o << <<"CallFunc", <<name, Len(args) + Len(implied)>> >> >>
Optional(e, default) == IF e = None THEN << <<"PushInt", default>> >> ELSE Expr(e, FALSE)
Expr(e, arith) ==
    CASE e[1] = "int" -> << <<"PushInt", e[2]>> >>
      [] e[1] = "flt" -> << <<"PushFlt", e[2]>> >>
      [] e[1] = "str" -> << <<"PushStr", << <<e[2]>> >> >> >>
      [] e[1] = "dict" -> IF arith THEN Bad ELSE << <<"PushStr", << <<e[2]>> >> >> >>
      [] e[1] = "var" -> IF arith /\ IsStringVar(e[2]) THEN Bad ELSE << <<"LoadVar", e[2]>> >>
      [] e[1] = "neg" -> << <<"PushInt", 0>> >> \o Expr(e[2], TRUE) \o << <<"Sub">> >>
      [] e[1] = "bin" -> LET numeric == e[2] \in {"+", "-", "*", "/"}
                         IN Expr(e[3], numeric) \o Expr(e[4], numeric) \o << <<OpCodeOf(e[2])>> >>
      [] e[1] = "grp" -> Expr(e[2], arith)
      [] e[1] = "sub" -> IF arith /\ IsStringVar(e[2]) THEN Bad
                         ELSE Expr(e[3], FALSE) \o << <<"LoadArr", e[2]>> >>
      [] e[1] = "attr" -> << <<"LoadVar", e[2]>> >> \o Expr(e[3], FALSE)
                            \o Optional(e[4], 0) \o << <<"ExtractAttr">> >>
      [] e[1] = "fn" -> BuiltinCall(e[2], e[3])

E(e) == Expr(e, FALSE)

-----------------------------------------------------------------------------
(* Statements.  The target of a jump inside a fragment of code counts from *)
(* the fragment's start; a jump to a line names the line.                  *)

RECURSIVE Arm(_)

Shifted(code, n) ==
    Explicit([k \in DOMAIN code |-> IF code[k][1] \in {"Jump", "JumpIfZero"}
                                    THEN <<code[k][1], code[k][2] + n>> ELSE code[k]])
Then(first, second) == first \o Shifted(second, Len(first))

\* Two paths for the flag on the stack.
Branches(yes, no) ==
    << <<"JumpIfZero", Len(yes) + 2>> >> \o Shifted(yes, 1)
        \o << <<"Jump", Len(yes) + Len(no) + 2>> >> \o Shifted(no, Len(yes) + 2)
Guarded(yes) == << <<"JumpIfZero", Len(yes) + 1>> >> \o Shifted(yes, 1)

\* % variables are coerced on assignment.
Assign(v) == (IF IsIntVar(v) THEN << <<"CoerceInt">> >> ELSE <<>>) \o << <<"StoreVar", v>> >>
LetCode(v, e) == E(e) \o Assign(v)
InputCode(v, prompt) ==
    (IF prompt = None THEN <<>> ELSE E(prompt) \o << <<"PrintVal">> >>)
        \o << <<"InputStr">> >> \o Assign(v)
GotoCode(n) == << <<"JumpToLine", n>> >>
PrintCode(e, suppressEol) ==
    E(e) \o << <<"PrintVal">> >> \o (IF suppressEol THEN <<>> ELSE << <<"PrintEol">> >>)

\* A THEN arm that is a line number never falls through, and is given no jump
\* over the ELSE arm.
IfCode(c, thenArm, elseArm) ==
    Then(E(c), IF elseArm = None THEN Guarded(Arm(thenArm))
               ELSE IF thenArm[1] = "line" THEN Then(Guarded(Arm(thenArm)), Arm(elseArm))
               ELSE Branches(Arm(thenArm), Arm(elseArm)))

\* Faulty variant: the fail path keeps the value that came with the flag.
FileCodeNoDrop(operands, op, fv, store, arm) ==
    IF arm = None THEN operands \o << <<op, fv>> >> \o store
    ELSE Then(operands \o << <<op \o "Try", fv>> >>, Branches(store, Arm(arm)))

\* The shape of OPEN, READ, WRITE and the like: with an ELSE arm the Try form
\* of the instruction pushes a flag on top of the value that store takes.
FileCode(operands, op, fv, store, arm) ==
    IF arm = None THEN operands \o << <<op, fv>> >> \o store
    ELSE Then(operands \o << <<op \o "Try", fv>> >>,
              Branches(store, Then(IF store = <<>> THEN <<>> ELSE << <<"Drop">> >>, Arm(arm))))

Stored(v) == << <<"StoreVar", v>> >>
Resolve(attr, kinds, fv) == IF attr[1] \in kinds THEN << <<"ResolveDictAttr", fv>> >> ELSE <<>>
ReadVCode(s) ==
    FileCode(E(s[4]) \o E(s[5]) \o Resolve(s[5], {"dict", "str"}, s[3]) \o Optional(s[6], 0),
             "ReadV", s[3], Stored(s[2]), s[7])
WriteVCode(s, kinds) ==
    FileCode(E(s[2]) \o E(s[4]) \o E(s[5]) \o Resolve(s[5], kinds, s[3]) \o Optional(s[6], 0),
             "WriteV", s[3], <<>>, s[7])

-----------------------------------------------------------------------------
(* emitInlineStatement: a statement in an arm.                             *)

InlineControl(s) ==
    CASE s[1] = "LET" -> LetCode(s[2], s[3])
      [] s[1] = "INPUT" -> InputCode(s[2], s[3])
      [] s[1] = "CHAIN" -> E(s[2]) \o << <<"Chain">> >>
      [] s[1] = "GOTO" -> GotoCode(s[2])
      [] s[1] = "GOSUB" -> << <<"CallLine", s[2]>> >>
      [] s[1] = "RETURN" -> << <<"Return">> >>
      [] s[1] = "IF" -> IfCode(s[2], s[3], s[4])
      [] s[1] = "PRINT" -> PrintCode(s[2], s[3])
      [] s[1] \in {"STOP", "END"} -> << <<"Halt">> >>

InlineOpenRead(s) ==
    CASE s[1] = "OPEN" -> FileCode(E(s[2]), "OpenFile", s[3], <<>>, s[4])
      [] s[1] = "READ" -> FileCode(E(s[4]), "ReadRec", s[3], Stored(s[2]), s[5])
      [] s[1] = "READU" -> FileCode(E(s[4]), "ReadRecU", s[3], Stored(s[2]), s[5])
      [] s[1] = "WRITEU" -> FileCode(E(s[2]) \o E(s[4]), "WriteRecU", s[3], <<>>, s[5])

InlineWriteNext(s) ==
    CASE s[1] = "RELEASE" -> E(s[3]) \o << <<"ReleaseRec", s[2]>> >>
      [] s[1] = "WRITE" -> FileCode(E(s[2]) \o E(s[4]), "WriteRec", s[3], <<>>, s[5])
      [] s[1] = "READNEXT" -> FileCode(<<>>, "ReadNext", s[3], Stored(s[2]), s[4])

\* Unlike a line of its own, a WRITEV in an arm resolves no DICT token.
InlineVector(s) ==
    CASE s[1] = "READV" -> ReadVCode(s)
      [] s[1] = "WRITEV" -> WriteVCode(s, {})
      [] s[1] = "CLOSE" -> << <<"CloseFile", s[2]>> >>
      [] s[1] = "CLEAR" -> << <<"ClearVars">> >>
      [] s[1] = "REM" -> <<>>
      [] OTHER -> Bad

Inline(s) ==
    CASE s[1] \in {"LET", "INPUT", "CHAIN", "GOTO", "GOSUB", "RETURN", "IF", "PRINT", "STOP", "END"} ->
            InlineControl(s)
      [] s[1] \in {"OPEN", "READ", "READU", "WRITEU"} -> InlineOpenRead(s)
      [] s[1] \in {"RELEASE", "WRITE", "READNEXT"} -> InlineWriteNext(s)
      [] OTHER -> InlineVector(s)

Arm(arm) == IF arm[1] = "line" THEN GotoCode(arm[2]) ELSE Inline(arm[2])

-----------------------------------------------------------------------------
(* A line: as in an arm, but for what only a line may hold.                *)

ForCode(s) ==
    IF IsStringVar(s[2]) THEN Bad
    ELSE LetCode(s[2], s[3]) \o E(s[4]) \o Optional(s[5], 1) \o << <<"ForSetup", s[2]>> >>

ArrayCode(s) ==
    CASE s[1] = "DIM" -> E(s[3]) \o << <<"DimArray", s[2]>> >>
      [] s[1] = "LETARR" -> E(s[4]) \o (IF IsIntVar(s[2]) THEN << <<"CoerceInt">> >> ELSE <<>>)
                                \o E(s[3]) \o << <<"StoreArr", s[2]>> >>

OnErrorCode(n) == IF n = 0 THEN << <<"SetOnErrorHandler", 0>> >> ELSE << <<"HandlerLine", n>> >>

MatCode(s) ==
    CASE s[1] = "MATCOPY" -> << <<"MatCopy", <<s[2], s[3]>> >> >>
      [] s[1] = "MATINIT" -> E(s[3]) \o << <<"MatInit", s[2]>> >>
      [] s[1] = "MATREAD" -> FileCode(E(s[4]), "ReadRec", s[3], << <<"MatLoadFromRec", s[2]>> >>, s[5])
      [] s[1] = "MATWRITE" -> FileCode(<< <<"MatStoreToRec", s[2]>> >> \o E(s[4]), "WriteRec", s[3], <<>>, s[5])

\* emit treats what an arm may hold too a second time, in the same way.
LineSimple(s) == InlineControl(s)
LineBranch(s) == InlineControl(s)
LineOpenRead(s) == InlineOpenRead(s)
LineUpdate(s) == IF s[1] = "WRITE" THEN InlineWriteNext(s) ELSE InlineOpenRead(s)
LineNext(s) == InlineWriteNext(s)
LineVector(s) == IF s[1] = "WRITEV" THEN WriteVCode(s, {"dict"}) ELSE ReadVCode(s)

Line(s) ==
    CASE s[1] \in {"LET", "INPUT", "CHAIN", "GOTO", "GOSUB", "RETURN"} -> LineSimple(s)
      [] s[1] = "FOR" -> ForCode(s)
      [] s[1] = "NEXT" -> << <<"ForNext", s[2]>> >>
      [] s[1] \in {"IF", "PRINT", "STOP", "END"} -> LineBranch(s)
      [] s[1] \in {"DIM", "LETARR"} -> ArrayCode(s)
      [] s[1] \in {"OPEN", "READ"} -> LineOpenRead(s)
      [] s[1] \in {"READU", "WRITE", "WRITEU"} -> LineUpdate(s)
      [] s[1] \in {"RELEASE", "READNEXT"} -> LineNext(s)
      [] s[1] = "ONERROR" -> OnErrorCode(s[2])
      [] s[1] \in {"READV", "WRITEV"} -> LineVector(s)
      [] s[1] \in {"MATINIT", "MATCOPY", "MATREAD", "MATWRITE"} -> MatCode(s)
      [] s[1] = "CLOSE" -> << <<"CloseFile", s[2]>> >>
      [] s[1] = "CLEAR" -> << <<"ClearVars">> >>
      [] s[1] = "REM" -> <<>>

-----------------------------------------------------------------------------
(* A program.                                                              *)

Failed == [code |-> <<>>, lines |-> <<>>, starts |-> <<>>]

StartOf(fragments, i) == Len(FlattenSeq(SubSeq(fragments, 1, i - 1)))

\* The jump fixups.
Patched(instr, p, starts) ==
    LET ipOf(n) == starts[CHOOSE i \in DOMAIN p : p[i][1] = n]
    IN CASE instr[1] = "JumpToLine" -> <<"Jump", ipOf(instr[2])>>
         [] instr[1] = "CallLine" -> <<"Call", ipOf(instr[2])>>
         [] instr[1] = "HandlerLine" -> <<"SetOnErrorHandler", ipOf(instr[2])>>
         [] OTHER -> instr

\* The lines' code one after the other, with the source line of each instruction.
Placed(fragment, p, starts) == Explicit([k \in DOMAIN fragment |-> Patched(fragment[k], p, starts)])
Linked(fragments, p, starts) ==
    [code |-> FlattenSeq([i \in DOMAIN p |-> Placed(Shifted(fragments[i], starts[i]), p, starts)]),
     lines |-> FlattenSeq([i \in DOMAIN p |-> [k \in DOMAIN fragments[i] |-> p[i][1]]]),
     starts |-> starts]

\* A program that does not end with the Halt of an END gets one.
WithHalt(e, p) ==
    IF (\E i \in DOMAIN p : p[i][2][1] = "END") /\ e.code # <<>> /\ Last(e.code)[1] = "Halt" THEN e
    ELSE [e EXCEPT !.code = Append(@, <<"Halt">>), !.lines = Append(@, 0)]

Assembled(fragments, p) ==
    IF \E i \in DOMAIN p : <<"bad">> \in Range(fragments[i]) THEN Failed
    ELSE WithHalt(Linked(fragments, p, Explicit([i \in DOMAIN p |-> StartOf(fragments, i)])), p)

Emit(p) == Assembled(Explicit([i \in DOMAIN p |-> Line(p[i][2])]), p)

\* BasicCompiler::compile, after the parser; no code when a phase fails.
Compile(p) == IF Analyzed(p) THEN Emit(p) ELSE Failed

=============================================================================
