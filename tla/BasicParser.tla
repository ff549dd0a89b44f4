----------------------------- MODULE BasicParser -----------------------------
(***************************************************************************)
(* The front end of the BASIC compiler: BasicStatementParser splits the    *)
(* text of a line at keywords and punctuation, BasicExpressionParser       *)
(* tokenizes and parses the pieces.                                        *)
(*                                                                         *)
(* A text is a sequence of lexemes: a word, a number, one character of     *)
(* punctuation, or " " for one blank.  The letters of words are upper case.*)
(* A result is a tree or Failure; which message an error carries is left   *)
(* out.                                                                    *)
(***************************************************************************)
EXTENDS BasicSyntax

CONSTANTS
    Names,        \* the lexemes that are valid variable names
    ReadOnly,     \* those that are system variables
    Numbers,      \* the lexemes of digits -> their values
    Floats        \* the lexemes of float literals -> their values

Failure == <<"failure">>
Make(ok, node) == IF ok THEN node ELSE Failure

-----------------------------------------------------------------------------
(* Texts.                                                                  *)

IsBlank(x) == x = " "
Trim(t) ==
    LET solid == {i \in DOMAIN t : ~IsBlank(t[i])}
    IN IF solid = {} THEN <<>> ELSE SubSeq(t, Min(solid), Max(solid))

First(t, x) == SelectInSeq(t, LAMBDA y : y = x)
Final(t, x) == SelectLastInSeq(t, LAMBDA y : y = x)
Before(t, i) == Trim(SubSeq(t, 1, i - 1))
After(t, i) == Trim(SubSeq(t, i + 1, Len(t)))
Concat(t) == FoldLeft(LAMBDA a, b : a \o b, "", t)


\* findKeywordToken: the first occurrence between blanks, in a literal too.
FindKeyword(t, word) ==
    LET found == {i \in DOMAIN t : /\ t[i] = word
                                   /\ i = 1 \/ IsBlank(t[i - 1])
                                   /\ i = Len(t) \/ IsBlank(t[i + 1])}
    IN IF found = {} THEN 0 ELSE Min(found)

\* The keyword is what comes before the first blank.
Keyword(t) == IF t # <<>> /\ (Len(t) = 1 \/ IsBlank(t[2])) THEN t[1] ELSE ""
Rest(t) == After(t, 1)

IsName(t) == Len(t) = 1 /\ t[1] \in Names
Writable(t) == IsName(t) /\ t[1] \notin ReadOnly
LineNumber(t) == IF Len(t) = 1 /\ t[1] \in DOMAIN Numbers THEN Numbers[t[1]] ELSE 0

-----------------------------------------------------------------------------
(* tokenizeExpression: a token is <<kind, value, adjacent>>, adjacent when *)
(* it follows the lexeme before it without a blank.                        *)

Operators == {"+", "-", "*", "/", "=", "<", ">", "(", ")", ","}
Adjacent(t, i) == i > 1 /\ ~IsBlank(t[i - 1])
PairAt(t, i) ==
    IF i = Len(t) THEN ""
    ELSE IF t[i] \in {"<", ">"} /\ t[i + 1] = "=" THEN t[i] \o "="
    ELSE IF t[i] = "<" /\ t[i + 1] = ">" /\ ~(i > 1 /\ t[i - 1] \in Names) THEN "<>"
    ELSE ""
ClosingQuote(t, i) == LET q == {j \in i + 1 .. Len(t) : t[j] = "\""}
                      IN IF q = {} THEN 0 ELSE Min(q)

\* The token at i and the place after it.
TokenAt(t, i) ==
    CASE t[i] = "\"" /\ ClosingQuote(t, i) = 0 -> Failure
      [] t[i] = "\"" /\ ClosingQuote(t, i) > 0 ->
            << <<"str", Concat(SubSeq(t, i + 1, ClosingQuote(t, i) - 1)), Adjacent(t, i)>>,
               ClosingQuote(t, i) + 1 >>
      [] t[i] \in DOMAIN Numbers -> << <<"int", Numbers[t[i]], Adjacent(t, i)>>, i + 1 >>
      [] t[i] \in DOMAIN Floats -> << <<"flt", Floats[t[i]], Adjacent(t, i)>>, i + 1 >>
      [] t[i] \in Names -> << <<"id", t[i], Adjacent(t, i)>>, i + 1 >>
      [] PairAt(t, i) # "" -> << <<"op", PairAt(t, i), Adjacent(t, i)>>, i + 2 >>
      [] t[i] \in Operators /\ PairAt(t, i) = "" -> << <<"op", t[i], Adjacent(t, i)>>, i + 1 >>
      [] OTHER -> Failure

RECURSIVE TokensFrom(_, _, _)
Continued(t, token, tokens) ==
    IF token = Failure THEN Failure ELSE TokensFrom(t, token[2], Append(tokens, token[1]))
TokensFrom(t, i, tokens) ==
    IF i > Len(t) THEN tokens
    ELSE IF IsBlank(t[i]) THEN TokensFrom(t, i + 1, tokens)
    ELSE Continued(t, TokenAt(t, i), tokens)

-----------------------------------------------------------------------------
(* ExpressionParser: a result is <<tree, place of the next token>>.        *)

RECURSIVE ParseComparison(_, _), ParseAddSub(_, _), ParseUnary(_, _)
RECURSIVE AddSubTail(_, _), MulDivTail(_, _), Arguments(_, _, _)

IsOp(ts, i, ops) == i <= Len(ts) /\ ts[i][1] = "op" /\ ts[i][2] \in ops
Joined(op, left, right) ==
    Make(right # Failure, << <<"bin", op, left[1], right[1]>>, right[2] >>)

\* At most one comparison.
ComparisonTail(ts, left) ==
    IF left = Failure \/ ~IsOp(ts, left[2], {"=", "<>", "<", "<=", ">", ">="}) THEN left
    ELSE Joined(ts[left[2]][2], left, ParseAddSub(ts, left[2] + 1))
ParseComparison(ts, i) == ComparisonTail(ts, ParseAddSub(ts, i))

MulDivTail(ts, left) ==
    IF left = Failure \/ ~IsOp(ts, left[2], {"*", "/"}) THEN left
    ELSE MulDivTail(ts, Joined(ts[left[2]][2], left, ParseUnary(ts, left[2] + 1)))
ParseMulDiv(ts, i) == MulDivTail(ts, ParseUnary(ts, i))

AddSubTail(ts, left) ==
    IF left = Failure \/ ~IsOp(ts, left[2], {"+", "-"}) THEN left
    ELSE AddSubTail(ts, Joined(ts[left[2]][2], left, ParseMulDiv(ts, left[2] + 1)))
ParseAddSub(ts, i) == AddSubTail(ts, ParseMulDiv(ts, i))

\* A call of a builtin; an array element; an attribute; a group.
Closed(ts, kind, inner, close) ==
    Make(inner # Failure /\ IsOp(ts, inner[2], {close}), <<Append(kind, inner[1]), inner[2] + 1>>)

WithArgument(ts, arg, args) ==
    IF arg = Failure THEN Failure
    ELSE IF IsOp(ts, arg[2], {","}) THEN Arguments(ts, arg[2] + 1, Append(args, arg[1]))
    ELSE <<Append(args, arg[1]), arg[2]>>
Arguments(ts, i, args) ==
    IF IsOp(ts, i, {")"}) THEN Make(args = <<>>, <<args, i>>)
    ELSE WithArgument(ts, ParseComparison(ts, i), args)
CallOf(ts, name, list) ==
    IF list = Failure THEN Failure
    ELSE Make(Len(list[1]) \in Arities[name], Closed(ts, <<"fn", name>>, list, ")"))

ValueIndex(ts, kind, index) == Closed(ts, kind, index, ">")
AttributeOf(ts, name, attr) ==
    IF attr = Failure THEN Failure
    ELSE IF IsOp(ts, attr[2], {","})
    THEN ValueIndex(ts, <<"attr", name, attr[1]>>, ParseAddSub(ts, attr[2] + 1))
    ELSE ValueIndex(ts, <<"attr", name, attr[1]>>, <<None, attr[2]>>)

ParsePrimary(ts, i) ==
    IF i > Len(ts) THEN Failure
    ELSE CASE ts[i][1] \in {"int", "flt", "str"} -> << <<ts[i][1], ts[i][2]>>, i + 1 >>
           [] ts[i][1] = "id" ->
                IF IsOp(ts, i + 1, {"("})
                THEN IF ts[i][2] \in DOMAIN Arities
                     THEN CallOf(ts, ts[i][2], Arguments(ts, i + 2, <<>>))
                     ELSE Closed(ts, <<"sub", ts[i][2]>>, ParseAddSub(ts, i + 2), ")")
                ELSE IF IsOp(ts, i + 1, {"<"}) /\ ts[i + 1][3]
                THEN AttributeOf(ts, ts[i][2], ParseAddSub(ts, i + 2))
                ELSE << <<"var", ts[i][2]>>, i + 1 >>
           [] IsOp(ts, i, {"("}) -> Closed(ts, <<"grp">>, ParseAddSub(ts, i + 1), ")")
           [] OTHER -> Failure

Negated(operand) == Make(operand # Failure, << <<"neg", operand[1]>>, operand[2] >>)
ParseUnary(ts, i) ==
    IF IsOp(ts, i, {"-"}) THEN Negated(ParseUnary(ts, i + 1)) ELSE ParsePrimary(ts, i)

Whole(ts, result) == Make(result # Failure /\ result[2] = Len(ts) + 1, result[1])
Parsed(ts) == IF ts = Failure THEN Failure ELSE Whole(ts, ParseComparison(ts, 1))
Expression(t) == Parsed(TokensFrom(t, 1, <<>>))

-----------------------------------------------------------------------------
(* Statements.  Every ELSE part starts at the first ELSE of the rest.      *)

RECURSIVE Statement(_)

\* parseBranchArmSpec.
ArmOf(stmt) == Make(stmt # Failure, <<"stmt", stmt>>)
BranchArm(t) ==
    IF LineNumber(t) > 0 THEN <<"line", LineNumber(t)>>
    ELSE IF t = <<>> \/ ":" \in Range(t) \/ Keyword(t) \in {"FOR", "NEXT"} THEN Failure
    ELSE ArmOf(Statement(t))

ElseArm(t) == IF FindKeyword(t, "ELSE") = 0 THEN None
              ELSE BranchArm(After(t, FindKeyword(t, "ELSE")))
MainPart(t) == IF FindKeyword(t, "ELSE") = 0 THEN t ELSE Before(t, FindKeyword(t, "ELSE"))

\* What is between the first parenthesis and the last.
Inside(t) == Trim(SubSeq(t, First(t, "(") + 1, Final(t, ")") - 1))

Assigned(name, e) == Make(Writable(name) /\ e # Failure, <<"LET", name[1], e>>)
AssignedArray(name, idx, e) ==
    Make(Writable(name) /\ idx # Failure /\ e # Failure, <<"LETARR", name[1], idx, e>>)
LetOf(lhs, rhs) ==
    IF "(" \in Range(lhs)
    THEN AssignedArray(Before(lhs, First(lhs, "(")), Expression(Inside(lhs)), Expression(rhs))
    ELSE Assigned(lhs, Expression(rhs))
LetStmt(r) == IF First(r, "=") = 0 THEN Failure
              ELSE LetOf(Before(r, First(r, "=")), After(r, First(r, "=")))

DimOf(name, size) == Make(Writable(name) /\ size # Failure, <<"DIM", name[1], size>>)
DimStmt(r) == IF First(r, "(") = 0 THEN Failure
              ELSE DimOf(Before(r, First(r, "(")), Expression(Inside(r)))

InputOf(name, prompt) == Make(Writable(name) /\ prompt # Failure, <<"INPUT", name[1], prompt>>)
InputStmt(r) == IF Final(r, ",") = 0 THEN InputOf(r, None)
                ELSE InputOf(After(r, Final(r, ",")), Expression(Before(r, Final(r, ","))))

Unary(kind, e) == Make(e # Failure, <<kind, e>>)
ChainStmt(r) == Unary("CHAIN", Expression(r))
JumpStmt(kind, r) == Make(LineNumber(r) > 0, <<kind, LineNumber(r)>>)
BareStmt(kind, r) == Make(r = <<>>, <<kind>>)

OnErrorStmt(r) ==
    IF Keyword(r) # "ERROR" THEN Failure
    ELSE IF Rest(r) = <<"STOP">> THEN <<"ONERROR", 0>>
    ELSE IF FindKeyword(Rest(r), "GOTO") = 0 THEN Failure
    ELSE JumpStmt("ONERROR", After(Rest(r), FindKeyword(Rest(r), "GOTO")))

OpenOf(e, fv, arm) == Make(e # Failure /\ IsName(fv) /\ arm # Failure, <<"OPEN", e, fv[1], arm>>)
OpenMain(m, to, arm) == IF to = 0 THEN Failure ELSE OpenOf(Expression(Before(m, to)), After(m, to), arm)
OpenStmt(r) == OpenMain(MainPart(r), FindKeyword(MainPart(r), "TO"), ElseArm(r))

\* <target> FROM <filevar>, <id> and <value> ON <filevar>, <id>.
ReadOf(kind, target, fv, id, arm) ==
    Make(IsName(target) /\ IsName(fv) /\ id # Failure /\ arm # Failure,
         <<kind, target[1], fv[1], id, arm>>)
ReadSplit(kind, target, a, arm) ==
    ReadOf(kind, target, Before(a, First(a, ",")), Expression(After(a, First(a, ","))), arm)
ReadMain(kind, m, from, arm) ==
    IF from = 0 THEN Failure ELSE ReadSplit(kind, Before(m, from), After(m, from), arm)
ReadStmt(kind, r) == ReadMain(kind, MainPart(r), FindKeyword(MainPart(r), "FROM"), ElseArm(r))
ReadUStmt(r) == ReadStmt("READU", r)

WriteOf(kind, e, fv, id, arm) ==
    Make(e # Failure /\ IsName(fv) /\ id # Failure /\ arm # Failure, <<kind, e, fv[1], id, arm>>)
WriteSplit(kind, e, a, arm) ==
    WriteOf(kind, e, Before(a, First(a, ",")), Expression(After(a, First(a, ","))), arm)
WriteMain(kind, m, on, arm) ==
    IF on = 0 THEN Failure ELSE WriteSplit(kind, Expression(Before(m, on)), After(m, on), arm)
WriteStmt(kind, r) == WriteMain(kind, MainPart(r), FindKeyword(MainPart(r), "ON"), ElseArm(r))
WriteUStmt(r) == WriteStmt("WRITEU", r)

ReadNextOf(target, fv, arm) ==
    Make(IsName(target) /\ IsName(fv) /\ arm # Failure, <<"READNEXT", target[1], fv[1], arm>>)
ReadNextMain(m, from, arm) ==
    IF from = 0 THEN Failure ELSE ReadNextOf(Before(m, from), After(m, from), arm)
ReadNextStmt(r) == ReadNextMain(MainPart(r), FindKeyword(MainPart(r), "FROM"), ElseArm(r))

\* getline on commas, blind to literals and calls: an empty last piece is lost.
RECURSIVE Pieces(_)
Pieces(t) == IF t = <<>> THEN <<>>
             ELSE IF First(t, ",") = 0 THEN <<Trim(t)>>
             ELSE <<Before(t, First(t, ","))>> \o Pieces(SubSeq(t, First(t, ",") + 1, Len(t)))

\* tryParseDictFieldToken: DICT<token>, the token perhaps in quotes.
Unquoted(t) == IF Len(t) >= 2 /\ t[1] \in {"\"", "'"} /\ Last(t) = t[1]
               THEN Trim(SubSeq(t, 2, Len(t) - 1)) ELSE t
DictToken(t) == Make(t # <<>>, <<"dict", Concat(t)>>)
AttributeArg(t) ==
    IF Len(t) >= 2 /\ t[1] = "DICT" /\ t[2] = "<"
    THEN IF Last(t) = ">" THEN DictToken(Unquoted(Trim(SubSeq(t, 3, Len(t) - 1)))) ELSE Failure
    ELSE Expression(t)

VectorOf(head, args, id, attr, idx, arm) ==
    Make(IsName(args[1]) /\ id # Failure /\ attr # Failure /\ idx # Failure /\ arm # Failure,
         head \o <<args[1][1], id, attr, idx, arm>>)
VectorArgs(head, args, arm) ==
    IF Len(args) \notin {3, 4} THEN Failure
    ELSE VectorOf(head, args, Expression(args[2]), AttributeArg(args[3]),
                  IF Len(args) = 4 THEN Expression(args[4]) ELSE None, arm)
ReadVMain(m, from, arm) ==
    IF from = 0 \/ ~IsName(Before(m, from)) THEN Failure
    ELSE VectorArgs(<<"READV", Before(m, from)[1]>>, Pieces(After(m, from)), arm)
ReadVStmt(r) == ReadVMain(MainPart(r), FindKeyword(MainPart(r), "FROM"), ElseArm(r))
WriteVValue(e, args, arm) == IF e = Failure THEN Failure ELSE VectorArgs(<<"WRITEV", e>>, args, arm)
WriteVMain(m, on, arm) ==
    IF on = 0 THEN Failure
    ELSE WriteVValue(Expression(Before(m, on)), Pieces(After(m, on)), arm)
WriteVStmt(r) == WriteVMain(MainPart(r), FindKeyword(MainPart(r), "ON"), ElseArm(r))

ReleaseOf(fv, id) == Make(IsName(fv) /\ id # Failure, <<"RELEASE", fv[1], id>>)
ReleaseStmt(r) == ReleaseOf(Before(r, First(r, ",")), Expression(After(r, First(r, ","))))
CloseStmt(r) == Make(IsName(r), <<"CLOSE", r[1]>>)

\* An empty STEP is no STEP.
ForOf(name, init, limit, step) ==
    Make(Writable(name) /\ init # Failure /\ limit # Failure /\ step # Failure,
         <<"FOR", name[1], init, limit, step>>)
StepOf(t) == IF t = <<>> THEN None ELSE Expression(t)
ForTo(name, init, a, step) ==
    IF step = 0 THEN ForOf(name, init, Expression(a), None)
    ELSE ForOf(name, init, Expression(Before(a, step)), StepOf(After(a, step)))
ForRange(name, a, to) ==
    IF to = 0 THEN Failure
    ELSE ForTo(name, Expression(Before(a, to)), After(a, to), FindKeyword(After(a, to), "STEP"))
ForStmt(r) ==
    IF First(r, "=") = 0 THEN Failure
    ELSE ForRange(Before(r, First(r, "=")), After(r, First(r, "=")),
                  FindKeyword(After(r, First(r, "=")), "TO"))
NextStmt(r) == IF r = <<>> THEN <<"NEXT", "">> ELSE Make(Writable(r), <<"NEXT", r[1]>>)

IfOf(c, thenArm, elseArm) ==
    Make(c # Failure /\ thenArm # Failure /\ elseArm # Failure, <<"IF", c, thenArm, elseArm>>)
IfStmt(r) ==
    IF FindKeyword(r, "THEN") = 0 THEN Failure
    ELSE IfOf(Expression(Before(r, FindKeyword(r, "THEN"))),
              BranchArm(MainPart(After(r, FindKeyword(r, "THEN")))),
              ElseArm(After(r, FindKeyword(r, "THEN"))))

PrintOf(e, suppressEol) == Make(e # Failure, <<"PRINT", e, suppressEol>>)
PrintStmt(r) == IF r # <<>> /\ Last(r) = ";" THEN PrintOf(Expression(Trim(Front(r))), TRUE)
                ELSE PrintOf(Expression(r), FALSE)

\* The array of a MAT statement may not be a system variable.
MatFile(name, stmt) == Make(Writable(name), stmt)
MatTransfer(kind, r, connector) ==
    MatFile(Before(MainPart(r), FindKeyword(MainPart(r), connector)),
            ReadMain(kind, MainPart(r), FindKeyword(MainPart(r), connector), ElseArm(r)))
MatInit(name, e) == Make(e # Failure, <<"MATINIT", name[1], e>>)
MatAssign(name, rhs) ==
    IF ~Writable(name) THEN Failure
    ELSE IF Keyword(rhs) = "MAT" THEN Make(IsName(Rest(rhs)), <<"MATCOPY", name[1], Rest(rhs)[1]>>)
    ELSE MatInit(name, Expression(rhs))
MatStmt(r) ==
    CASE Keyword(r) = "READ" -> MatTransfer("MATREAD", Rest(r), "FROM")
      [] Keyword(r) = "WRITE" -> MatTransfer("MATWRITE", Rest(r), "ON")
      [] OTHER -> IF First(r, "=") = 0 THEN Failure
                  ELSE MatAssign(Before(r, First(r, "=")), After(r, First(r, "=")))

Statement(t) ==
    CASE Keyword(t) = "REM" -> <<"REM">>
      [] Keyword(t) = "LET" -> LetStmt(Rest(t))
      [] Keyword(t) = "DIM" -> DimStmt(Rest(t))
      [] Keyword(t) = "INPUT" -> InputStmt(Rest(t))
      [] Keyword(t) = "CHAIN" -> ChainStmt(Rest(t))
      [] Keyword(t) \in {"GOTO", "GOSUB"} -> JumpStmt(Keyword(t), Rest(t))
      [] Keyword(t) \in {"RETURN", "CLEAR", "STOP", "END"} -> BareStmt(Keyword(t), Rest(t))
      [] Keyword(t) = "ON" -> OnErrorStmt(Rest(t))
      [] Keyword(t) = "OPEN" -> OpenStmt(Rest(t))
      [] Keyword(t) = "READ" -> ReadStmt("READ", Rest(t))
      [] Keyword(t) = "READU" -> ReadUStmt(Rest(t))
      [] Keyword(t) = "WRITE" -> WriteStmt("WRITE", Rest(t))
      [] Keyword(t) = "WRITEU" -> WriteUStmt(Rest(t))
      [] Keyword(t) = "READNEXT" -> ReadNextStmt(Rest(t))
      [] Keyword(t) = "READV" -> ReadVStmt(Rest(t))
      [] Keyword(t) = "WRITEV" -> WriteVStmt(Rest(t))
      [] Keyword(t) = "RELEASE" -> ReleaseStmt(Rest(t))
      [] Keyword(t) = "CLOSE" -> CloseStmt(Rest(t))
      [] Keyword(t) = "FOR" -> ForStmt(Rest(t))
      [] Keyword(t) = "NEXT" -> NextStmt(Rest(t))
      [] Keyword(t) = "IF" -> IfStmt(Rest(t))
      [] Keyword(t) = "PRINT" -> PrintStmt(Rest(t))
      [] Keyword(t) = "MAT" -> MatStmt(Rest(t))
      [] OTHER -> Failure

\* BasicStatementParser::parse: blank lines are skipped, one bad line fails all.
Ordered(lines) == Sorted({n \in DOMAIN lines : Trim(lines[n]) # <<>>})
ParsedLines(lines, numbers) ==
    Explicit([i \in DOMAIN numbers |-> <<numbers[i], Statement(Trim(lines[numbers[i]]))>>])
AllParsed(p) == Make(\A i \in DOMAIN p : p[i][2] # Failure, p)
ParseProgram(lines) == AllParsed(ParsedLines(lines, Ordered(lines)))

=============================================================================
