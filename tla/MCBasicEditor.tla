--------------------------- MODULE MCBasicEditor ---------------------------
(***************************************************************************)
(* Programs for BasicEditor, and the reference printer: how a user writes  *)
(* a statement.                                                            *)
(***************************************************************************)
EXTENDS BasicEditor

MCNames == {"A", "B", "F", "R", "T%", "S$", "U", "LEN", "INDEX", "STATUS", "@USERNO"}
MCReadOnly == {"@USERNO"}
MCIntNames == {"T%"}
MCStringNames == {"S$"}
MCArities == [LEN |-> {1}, INDEX |-> {2, 3}, STATUS |-> {0}]
MCFunctionIds == [LEN |-> 3, INDEX |-> 12, STATUS |-> 21]
Digits ==
    <<"0", "1", "2", "3", "4", "5", "6", "7", "8", "9", "10", "11", "12", "13", "14",
      "15", "16", "17", "18", "19", "20", "21", "22", "23", "24", "25", "26", "27", "28", "29",
      "30", "31", "32", "33", "34", "35", "36", "37", "38", "39", "40", "41", "42", "43", "44",
      "45", "46", "47", "48", "49", "50", "51", "52", "53", "54", "55", "56", "57", "58", "59",
      "60", "61", "62", "63", "64", "65", "66", "67", "68", "69", "70", "71", "72", "73", "74">>
Values == [x \in Range(Digits) |-> (CHOOSE i \in DOMAIN Digits : Digits[i] = x) - 1] @@ <<>>
MCNumbers == Values
MCFloats == "1.5" :> <<3, 2>> @@ "1.2345678" :> <<12345678, 10000000>> @@ "1.23457" :> <<123457, 100000>>
MCShown == <<3, 2>> :> "1.5" @@ <<12345678, 10000000>> :> "1.23457" @@ <<123457, 100000>> :> "1.23457"
MCSpelling == "A B" :> <<"A", " ", "B">> @@ "A ELSE" :> <<"A", " ", "ELSE">> @@ "\\A" :> <<"\\", "A">>

-----------------------------------------------------------------------------
(* The reference printer.                                                  *)

RECURSIVE Text(_), TextList(_), Written(_)
Quoted(s) == <<"\"">> \o CharsOf(s) \o <<"\"">>
TextList(es) == IF es = <<>> THEN <<>> ELSE IF Len(es) = 1 THEN Text(es[1])
                ELSE Text(es[1]) \o <<",", " ">> \o TextList(Tail(es))
Text(e) ==
    CASE e[1] = "int" -> <<ToString(e[2])>>
      [] e[1] = "flt" -> <<CHOOSE x \in DOMAIN MCFloats : MCFloats[x] = e[2]>>
      [] e[1] = "str" -> Quoted(e[2])
      [] e[1] = "dict" -> <<"DICT", "<", e[2], ">">>
      [] e[1] = "var" -> <<e[2]>>
      [] e[1] = "neg" -> <<"-">> \o Text(e[2])
      [] e[1] = "bin" -> Text(e[3]) \o (IF e[2] = "*" THEN <<"*">> ELSE IF e[2] = "<>" THEN <<" ", "<", ">", " ">>
                                        ELSE IF e[2] = "<=" THEN <<" ", "<", "=", " ">> ELSE <<" ", e[2], " ">>) \o Text(e[4])
      [] e[1] = "grp" -> <<"(">> \o Text(e[2]) \o <<")">>
      [] e[1] = "sub" -> <<e[2], "(">> \o Text(e[3]) \o <<")">>
      [] e[1] = "attr" -> <<e[2], "<">> \o TextList(IF e[4] = None THEN <<e[3]>> ELSE <<e[3], e[4]>>) \o <<">">>
      [] e[1] = "fn" -> <<e[2], "(">> \o TextList(e[3]) \o <<")">>

ArmText(arm) == IF arm[1] = "line" THEN <<ToString(arm[2])>> ELSE Written(arm[2])
ElseText(arm) == IF arm = None THEN <<>> ELSE <<" ", "ELSE", " ">> \o ArmText(arm)
ListText(e, idx) == TextList(IF idx = None THEN <<e>> ELSE <<e, idx>>)
FileText(head, target, word, fv, id, arm) ==
    head \o <<" ">> \o target \o <<" ", word, " ", fv, ",", " ">> \o Text(id) \o ElseText(arm)
Written(s) ==
    CASE s[1] = "REM" -> <<"REM", " ", "GOTO", " ", "7">>
      [] s[1] = "LET" -> <<"LET", " ", s[2], "=">> \o Text(s[3])
      [] s[1] = "LETARR" -> <<"LET", " ", s[2], "(">> \o Text(s[3]) \o <<")", " ", "=", " ">> \o Text(s[4])
      [] s[1] = "DIM" -> <<"DIM", " ", s[2], "(">> \o Text(s[3]) \o <<")">>
      [] s[1] = "INPUT" -> <<"INPUT", " ">> \o (IF s[3] = None THEN <<>> ELSE Text(s[3]) \o <<",", " ">>) \o <<s[2]>>
      [] s[1] = "CHAIN" -> <<"CHAIN", " ">> \o Text(s[2])
      [] s[1] \in {"GOTO", "GOSUB"} -> <<s[1], " ", " ", ToString(s[2])>>
      [] s[1] \in {"RETURN", "CLEAR", "STOP", "END"} -> <<s[1]>>
      [] s[1] = "ONERROR" -> IF s[2] = 0 THEN <<"ON", " ", "ERROR", " ", "STOP">>
                             ELSE <<"ON", " ", "ERROR", " ", "GOTO", " ", ToString(s[2])>>
      [] s[1] = "OPEN" -> <<"OPEN", " ">> \o Text(s[2]) \o <<" ", "TO", " ", s[3]>> \o ElseText(s[4])
      [] s[1] \in {"READ", "READU"} -> FileText(<<s[1]>>, <<s[2]>>, "FROM", s[3], s[4], s[5])
      [] s[1] \in {"WRITE", "WRITEU"} -> FileText(<<s[1]>>, Text(s[2]), "ON", s[3], s[4], s[5])
      [] s[1] = "MATREAD" -> FileText(<<"MAT", " ", "READ">>, <<s[2]>>, "FROM", s[3], s[4], s[5])
      [] s[1] = "MATWRITE" -> FileText(<<"MAT", " ", "WRITE">>, <<s[2]>>, "ON", s[3], s[4], s[5])
      [] s[1] = "READNEXT" -> <<"READNEXT", " ", s[2], " ", "FROM", " ", s[3]>> \o ElseText(s[4])
      [] s[1] = "READV" -> <<"READV", " ", s[2], " ", "FROM", " ", s[3], ",", " ">> \o Text(s[4]) \o <<",", " ">>
                              \o ListText(s[5], s[6]) \o ElseText(s[7])
      [] s[1] = "WRITEV" -> <<"WRITEV", " ">> \o Text(s[2]) \o <<" ", "ON", " ", s[3], ",">> \o Text(s[4])
                              \o <<",", " ">> \o ListText(s[5], s[6]) \o ElseText(s[7])
      [] s[1] = "RELEASE" -> <<"RELEASE", " ", s[2], ",", " ">> \o Text(s[3])
      [] s[1] = "CLOSE" -> <<"CLOSE", " ", s[2]>>
      [] s[1] = "FOR" -> <<"FOR", " ", s[2], " ", "=", " ">> \o Text(s[3]) \o <<" ", "TO", " ">> \o Text(s[4])
                            \o (IF s[5] = None THEN <<>> ELSE <<" ", "STEP", " ">> \o Text(s[5]))
      [] s[1] = "NEXT" -> IF s[2] = "" THEN <<"NEXT">> ELSE <<"NEXT", " ", s[2]>>
      [] s[1] = "IF" -> <<"IF", " ">> \o Text(s[2]) \o <<" ", "THEN", " ">> \o ArmText(s[3]) \o ElseText(s[4])
      [] s[1] = "PRINT" -> <<"PRINT", " ">> \o Text(s[2]) \o (IF s[3] THEN <<";">> ELSE <<>>)
      [] s[1] = "MATINIT" -> <<"MAT", " ", s[2], " ", "=", " ">> \o Text(s[3])
      [] s[1] = "MATCOPY" -> <<"MAT", " ", s[2], "=", "MAT", " ", s[3]>>
MCTyped(s) == Written(s)

-----------------------------------------------------------------------------
I(n) == <<"int", n>>
S(s) == <<"str", s>>
V(x) == <<"var", x>>
Op2(op, l, r) == <<"bin", op, l, r>>
ToLine(n) == <<"line", n>>
Do(s) == <<"stmt", s>>
Let(v, e) == <<"LET", v, e>>
Show(e) == <<"PRINT", e, FALSE>>
If(c, t, e) == <<"IF", c, t, e>>
AIs(n) == Op2("=", V("A"), I(n))

Pool ==
    {Show(S("\\A")), If(AIs(1), ToLine(20), ToLine(5)), <<"GOTO", 20>>,
     If(Op2("<", V("A"), I(2)), Do(<<"GOTO", 20>>), ToLine(20))}

MCStatements == Pool

Listing(ss) == [n \in {10 * i : i \in DOMAIN ss} |-> ss[n \div 10]]
Loop == Listing(<< <<"FOR", "A", I(1), I(2), None>>, <<"PRINT", S("A B"), TRUE>>, <<"NEXT", "A">> >>)

\* Every statement and every form of expression, in programs that are loaded, edited once and compiled.
Forms ==
    << <<Let("A", Op2("-", Op2("-", V("A"), I(2)), Op2("*", <<"neg", V("B")>>, <<"grp", Op2("+", I(2), I(3))>>))),
         <<"DIM", "T%", I(2)>>, <<"LETARR", "T%", Op2("+", V("A"), I(1)), <<"flt", <<12345678, 10000000>> >> >> >>,
       <<Show(<<"fn", "INDEX", <<S("A B"), <<"sub", "S$", I(1)>>, I(2)>> >>), <<"INPUT", "A", None>>,
         <<"INPUT", "A", S("A B")>>, <<"GOSUB", 20>>, <<"CHAIN", V("S$")>> >>,
       << <<"OPEN", S("A"), "F", Do(<<"STOP">>)>>, <<"READ", "R", "F", S("A B"), ToLine(20)>>,
          <<"READU", "R", "F", V("A"), None>>, <<"WRITE", Op2("+", V("A"), I(1)), "F", S("B"), Do(Show(S("B")))>> >>,
       << <<"WRITEU", <<"attr", "R", I(1), I(2)>>, "F", V("A"), None>>, <<"READNEXT", "R", "F", ToLine(10)>>,
          <<"RELEASE", "F", S("B")>>, <<"CLOSE", "F">>, <<"ONERROR", 20>>, <<"ONERROR", 0>> >>,
       << <<"READV", "R", "F", S("B"), I(2), I(1), Do(Let("A", I(0)))>>,
          <<"READV", "R", "F", S("B"), <<"dict", "F2">>, None, None>>,
          <<"WRITEV", S("A"), "F", S("B"), <<"dict", "F2">>, None, ToLine(10)>> >>,
       << <<"MATINIT", "U", I(0)>>, <<"MATCOPY", "U", "T%">>, <<"MATREAD", "U", "F", S("B"), ToLine(10)>>,
          <<"MATWRITE", "U", "F", V("A"), None>>, <<"END">> >>,
       <<If(AIs(1), Do(If(Op2("<=", V("A"), I(2)), ToLine(20), None)), None),
         If(Op2("<>", V("A"), <<"fn", "STATUS", <<>> >>), Do(<<"CLEAR">>), Do(Show(<<"attr", "R", I(1), None>>))),
         <<"FOR", "A", I(3), I(1), <<"neg", I(1)>> >>, <<"NEXT", "">>, <<"RETURN">> >>,
       << <<"GOTO", 30>>, <<"END">>, <<"REM">> >> >>
Budget == [p \in {Loop} \cup {Listing(Forms[i]) : i \in DOMAIN Forms} |-> IF p = Loop THEN 2 ELSE 1]
MCSamples == Budget

\* LOOP: PUSH_INT 1 / JZ DONE / JUMP LOOP / DONE: HALT, the last label on a row of its own.
MCAssembled0 ==
    [object |-> [basicLines |-> <<>>,
                 rows |-> << <<"LOOP", "PUSH_INT", <<"1">> >>, <<"", "JZ", <<"DONE">> >>, <<"", "JUMP", <<"LOOP">> >>,
                             <<"DONE", "", <<>> >>, <<"", "HALT", <<>> >> >>],
     code |-> [code |-> << <<"PushInt", 1>>, <<"JumpIfZero", 3>>, <<"Jump", 0>>, <<"Halt">> >>, lines |-> <<1, 2, 3, 5>>]]

=============================================================================
