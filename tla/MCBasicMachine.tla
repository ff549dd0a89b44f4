--------------------------- MODULE MCBasicMachine ---------------------------
(***************************************************************************)
(* Programs for BasicMachine: every program of three lines over Pool, and  *)
(* programs for loops, subroutines, arrays and records.                    *)
(***************************************************************************)
EXTENDS BasicMachine

MCNumerals == "1.5" :> [number |-> <<3, 2>>, junk |-> FALSE] @@ "3X" :> [number |-> <<3, 1>>, junk |-> TRUE]
MCCollation == <<"", "1.5", "3X", "A", "B", "K1", "K2", "K3", "V", "W">>
MCIntNames == {"N%", "T%"}
MCStringNames == {"S$"}
MCSystemVars == "@USERNO" :> Str("7")
MCDictFields == "F2" :> [kind |-> "A", attr |-> 2] @@ "CALC" :> [kind |-> "I", attr |-> 1]
MCBadNames == {""}
MCArities == [n \in {"ABS", "SGN", "INT", "STR", "NUM"} |-> {1}] @@ [n \in {"STATUS"} |-> {0}]

I(n) == <<"int", n>>
S(s) == <<"str", s>>
V(x) == <<"var", x>>
Op2(op, l, r) == <<"bin", op, l, r>>
ToLine(n) == <<"line", n>>
Do(s) == <<"stmt", s>>
Let(v, e) == <<"LET", v, e>>
Show(e) == <<"PRINT", e, TRUE>>
If(c, t, e) == <<"IF", c, t, e>>
Open(arm) == <<"OPEN", S("A"), "F", arm>>
Read(kind, id, arm) == <<kind, "R", "F", S(id), arm>>
Write(kind, id, arm) == <<kind, V("A"), "F", S(id), arm>>

Pool ==
    {Let("A", I(5)),
     Let("A", Op2("+", V("A"), I(4))),
     Let("N%", <<"flt", <<3, 2>> >>),
     <<"PRINT", Op2("*", <<"neg", V("A")>>, I(2)), FALSE>>,
     <<"INPUT", "A", S("B")>>,
     <<"GOTO", 20>>,
     <<"GOSUB", 30>>,
     <<"RETURN">>,
     <<"END">>,
     <<"FOR", "A", I(1), I(2), None>>,
     <<"NEXT", "">>,
     If(Op2(">", V("A"), I(4)), ToLine(30), None),
     If(Op2("=", V("A"), I(5)), Do(<<"GOSUB", 30>>), Do(Show(S("W")))),
     If(Op2("<>", V("A"), I(5)), ToLine(20), Do(If(Op2("<=", V("A"), I(2)), Do(<<"STOP">>), None))),
     Open(None),
     Open(Do(<<"GOTO", 30>>)),
     Read("READ", "K1", Do(Let("A", S("V")))),
     Read("READU", "K1", None),
     <<"ONERROR", 30>>,
     <<"READNEXT", "R", "F", ToLine(30)>>}

Numbered(p) == [i \in 1 .. Len(p) |-> <<10 * i, p[i]>>]
Threes == {Numbered(<<a, b, c>>) : a, b, c \in Pool}

\* Loops: nested, with a negative step, left by GOTO, and at the largest int.
Loops ==
    {Numbered(<< <<"FOR", "A", I(1), I(2), None>>, <<"FOR", "N%", I(2), I(1), <<"neg", I(1)>> >>,
              Show(V("N%")), <<"NEXT", "N%">>, <<"NEXT", "A">>, Show(V("A"))>>),
     Numbered(<< <<"FOR", "A", I(1), I(3), None>>, If(Op2("=", V("A"), I(2)), ToLine(40), None),
              <<"NEXT", "A">>, Show(V("A")), <<"NEXT", "">>, <<"END">> >>),
     Numbered(<< <<"FOR", "A", I(6), I(7), None>>, <<"NEXT", "A">>, Show(V("A"))>>),
     Numbered(<< <<"REM">>, <<"FOR", "A", I(1), I(2), I(0)>>, <<"NEXT", "A">> >>),
     Numbered(<< <<"GOSUB", 30>>, <<"REM">>, <<"FOR", "A", I(1), I(2), None>>, <<"REM">>, <<"NEXT", "A">>, <<"REM">> >>)}

\* A subroutine called from both arms of an IF, and one that calls itself.
Calls ==
    {Numbered(<< If(Op2("=", I(1), I(n)), Do(<<"GOSUB", 40>>), Do(<<"GOSUB", 50>>)), Show(S("A")), <<"STOP">>,
              Show(S("B")), <<"RETURN">> >>) : n \in {1, 2}}
    \cup {Numbered(<<Let("A", I(1)), <<"GOSUB", 40>>, <<"END">>, Let("A", Op2("+", V("A"), I(1))),
                  If(Op2("<", V("A"), I(3)), Do(<<"GOSUB", 40>>), None), Show(V("A")), <<"RETURN">> >>)}

OutOfBounds == Numbered(<< <<"DIM", "U", I(2)>>, <<"LETARR", "U", I(3), I(1)>>, Show(S("A"))>>)
Arrays ==
    {Numbered(<< <<"DIM", "T%", I(2)>>, <<"LETARR", "T%", I(2), S("1.5")>>, <<"DIM", "U", I(2)>>,
              <<"MATINIT", "U", S("W")>>, <<"MATCOPY", "U", "T%">>, Show(<<"sub", "U", I(2)>>), <<"CLEAR">>,
              Show(<<"sub", "U", I(2)>>)>>),
     Numbered(<<Open(None), <<"DIM", "T%", I(2)>>, <<"MATREAD", "T%", "F", S("K2"), Do(Show(S("B")))>>,
             <<"MATINIT", "T%", I(3)>>, <<"MATWRITE", "T%", "F", S("K3"), ToLine(70)>>,
             Show(<<"sub", "T%", I(1)>>), <<"CLOSE", "F">>, <<"MATWRITE", "T%", "F", S("K3"), None>> >>),
     Numbered(<<Open(None), <<"DIM", "U", I(1)>>, <<"MATREAD", "U", "F", S("K2"), None>> >>),
     Numbered(<< <<"DIM", "@USERNO", I(1)>> >>), OutOfBounds}

Records ==
    {Numbered(<<Open(None), <<"ONERROR", 60>>, Let("A", S("V")), Write(k, id, arm), Show(S("A")),
             Show(<<"fn", "STATUS", <<>> >>), <<"RELEASE", "F", S(id)>>, <<"ONERROR", 0>>, Write(k, id, arm)>>)
        : k \in {"WRITE", "WRITEU"}, id \in {"K1", "K3", ""}, arm \in {None, Do(Show(S("B")))}}
    \cup {Numbered(<<Open(None), Read(k, id, arm), Show(<<"attr", "R", I(2), v>>)>>)
        : k \in {"READ", "READU"}, id \in {"K1", "K2", "K3", ""}, arm \in {None, ToLine(30), Do(<<"STOP">>)},
          v \in {None, I(2)}}
    \cup {Numbered(<<Open(None), <<"READNEXT", "R", "F", ToLine(60)>>, <<"WRITEV", S("W"), "F", S("K2"), n, v, arm>>,
                  <<"READV", "R", "F", S("K2"), n, v, arm>>, <<"READNEXT", "R", "F", None>>, Show(V("R"))>>)
        : n \in {I(2), I(4), <<"dict", "F2">>}, v \in {None, I(2)}, arm \in {None, Do(Show(S("B")))}}
    \cup {Numbered(<<Open(None), <<"READV", "R", "F", S(id), n, None, arm>>, Show(<<"fn", "NUM", <<V("R")>> >>)>>)
        : id \in {"K1", "K2"}, n \in {S("CALC"), S("V"), S("2"), I(1)}, arm \in {None, ToLine(30)}}
    \cup {Numbered(<<Let("A", <<"fn", "ABS", <<<<"neg", V("@USERNO")>>>> >>), Let("@USERNO", I(1)), Show(V("A"))>>),
          Numbered(<<Let("A", Op2("/", I(7), S("1.5"))), Show(V("A")), Let("S$", S("3X")),
                  If(Op2("<", V("S$"), S("A")), Do(Show(<<"fn", "INT", <<V("A")>> >>)), None), <<"CHAIN", S("W")>> >>),
          Numbered(<<Let("A", S("V")), Open(None), <<"CHAIN", S("V")>> >>),
          Numbered(<< <<"OPEN", S("B"), "F", Do(Show(S("B")))>>, <<"RELEASE", "F", S("K1")>> >>),
          Numbered(<< <<"OPEN", S("B"), "F", None>> >>), Numbered(<< <<"CHAIN", S("")>> >>)}

MCPrograms == {p \in {CompiledProgram(p) : p \in Threes \cup Loops \cup Calls \cup Arrays \cup Records} : p.image # Failed}

MCDebugged == Calls \cup {OutOfBounds, CHOOSE p \in Loops : Len(p) = 6 /\ p[6][2][1] = "PRINT"}

MCLibrary == "V" :> CompiledProgram(Numbered(<<Show(S("K1")), Read("READ", "K1", Do(Show(S("K2")))), Show(V("A"))>>))

Files == "A" :> ("K1" :> Plain("A") @@ "K2" :> << <<"1.5">>, <<"V", "W">> >>)
MCEnvironments ==
    {[disk |-> Files, locks |-> <<>>, in |-> <<"3X">>],
     [disk |-> Files, locks |-> <<"A", "K1">> :> "other", in |-> <<>>]}

=============================================================================
