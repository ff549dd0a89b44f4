------------------------- MODULE MCProcInterpreter --------------------------
(***************************************************************************)
(* Every script of three to five lines over LOOP, REPEAT, EXIT, GO, a label *)
(* and an IF; every VOC of three entries that lead to each other; and      *)
(* scripts and commands for lists, locks, the VOC, nested scripts and      *)
(* errors, beside another session that acts up to twice.                   *)
(***************************************************************************)
EXTENDS ProcInterpreter

MCFiles == {"DATA", "VOC"}
MCIds == <<"A", "B", "C">>
MCAnswers == {<<"Y">>}
MCPeerTexts == {<<"9">>, <<"V", "^", "LOGOFF", "^">>}

Run == <<"PROC", "MAIN">>
Main(lines) == <<"PROC", "MAIN">> :> lines
Records == (<<"DATA", "A">> :> <<"1">>) @@ (<<"DATA", "C">> :> <<"2">>)

\* Loops and jumps.
LoopLines ==
    {<<"LOOP">>, <<"REPEAT">>, <<"EXIT">>, <<"GO", "L">>, <<":", "L">>,
     <<"IF", "P1", "=", "X", "THEN", "EXIT", "ELSE", "P1", "=", "X">>}
LoopWorkloads ==
    {[scripts |-> Main(lines), typed |-> <<Run>>, peer |-> 0, lists |-> FALSE, store |-> <<>>] :
        lines \in UNION {[1..n -> LoopLines] : n \in 3..5}}

\* Chains and rings in the VOC.
VocTexts == {<<type, "^", target, "^">> : type \in {"Q", "V"}, target \in {"A", "B", "C", "QUIT"}} \cup {<<"F">>}
VocWorkloads ==
    {[scripts |-> <<>>, typed |-> <<<<"A">>, <<"WRITE", "VOC", "A", "9">>, <<"B">>>>, peer |-> 0, lists |-> FALSE,
      store |-> (<<"VOC", "A">> :> a) @@ (<<"VOC", "B">> :> b) @@ (<<"VOC", "C">> :> c)] :
        a \in VocTexts, b \in VocTexts, c \in VocTexts}

\* Lists and locks.
ListScript ==
    << <<"SELECT", "@DEFDATA">>, <<"LOOP">>, <<"RN", "K">>, <<"EXITIF", "K", "=">>,
       <<"READU", "R", "DATA", "K">>,
       <<"IF", "PROCERR", "=", "?LOCKED?", "THEN", "D", "K", "ELSE", "WRITEU", "DATA", "K", "R", "1">>,
       <<"INPUT", "Z">>, <<"RELEASE", "K">>, <<"REPEAT">>, <<"E">> >>
TwoLists ==
    << <<"S", "DATA">>, <<"LOOP">>, <<"READNEXT", "K">>, <<"IF", "K", "=", "X", "X", "THEN", "D", "ELSE", "EXITIF", "K", "=">>,
       <<"INPUT", "Z">>, <<"REPEAT">>,
       <<"SELECT", "VOC">>, <<"LOOP">>, <<"READNEXT", "K">>, <<"EXITIF", "K", "=">>, <<"REPEAT">> >>
ListWorkloads ==
    {[scripts |-> Main(ListScript), typed |-> <<Run>>, peer |-> 2, lists |-> TRUE, store |-> Records],
     [scripts |-> Main(TwoLists), typed |-> <<Run, Run>>, peer |-> 1, lists |-> TRUE, store |-> Records]}

\* Scripts that a Tcl command disturbs, starts or ends.
TclInLoop(words) ==
    << <<"SELECT", "DATA">>, <<"LOOP">>, <<"READNEXT", "K">>, <<"EXITIF", "K", "=">>,
       <<"T">> \o words, <<"REPEAT">> >>
TclWorkloads ==
    {[scripts |-> Main(TclInLoop(words)) @@ (<<"DATA", "A">> :> <<<<"P3", "=", "P2", "P1">>, <<"RETURN">>>>),
      typed |-> <<Run, <<"DELETE-FILE", "DATA">>, Run>>, peer |-> 1, lists |-> TRUE, store |-> Records] :
        words \in {<<>>, <<"SELECT", "VOC">>, <<"CLEAR-LIST">>, <<"LOGOFF">>, <<"QUIT">>, <<"PROC", "SUB">>,
                   <<"READU", "K">>, <<"WRITEU", "K", "8">>, <<"WRITE", "DATA", "B", "K">>}}
    \cup
    {[scripts |-> Main(TclInLoop(words)) @@ (<<"DATA", "A">> :> <<<<"P3", "=", "P2", "P1">>, <<"RETURN">>>>),
      typed |-> <<Run>>, peer |-> 1, lists |-> TRUE,
      store |-> (<<"VOC", "A">> :> <<"F", "^", "DATA", "^">>) @@ Records] :
        words \in {<<"PROC", "A", "@LOGNAME">>, <<"PROC", "A", "K", "@DEFDATA">>}}

\* Scripts that change the VOC and use it.
VocScriptWorkloads ==
    {[scripts |-> Main(<< <<"WRITEU", "VOC", "B", "9">>, <<"INPUT", "X">>, <<"TCL">> \o words,
                          <<"WRITEU", "A", "X">> >>),
      typed |-> <<<<"CLEAR-LIST">>, Run>>, peer |-> 1, lists |-> FALSE,
      store |-> (<<"VOC", "C">> :> <<"F">>) @@ Records] :
        words \in {<<"RELEASE", "VOC", "B">>, <<"CREATE-VOC", "C", "V", "QUIT", "9">>, <<"CREATE-VOC", "C", "R", "QUIT">>, <<"DELETE-VOC", "B">>,
                   <<"DEFINE-FIELD", "VOC", "C", "2">>, <<"DELETE-FILE", "DATA">>, <<"CREATE-FILE", "DATA">>,
                   <<"PROC">>}}

\* The VOC is changed at the prompt.
PromptWorkloads ==
    {[scripts |-> <<>>, typed |-> typedLines, peer |-> 2, lists |-> FALSE, store |-> Records] : typedLines \in
       {<< <<"CREATE-VOC", "A", "V", "SELECT">>, <<"A", "DATA">>, <<"DELETE-VOC", "A">>, <<"A", "DATA">> >>,
        << <<"DEFINE-FIELD", "VOC", "A", "1">>, <<"WRITE", "VOC", "B", "V">>, <<"B">> >>,
        << <<"READU", "VOC", "A">>, <<"DELETE-FILE", "VOC">>, <<"CREATE-FILE", "VOC">>, <<"RELEASE", "VOC", "A">> >>,
        << <<"WRITEU", "A", "3">>, <<"LIST-VOC">>, <<"RELEASE", "A">>, <<"LOGOFF">> >>}}

\* One statement, right or wrong, and one that shows whether the script went on.
Statements ==
    { <<>>, <<":">>, <<":", "M">>, <<"INPUT", "@USERNO">>, <<"INPUT">>, <<"I", "X">>, <<"IF", "A", "THEN">>,
      <<"IF", "A", "=", "B", "THEN", "GO", "M">>, <<"IF", "A", "=", "A", "THEN", "IF", "A", "=", "A", "THEN", "G", "M">>,
      <<"GO">>, <<"EXIT">>, <<"EXITIF", "A">>, <<"EXITIF", "A", "=", "A">>,
      <<"IF", "A", "=", "A", "THEN", "LOOP">>, <<"IF", "A", "=", "A", "THEN", "REPEAT">>, <<"SELECT">>, <<"SELECT", "NONE">>, <<"READNEXT">>, <<"READNEXT", "X">>,
      <<"READNEXT", "@USERNO">>, <<"READU", "X">>, <<"READU", "X", "B">>, <<"READU", "X", "A">>, <<"READU", "X", "DATA", "A", "B">>,
      <<"WRITEU", "A">>, <<"WRITEU", "B", "8">>, <<"WRITEU", "DATA", "A", "@DEFDATA">>, <<"RELEASE">>, <<"RELEASE", "DATA", "A">>,
      <<"@USERNO", "=", "3">>, <<"X", "=", "@USERNO", "@ACCOUNT">>, <<"FOO">> }
StatementWorkloads ==
    {[scripts |-> Main(<<words, <<"WRITEU", "DATA", "C", "X">>, <<":", "M">> >>),
      typed |-> <<Run>>, peer |-> 1, lists |-> FALSE, store |-> Records] : words \in Statements}

MCWorkloads ==
    UNION {LoopWorkloads, VocWorkloads, ListWorkloads, TclWorkloads, VocScriptWorkloads,
           PromptWorkloads, StatementWorkloads}
=============================================================================
