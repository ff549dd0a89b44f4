-------------------------- MODULE MCEnglishQueries -------------------------
(***************************************************************************)
(* Workloads for EnglishQueries, each family enumerated on its own: page   *)
(* layout, sort keys, dictionaries, expressions, and an active list that   *)
(* other sessions make stale.                                              *)
(***************************************************************************)
EXTENDS EnglishQueries

MCNumeric == [t \in {ToString(n) : n \in -30..60} |-> CHOOSE n \in -30..60 : ToString(n) = t]

MCLiterals == ("'x'" :> "x") @@ ("'MCU'" :> "MCU") @@ ("'MD'" :> "MD")

MCCollation ==
    <<"", "-1", "-10", "-11", "-12", "-13", "-14", "-15", "-16", "-17", "-18", "-19", "-2",
      "-20", "-21", "-22", "-23", "-24", "-25", "-26", "-27", "-28", "-29", "-3", "-30",
      "-4", "-5", "-6", "-7", "-8", "-9", "0", "1", "10", "11", "12", "13", "14", "15", "16",
      "17", "18", "19", "2", "20", "21", "22", "23", "24", "25", "26", "27", "28", "29", "3",
      "30", "31", "32", "33", "34", "35", "36", "37", "38", "39", "4", "40", "41", "42",
      "43", "44", "45", "46", "47", "48", "49", "5", "50", "51", "52", "53", "54", "55",
      "56", "57", "58", "59", "6", "60", "7", "8", "9", "M", "N", "P", "PAGE", "R1", "R2",
      "R3", "R4", "X", "x">>

MCUpperCase == [t \in ToSet(MCCollation) |-> IF t = "x" THEN "X" ELSE t]
MCLowerCase == [t \in ToSet(MCCollation) |-> IF t = "X" THEN "x" ELSE t]

MCTemplates == [h |-> <<"PAGE", "@PAGE", "@1">>, f |-> <<"@PAGE", "@2">>]

\* A record of single values, and dictionary items.
Rec(a, b) == <<<<a>>, <<b>>>>

Item(type, text) ==
    [type |-> type, text |-> text, tail |-> "", expr |-> <<>>, meant |-> {}, hints |-> <<"", "", "", "">>]
Hinted(item, code) == [item EXCEPT !.hints[3] = code]

Work(recs, items, lines, length, peers) ==
    [data |-> recs, dicts |-> items, script |-> lines, pageLength |-> length, peerSteps |-> peers]

NoItems == << >>

MCPeerRecords == {Rec("1", "2"), Rec("x", "")}

-----------------------------------------------------------------------------
(* Layout: every combination of clauses and page lengths up to 4, on every  *)
(* file of four records.                                                   *)

LayoutLines ==
    {<<"LIST", "DATA", "1">> \o h \o f \o b \o t \o s :
        h \in {<<>>, <<"HEADING", "h">>}, f \in {<<>>, <<"FOOTING", "f">>},
        b \in {<<>>, <<"BREAK-ON", "1">>}, t \in {<<>>, <<"TOTAL", "1">>}, s \in {<<>>, <<"ID-SUPP">>}}

LayoutWork ==
    {Work([id \in {"R1", "R2", "R3", "R4"} |-> Rec(a[id], "2")], [DICT |-> NoItems],
          <<<<"SET", "PAGE-LENGTH", n>>, l>>, 4, 0) :
        a \in [{"R1", "R2", "R3", "R4"} -> {"1", "2", "x"}], l \in LayoutLines, n \in {"1", "2", "3", "0"}}

-----------------------------------------------------------------------------
(* Sorting: by numbers and blanks, with and without a conversion.           *)

SortLines ==
    {<<"SORT", "DATA", "1">> \o k :
        k \in {<<>>, <<"BY", "N">>, <<"BY-DSND", "N">>, <<"BY", "BY-DSND", "N">>, <<"BY", "BY-DSND", "2", "N">>,
               <<"BY", "2", "BY-DSND", "N", "BREAK-ON", "2", "TOTAL", "N">>, <<"BY", "BY-DSND">>}}
       \cup {<<"LIST", "DATA", "BY", "N">>, <<"LIST", "DATA", "N", "WITH", "2">>}

SortWork ==
    {Work([id \in {"R1", "R2", "R3"} |-> Rec(a[id], IF id = "R2" THEN "1" ELSE b)],
          [DICT |-> [N |-> Hinted(Item("A", "1"), code)]], <<l>>, 4, 0) :
        a \in [{"R1", "R2", "R3"} -> {"", "2", "10", "x"}], b \in {"1", "2"}, l \in SortLines,
        code \in {"", "MD", "Q"}}

-----------------------------------------------------------------------------
(* Dictionaries: chains of synonyms over two dictionaries, F items, and     *)
(* peers that lock an item.                                                *)

Chosen(f) == [t \in {x \in DOMAIN f : f[x].type # ""} |-> f[t]]

Absent == Item("", "")

DictWork ==
    {Work([id \in {"R1"} |-> Rec("1", "2")], [DICT |-> Chosen(g)] @@ (IF s THEN "DICT-DATA" :> Chosen(d) ELSE NoItems),
          <<<<"LIST", "DATA", "N">>>>, 4, 1) :
        g \in [N : {Absent, Item("A", "2"), Item("S", "M")}, M : {Absent, Item("A", "2"), Item("S", "N")}],
        d \in [N : {Absent, Item("A", "1"), Item("S", "M")}, M : {Absent, Item("A", "1"), Item("S", "N"), Item("S", "1")}],
        s \in BOOLEAN}

FWork ==
    {Work([id \in {"R1", "R2"} |-> IF id = "R1" THEN <<<<"x", "2", "R3">>>> ELSE Rec("1", "x")],
          [DICT |-> [N |-> [Item("F", n) EXCEPT !.tail = t]]], <<<<"LIST", "DATA", "ID-SUPP", "N">>>>, 4, 0) :
        n \in {"1", "2", "x"}, t \in {"", "L", "R", "2", "9", "MCU", "MD", "Q"}}

DefineWork ==
    {Work([id \in {"R1"} |-> Rec("1", "2")], d,
          <<<<"LIST", "DATA", "N">>, <<"DEFINE-FIELD", "DICT-DATA", "N", n>>, <<"LIST", "DATA", "N">>>>, 4, 1) :
        n \in {"2", "0"}, d \in {[DICT |-> NoItems], [DICT |-> [N |-> Item("A", "1")]] @@ ("DICT-DATA" :> NoItems)}}

-----------------------------------------------------------------------------
(* Expressions: trees, written with the parentheses the grammar needs.      *)

Leaves == {Node("field", "A", <<>>), Node("field", "B", <<>>), Node("number", "3", <<>>)}

Binary(ops, L, R) == {Node(o, "", <<l, r>>) : o \in ops, l \in L, r \in R}
Negated(S) == {Node("neg", "", <<e>>) : e \in S}

Small == Binary({"+", "-", "*"}, Leaves, Leaves) \cup Negated(Leaves)

Arithmetics ==
    Leaves \cup Small \cup Binary({"+", "-", "*"}, Small, Leaves) \cup Binary({"+", "-", "*"}, Leaves, Small)
       \cup Negated(Small)

Quotients ==
    LET six == Node("*", "", <<Node("number", "3", <<>>), Node("field", "B", <<>>)>>)
    IN Binary({"/"}, {six, Node("/", "", <<six, Node("number", "3", <<>>)>>)},
              {Node("field", "B", <<>>), Node("number", "1", <<>>), Node("-", "", <<Node("field", "B", <<>>), Node("field", "B", <<>>)>>)})

Conditionals ==
    {Node("IF", "", <<Node(o, "", <<Node("field", "A", <<>>), r>>), Node("field", "B", <<>>), e>>) :
        o \in Comparisons, r \in {Node("field", "B", <<>>), Node("string", "'x'", <<>>)},
        e \in {Node("number", "1", <<>>),
               Node("IF", "", <<Node("=", "", <<Node("field", "A", <<>>), Node("number", "3", <<>>)>>),
                                Node("number", "3", <<>>), Node("neg", "", <<Node("number", "1", <<>>)>>)>>)}}

Calls ==
    {Node(o, "", <<v, Node("string", c, <<>>)>>) :
        o \in {"ICONV", "OCONV"}, c \in {"'x'", "'MCU'", "'MD'"},
        v \in {Node("field", "A", <<>>), Node("+", "", <<Node("field", "A", <<>>), Node("number", "1", <<>>)>>)}}

Level(e) == CASE e.op \in {"+", "-"} -> 1 [] e.op \in {"*", "/"} -> 2 [] e.op = "neg" -> 3 [] OTHER -> 4

RECURSIVE Printed(_)
Printed(e) ==
    LET Inside(a, level) == IF Level(a) < level THEN <<"(">> \o Printed(a) \o <<")">> ELSE Printed(a)
    IN CASE e.op \in {"number", "string", "field"} -> <<e.val>>
         [] e.op = "neg" -> <<"-">> \o Inside(e.args[1], 3)
         [] e.op = "IF" -> <<"IF">> \o Printed(e.args[1]) \o <<"THEN">> \o Printed(e.args[2])
                              \o <<"ELSE">> \o Printed(e.args[3])
         [] e.op \in {"ICONV", "OCONV"} ->
               <<e.op, "(">> \o Printed(e.args[1]) \o <<",">> \o Printed(e.args[2]) \o <<")">>
         [] e.op \in Comparisons -> Printed(e.args[1]) \o <<e.op>> \o Printed(e.args[2])
         [] OTHER -> Inside(e.args[1], Level(e)) \o <<e.op>> \o Inside(e.args[2], Level(e) + 1)

Expression(e) == [Item("I", "") EXCEPT !.expr = Printed(e), !.meant = {e}]

ExpressionWork ==
    LET Case(recs, e) == Work(recs, [DICT |-> [N |-> Expression(e)]], <<<<"LIST", "DATA", "N">>>>, 4, 0)
        R(a, b) == [id \in {"R1"} |-> Rec(a, b)]
    IN {Case(R("7", "2"), e) : e \in Arithmetics \cup Quotients}
          \cup {Case(R("x", "2"), e) : e \in Small \cup Calls}
          \cup {Case(R(a, b), e) : a, b \in {"", "0", "2", "10", "x"}, e \in Conditionals}

-----------------------------------------------------------------------------
(* The active list, used after other sessions have changed the file.        *)

ListLines ==
    {<<"COUNT">>, <<"LIST", "1">>, <<"LIST", "N">>, <<"SORT", "1">>, <<"SORT", "BY", "1">>,
     <<"SORT", "BY", "BY-DSND", "1">>, <<"LIST", "WITH", "1">>, <<"SORT", "DATA", "1">>, <<"LIST", "DATA">>,
     <<"LIST", "DATA", "HEADING", "h", "FOOTING", "f">>, <<"COUNT", "DATA">>, <<"LIST">>, <<"SORT">>}

ListWork ==
    {Work([id \in {"R1", "R2"} |-> Rec(IF id = "R1" THEN "2" ELSE "1", "1")], [DICT |-> NoItems],
          <<s, l, <<"CLEAR-LIST">>, m>>, 2, 2) :
        s \in {<<"SELECT", "DATA">>, <<"SELECT", "HEADING", "h", "DATA">>, <<"SELECT", "DATA", "FOOTING", "f">>,
               <<"SELECT", "DATA", "N">>, <<"SELECT">>},
        l \in ListLines, m \in {<<"COUNT">>, <<"LIST", "1">>}}

MCWorkloads == LayoutWork \cup SortWork \cup DictWork \cup FWork \cup DefineWork \cup ExpressionWork \cup ListWork
=============================================================================
