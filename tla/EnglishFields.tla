---------------------------- MODULE EnglishFields ---------------------------
(***************************************************************************)
(* The fields of ENGLISH queries: the dictionary items that define them,   *)
(* DictionaryResolver, and the correlative engine that computes a cell --  *)
(* F items and the expressions of I items, parsed by recursive descent and *)
(* evaluated on a record.                                                  *)
(*                                                                         *)
(* A record is a sequence of attributes, an attribute a sequence of values *)
(* and a value a text.  An expression is the sequence of its tokens: the   *)
(* character level of the lexer and letter case are left out.  What is     *)
(* std::optional in the code is a set of at most one element.              *)
(***************************************************************************)
EXTENDS Integers, Sequences, FiniteSetsExt, TLC

CONSTANTS
    Numeric,    \* the texts std::stod accepts, with the number it reads
    Literals,   \* the tokens that are quoted strings, with their texts
    Collation   \* every text of the instance, in the order of std::string

FieldLetters == [A |-> 1, B |-> 2, C |-> 3]

Rank == [t \in {Collation[i] : i \in DOMAIN Collation} |->
            CHOOSE i \in DOMAIN Collation : Collation[i] = t]

\* The sign of std::string::compare.
CompareTexts(a, b) == IF Rank[a] < Rank[b] THEN -1 ELSE IF Rank[a] > Rank[b] THEN 1 ELSE 0

\* parsePositiveInt: digits only.
PositiveInt(text) == {n \in 1..9 : ToString(n) = text}

FirstValue(rec, n) == IF n \in DOMAIN rec THEN rec[n][1] ELSE ""

\* tryParseNumeric of the executor; blank text is no number.
ParsedNumber(text) == IF text \in DOMAIN Numeric THEN {Numeric[text]} ELSE {}

\* tryCoerceNumeric of the evaluator; blank text is zero.
CoercedNumber(text) == IF text = "" THEN {0} ELSE ParsedNumber(text)

-----------------------------------------------------------------------------
(* IExpressionParser.  Each parser takes the tokens and yields the tree and *)
(* the tokens that are left, or nothing.                                    *)

Comparisons == {"=", "<>", "#", "<", "<=", ">", ">="}

Node(op, val, args) == [op |-> op, val |-> val, args |-> args]

At(tokens, kinds) == tokens # <<>> /\ Head(tokens) \in kinds

\* The results whose next token is the given one, which is consumed.
Then(results, token) == {<<r[1], Tail(r[2])>> : r \in {x \in results : At(x[2], {token})}}

RECURSIVE ParseExpr(_), ParseAdditive(_), MoreTerms(_), ParseMultiplicative(_), MoreFactors(_),
          ParseUnary(_)

ParseComparison(tokens) ==
    UNION {IF At(l[2], Comparisons)
           THEN {<<Node(Head(l[2]), "", <<l[1], r[1]>>), r[2]>> : r \in ParseAdditive(Tail(l[2]))}
           ELSE {l} : l \in ParseAdditive(tokens)}

ParseExpr(tokens) ==
    IF At(tokens, {"IF"})
    THEN UNION {UNION {{<<Node("IF", "", <<c[1], t[1], e[1]>>), e[2]>> : e \in ParseExpr(t[2])}
                        : t \in Then(ParseExpr(c[2]), "ELSE")}
                 : c \in Then(ParseComparison(Tail(tokens)), "THEN")}
    ELSE ParseAdditive(tokens)

\* Faulty variant: the right operand swallows the rest, as if "-" were right
\* associative.
ParseAdditiveRight(tokens) ==
    UNION {IF At(l[2], {"+", "-"})
           THEN {<<Node(Head(l[2]), "", <<l[1], r[1]>>), r[2]>> : r \in ParseAdditive(Tail(l[2]))}
           ELSE {l} : l \in ParseMultiplicative(tokens)}

ParseAdditive(tokens) == UNION {MoreTerms(l) : l \in ParseMultiplicative(tokens)}

MoreTerms(l) ==
    IF At(l[2], {"+", "-"})
    THEN UNION {MoreTerms(<<Node(Head(l[2]), "", <<l[1], r[1]>>), r[2]>>)
                 : r \in ParseMultiplicative(Tail(l[2]))}
    ELSE {l}

ParseMultiplicative(tokens) == UNION {MoreFactors(l) : l \in ParseUnary(tokens)}

MoreFactors(l) ==
    IF At(l[2], {"*", "/"})
    THEN UNION {MoreFactors(<<Node(Head(l[2]), "", <<l[1], r[1]>>), r[2]>>)
                 : r \in ParseUnary(Tail(l[2]))}
    ELSE {l}

ParseCall(tokens) ==
    IF ~At(Tail(tokens), {"("}) THEN {}
    ELSE UNION {{<<Node(Head(tokens), "", <<v[1], c[1]>>), c[2]>> : c \in Then(ParseExpr(v[2]), ")")}
                 : v \in Then(ParseExpr(Tail(Tail(tokens))), ",")}

ParsePrimary(tokens) ==
    CASE tokens = <<>> -> {}
      [] Head(tokens) \in DOMAIN Numeric -> {<<Node("number", Head(tokens), <<>>), Tail(tokens)>>}
      [] Head(tokens) \in DOMAIN Literals -> {<<Node("string", Head(tokens), <<>>), Tail(tokens)>>}
      [] Head(tokens) \in DOMAIN FieldLetters -> {<<Node("field", Head(tokens), <<>>), Tail(tokens)>>}
      [] Head(tokens) \in {"ICONV", "OCONV"} -> ParseCall(tokens)
      [] Head(tokens) = "(" -> Then(ParseExpr(Tail(tokens)), ")")
      [] OTHER -> {}

ParseUnary(tokens) ==
    CASE At(tokens, {"-"}) -> {<<Node("neg", "", <<r[1]>>), r[2]>> : r \in ParseUnary(Tail(tokens))}
      [] At(tokens, {"+"}) -> ParseUnary(Tail(tokens))
      [] OTHER -> ParsePrimary(tokens)

\* parseExpression: nothing may be left over.
ParseExpression(tokens) == {r[1] : r \in {x \in ParseExpr(tokens) : x[2] = <<>>}}

-----------------------------------------------------------------------------
(* Conversions and IExpressionEvaluator.  Numbers are whole.                *)

CONSTANTS UpperCase, LowerCase  \* std::toupper and std::tolower on the texts

\* coerceStringToInt.
AsInt(text) == IF text \in DOMAIN Numeric THEN Numeric[text] ELSE 0

\* oconvOutput, of the codes that change case and MD; the texts of dates,
\* times and fractions do not occur.
Oconv(text, code) ==
    CASE code = "MCU" -> {UpperCase[text]}
      [] code = "MCL" -> {LowerCase[text]}
      [] code = "MD" -> {ToString(AsInt(text))}
      [] OTHER -> {}

\* iconvOutput, likewise; MD reads digits with a sign and nothing else.
Iconv(text, code) ==
    CASE code = "MCU" -> {UpperCase[text]}
      [] code = "MCL" -> {LowerCase[text]}
      [] code = "MD" -> {t \in {ToString(n) : n \in ParsedNumber(text)} : t = text}
      [] OTHER -> {}

\* EvalValue.
Number(n) == [kind |-> "Numeric", number |-> n, text |-> ""]
Text(t) == [kind |-> "Text", number |-> 0, text |-> t]

TextOf(v) == IF v.kind = "Text" THEN v.text ELSE ToString(v.number)

NumbersOf(v) == IF v.kind = "Text" THEN CoercedNumber(v.text) ELSE {v.number}

Holds(op, c) ==
    CASE op = "=" -> c = 0
      [] op \in {"<>", "#"} -> c # 0
      [] op = "<" -> c < 0
      [] op = "<=" -> c <= 0
      [] op = ">" -> c > 0
      [] op = ">=" -> c >= 0

\* compareValues: as numbers when both sides are, or read as, numbers.
CompareValues(op, l, r) ==
    LET ln == NumbersOf(l)
        rn == NumbersOf(r)
    IN IF ln # {} /\ rn # {}
       THEN \E a \in ln, b \in rn : Holds(op, a - b)
       ELSE Holds(op, CompareTexts(TextOf(l), TextOf(r)))

\* The quotient, which the instances keep whole; by zero there is none.
Quotient(l, r) == IF r = 0 THEN {} ELSE {CHOOSE q \in -99..99 : q * r = l}

Arithmetic(op, l, r) ==
    CASE op = "+" -> {l + r}
      [] op = "-" -> {l - r}
      [] op = "*" -> {l * r}
      [] op = "/" -> Quotient(l, r)

RECURSIVE EvaluateValue(_, _)

EvaluateNumeric(e, rec) == UNION {NumbersOf(v) : v \in EvaluateValue(e, rec)}

EvaluateCondition(e, rec) ==
    IF e.op \in Comparisons
    THEN {CompareValues(e.op, l, r) : l \in EvaluateValue(e.args[1], rec),
                                      r \in EvaluateValue(e.args[2], rec)}
    ELSE {n # 0 : n \in EvaluateNumeric(e, rec)}

\* An error anywhere below leaves no value.
EvaluateValue(e, rec) ==
    CASE e.op = "number" -> {Number(Numeric[e.val])}
      [] e.op = "string" -> {Text(Literals[e.val])}
      [] e.op = "field" -> {Text(FirstValue(rec, FieldLetters[e.val]))}
      [] e.op = "neg" -> {Number(-n) : n \in EvaluateNumeric(e.args[1], rec)}
      [] e.op \in {"+", "-", "*", "/"} ->
            UNION {{Number(n) : n \in Arithmetic(e.op, l, r)} :
                      l \in EvaluateNumeric(e.args[1], rec), r \in EvaluateNumeric(e.args[2], rec)}
      [] e.op = "IF" ->
            UNION {EvaluateValue(IF c THEN e.args[2] ELSE e.args[3], rec) :
                      c \in EvaluateCondition(e.args[1], rec)}
      [] e.op \in {"ICONV", "OCONV"} ->
            UNION {{Text(t) : t \in IF e.op = "OCONV" THEN Oconv(TextOf(v), TextOf(c))
                                                      ELSE Iconv(TextOf(v), TextOf(c))} :
                      v \in EvaluateValue(e.args[1], rec), c \in EvaluateValue(e.args[2], rec)}

-----------------------------------------------------------------------------
(* Dictionary items and their resolution.  An item has its type, attribute *)
(* 2 as a text (the tokens of an I item are in expr), attribute 3, and the  *)
(* conversion hints of attributes 10, 9, 8 and 7.                           *)

Ref(kind, source, tail, expr, conversion) ==
    [kind |-> kind, source |-> source, tail |-> tail, expr |-> expr, conversion |-> conversion]

Unresolved == Ref("none", 0, "", {}, "None")

\* classifyFromAttrs: the first hint that is a known code; others are passed over.
Conversion(item) ==
    LET known == {i \in DOMAIN item.hints : item.hints[i] \in {"MD", "MC", "D"}}
    IN IF known = {} THEN "None" ELSE item.hints[Min(known)]

IRef(trees) == IF trees = {} THEN Unresolved ELSE Ref("I", 0, "", trees, "None")

\* fieldFromStructuredDict, with DictFItemParser and DictIItemParser.
FieldOf(item) ==
    CASE item.type = "A" /\ PositiveInt(item.text) # {} ->
            Ref("A", CHOOSE n \in PositiveInt(item.text) : TRUE, "", {}, Conversion(item))
      [] item.type = "F" /\ PositiveInt(item.text) # {} /\ item.tail # "" ->
            Ref("F", CHOOSE n \in PositiveInt(item.text) : TRUE, item.tail, {}, "None")
      [] item.type = "I" -> IRef(ParseExpression(item.expr))
      [] OTHER -> Unresolved

\* tryReadDictRecord: no file, no item and an item under another session's
\* lock are all the same.  dicts maps the files to the items that can be read.
DictItem(dicts, file, token) ==
    IF file \in DOMAIN dicts THEN {dicts[file][t] : t \in {token} \cap DOMAIN dicts[file]} ELSE {}

\* The item a token names: in the dictionary of the file, else in the global one.
ChosenItem(dicts, file, token) ==
    LET scoped == DictItem(dicts, "DICT-" \o file, token)
    IN IF scoped # {} THEN scoped ELSE DictItem(dicts, "DICT", token)

MaxSynonyms == 16

RECURSIVE ResolveRec(_, _, _, _)

\* Faulty variant: the target of a synonym is looked up in the global
\* dictionary alone.
ResolveGlobally(dicts, file, token, depth) ==
    IF depth > MaxSynonyms THEN Unresolved
    ELSE IF PositiveInt(token) # {}
    THEN Ref("A", CHOOSE n \in PositiveInt(token) : TRUE, "", {}, "None")
    ELSE LET found == IF depth = 0 THEN ChosenItem(dicts, file, token) ELSE DictItem(dicts, "DICT", token)
         IN IF found = {} THEN Unresolved
            ELSE LET item == CHOOSE i \in found : TRUE
                 IN IF item.type = "S" THEN ResolveRec(dicts, file, item.text, depth + 1)
                    ELSE FieldOf(item)

\* resolveFieldRec: numbers first, synonyms to the depth limit.
ResolveRec(dicts, file, token, depth) ==
    IF depth > MaxSynonyms THEN Unresolved
    ELSE IF PositiveInt(token) # {}
    THEN Ref("A", CHOOSE n \in PositiveInt(token) : TRUE, "", {}, "None")
    ELSE LET found == ChosenItem(dicts, file, token)
         IN IF found = {} THEN Unresolved
            ELSE LET item == CHOOSE i \in found : TRUE
                 IN IF item.type = "S" THEN ResolveRec(dicts, file, item.text, depth + 1)
                    ELSE FieldOf(item)

ResolveField(dicts, file, token) == ResolveRec(dicts, file, token, 0)

\* evaluateF.
EvaluateF(ref, rec) ==
    IF ref.source \notin DOMAIN rec THEN {}
    ELSE LET values == rec[ref.source]
         IN CASE ref.tail = "L" -> {values[1]}
              [] ref.tail = "R" -> {values[Len(values)]}
              [] PositiveInt(ref.tail) # {} ->
                    {IF n \in DOMAIN values THEN values[n] ELSE "" : n \in PositiveInt(ref.tail)}
              [] OTHER -> Oconv(values[1], ref.tail)

\* evaluateFieldCell: what cannot be computed is blank.
Cell(ref, rec) ==
    LET values == CASE ref.kind = "A" -> {FirstValue(rec, ref.source)}
                    [] ref.kind = "F" -> EvaluateF(ref, rec)
                    [] ref.kind = "I" -> UNION {{TextOf(v) : v \in EvaluateValue(e, rec)} : e \in ref.expr}
                    [] OTHER -> {}
    IN IF values = {} THEN "" ELSE CHOOSE t \in values : TRUE
=============================================================================
