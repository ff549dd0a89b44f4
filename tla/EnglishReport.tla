---------------------------- MODULE EnglishReport ---------------------------
(***************************************************************************)
(* What an ENGLISH query makes of the records in its scope: EnglishParser, *)
(* the sorting and row production of Executor, and Formatter -- the layout *)
(* of headings, rows, break lines and totals, and its division into pages. *)
(*                                                                         *)
(* A query is the sequence of its tokens.  A line of output is its kind    *)
(* and the texts on it.  A template (HEADING, FOOTING) is the sequence of  *)
(* its pieces: "@PAGE", "@1", "@2"... and plain texts; dates and times do  *)
(* not change while a query runs.                                          *)
(***************************************************************************)
EXTENDS EnglishFields, SequencesExt

CONSTANTS
    Templates   \* the tokens that are templates, with their pieces

Verbs == {"LIST", "COUNT", "SELECT", "SORT"}
Clauses == {"HEADING", "FOOTING", "BREAK-ON", "TOTAL"}
StructuralKeywords == Clauses \cup {"BY", "BY-DSND", "WITH", "ID-SUPP"}

-----------------------------------------------------------------------------
(* EnglishParser.                                                           *)

RECURSIVE StripClauses(_, _, _)

\* Formatting clauses are taken out, wherever they are, each at most once.
StripClauses(raw, k, found) ==
    IF k > Len(raw) THEN {found}
    ELSE CASE k > 1 /\ raw[k] \in Clauses ->
                 IF found.clause[raw[k]] # {} \/ k = Len(raw) THEN {}
                 ELSE IF raw[k + 1] \in StructuralKeywords THEN {}
                 ELSE StripClauses(raw, k + 2, [found EXCEPT !.clause[raw[k]] = {raw[k + 1]}])
           [] k > 1 /\ raw[k] = "ID-SUPP" ->
                 IF found.idSupp THEN {} ELSE StripClauses(raw, k + 1, [found EXCEPT !.idSupp = TRUE])
           [] OTHER -> StripClauses(raw, k + 1, [found EXCEPT !.tokens = Append(@, raw[k])])

\* parseSortSection: a field after BY-DSND is a descending key, also when a BY
\* comes in between.
SortKeys(tokens) ==
    LET fields == SelectSeq([k \in DOMAIN tokens |-> k],
                            LAMBDA k : tokens[k] \notin {"BY", "BY-DSND"})
        Before(k) == {j \in 1..(k - 1) : tokens[j] # "BY"}
        Descending(k) == Before(k) # {} /\ tokens[Max(Before(k))] = "BY-DSND"
    IN [i \in DOMAIN fields |-> <<tokens[fields[i]], Descending(fields[i])>>]

FirstOf(tokens, from, word) ==
    Min({k \in from..Len(tokens) : tokens[k] = word} \cup {Len(tokens) + 1})

\* parse.  imposed is the file of the active list, when the query is implicit.
\* What follows WITH is skipped.
ParseQuery(raw, imposed) ==
    LET start == [tokens |-> <<>>, clause |-> [c \in Clauses |-> {}], idSupp |-> FALSE]
        Query(s, file, fields, keys) ==
            [verb |-> raw[1], file |-> file, fields |-> fields, keys |-> keys, clause |-> s.clause,
             idSupp |-> s.idSupp]
        Body(s) ==
            LET t == s.tokens
                i == IF imposed # {} THEN 2 ELSE 3
                by == FirstOf(t, i, "BY")
                with == Min({FirstOf(t, i, "WITH"), by})
                file == IF imposed # {} THEN CHOOSE f \in imposed : TRUE ELSE t[2]
                sort == SubSeq(t, by, Len(t))
                words == SelectSeq(sort, LAMBDA x : x # "BY")
            IN IF \/ sort # <<>> /\ raw[1] # "SORT"
                  \/ words # <<>> /\ Last(words) = "BY-DSND"
               THEN {}
               ELSE {Query(s, file, SubSeq(t, i, with - 1), SortKeys(sort))}
    IN IF raw[1] \notin Verbs THEN {}
       ELSE UNION {IF Len(s.tokens) = 1 /\ (raw[1] = "COUNT" \/ imposed = {})
                   THEN {Query(s, f, <<>>, <<>>) : f \in imposed}
                   ELSE Body(s) : s \in StripClauses(raw, 1, start)}

-----------------------------------------------------------------------------
(* Executor: rows and their order.                                          *)

IdsLess(a, b) == Rank[a] < Rank[b]

\* makeSortPart: a number only under a conversion, and then without its text.
KeyPart(cell, conversion) ==
    IF conversion = "None" \/ ParsedNumber(cell) = {}
    THEN [number |-> {}, text |-> cell]
    ELSE [number |-> ParsedNumber(cell), text |-> ""]

\* comparePartsWithDesc.
CompareParts(a, b, desc) ==
    LET c == IF a.number # {} /\ b.number # {}
             THEN (CHOOSE n \in a.number : TRUE) - (CHOOSE n \in b.number : TRUE)
             ELSE CompareTexts(a.text, b.text)
    IN IF desc THEN -c ELSE c

\* cmpRows, of the parts and ids of two rows.
RowLess(a, b, desc) ==
    LET differ == {i \in DOMAIN desc : CompareParts(a.parts[i], b.parts[i], desc[i]) # 0}
    IN IF differ = {} THEN IdsLess(a.id, b.id)
       ELSE LET i == Min(differ) IN CompareParts(a.parts[i], b.parts[i], desc[i]) < 0

Orders(n) == {p \in [1..n -> 1..n] : \A i, j \in 1..n : p[i] = p[j] => i = j}

\* std::stable_sort.  Its result is defined when the comparison is transitive;
\* otherwise it may be any order.
SortOrders(keyed, desc) ==
    LET n == Len(keyed)
        Less(i, j) == RowLess(keyed[i], keyed[j], desc)
        transitive == \A i, j, k \in 1..n : Less(i, j) /\ Less(j, k) => Less(i, k)
    IN {p \in Orders(n) : transitive => \A i, j \in 1..n : i < j => ~Less(p[j], p[i])}

AttributePiece(piece) == {n \in 1..9 : piece = "@" \o ToString(n)}

\* maxTemplateAttributeIndex, over heading and footing.
TemplateMaxAttr(query) ==
    Max({0} \cup UNION {UNION {AttributePiece(Templates[t][i]) : i \in DOMAIN Templates[t]} :
                           t \in query.clause["HEADING"] \cup query.clause["FOOTING"]})

\* One row, of a record that may be gone since its id was listed, with the cells
\* of its fields.  Clauses that are not there leave no break key and add nothing.
RowWith(query, refs, id, found, cells) ==
    LET addends == UNION {ParsedNumber(cells[t]) : t \in query.clause["TOTAL"]}
        Key(t) == IF found = {} THEN [number |-> {}, text |-> ""] ELSE KeyPart(cells[t], refs[t].conversion)
    IN [id |-> id,
        fields |-> IF found = {} THEN <<>> ELSE [i \in DOMAIN query.fields |-> cells[query.fields[i]]],
        breakKey |-> {cells[t] : t \in query.clause["BREAK-ON"]},
        addend |-> SumSet(addends),
        attrs |-> UNION {{[n \in 1..TemplateMaxAttr(query) |-> FirstValue(rec, n)]} : rec \in found},
        parts |-> [i \in DOMAIN query.keys |-> Key(query.keys[i][1])]]

RowOf(query, refs, id, found) ==
    RowWith(query, refs, id, found,
            [t \in DOMAIN refs |-> IF found = {} THEN "" ELSE Cell(refs[t], CHOOSE rec \in found : TRUE)])

-----------------------------------------------------------------------------
(* Formatter: LayoutPlanner.  An event is the line it stands for; a row's    *)
(* event also has the attributes that templates after it may show.           *)

Event(kind, texts) == [kind |-> kind, texts |-> texts, attrs |-> {}]

\* renderProjection.
RowEvent(row, idSupp) ==
    [kind |-> "row", texts |-> IF idSupp THEN row.fields ELSE <<row.id>> \o row.fields,
     attrs |-> row.attrs]

TotalEvents(query, value) ==
    [i \in 1..Cardinality(query.clause["TOTAL"]) |->
        Event("total", <<CHOOSE t \in query.clause["TOTAL"] : TRUE, ToString(value)>>)]

\* Faulty variant: the sum goes on over a break.
RunningSum(acc, row, broken) == acc.group + row.addend

GroupSum(acc, row, broken) == (IF broken THEN 0 ELSE acc.group) + row.addend

\* A turn of the loop over the rows: where the break key changes, a subtotal
\* and a break line come before the row.
LayoutRow(query, acc, row) ==
    LET broken == acc.keys # {} /\ row.breakKey \notin acc.keys
    IN [events |-> acc.events \o (IF broken THEN Append(TotalEvents(query, acc.group), Event("break", <<>>))
                                            ELSE <<>>)
                              \o <<RowEvent(row, query.idSupp)>>,
        group |-> GroupSum(acc, row, broken),
        grand |-> acc.grand + row.addend,
        keys |-> {row.breakKey}]

Events(query, rows, trailing) ==
    LET acc == FoldLeft(LAMBDA a, row : LayoutRow(query, a, row),
                        [events |-> <<>>, group |-> 0, grand |-> 0, keys |-> {}], rows)
        Template(clause, kind) ==
            [i \in 1..Cardinality(query.clause[clause]) |-> Event(kind, <<>>)]
    IN Template("HEADING", "heading") \o acc.events \o TotalEvents(query, acc.grand)
          \o Template("FOOTING", "footing") \o [i \in DOMAIN trailing |-> Event("trailing", trailing[i])]

-----------------------------------------------------------------------------
(* Formatter: PageManager and Renderer.                                      *)

Line(kind, texts) == [kind |-> kind, texts |-> texts]

\* renderReportTemplate: the live page number, and attributes of the last row.
Rendered(query, clause, page, attrs) ==
    LET pieces == Templates[CHOOSE t \in query.clause[clause] : TRUE]
        Attribute(n) == UNION {{a[n]} : a \in {x \in attrs : n \in DOMAIN x}}
        Piece(p) == IF p = "@PAGE" THEN ToString(page)
                    ELSE IF AttributePiece(p) = {} THEN p
                    ELSE LET found == UNION {Attribute(n) : n \in AttributePiece(p)}
                         IN IF found = {} THEN "" ELSE CHOOSE t \in found : TRUE
    IN [i \in DOMAIN pieces |-> Piece(pieces[i])]

Emit(st, line) == [st EXCEPT !.lines = Append(@, line), !.onPage = @ + 1]

EmitTemplate(query, clause, kind, st) == Emit(st, Line(kind, Rendered(query, clause, st.page, st.attrs)))

EmitFooting(query, st) == [EmitTemplate(query, "FOOTING", "footing", st) EXCEPT !.footed = TRUE]

\* emitPageFootingIfNeeded.
EmitPageFootingIfNeeded(query, st) ==
    IF query.clause["FOOTING"] = {} \/ st.footed THEN st ELSE EmitFooting(query, st)


\* The blank separator, and advancePage.
AdvancePage(st) ==
    [st EXCEPT !.lines = Append(@, Line("blank", <<>>)), !.page = @ + 1, !.onPage = 0, !.footed = FALSE]

\* emitWithPagination: a full page is ended before the line, not after the last.
EmitWithPagination(query, pageLength, st, line) ==
    IF query.clause["HEADING"] # {} /\ st.onPage >= pageLength
    THEN Emit(EmitTemplate(query, "HEADING", "heading", AdvancePage(EmitPageFootingIfNeeded(query, st))),
              line)
    ELSE Emit(st, line)

\* A turn of render's loop.
RenderEvent(query, pageLength, st, e) ==
    CASE e.kind = "heading" -> EmitTemplate(query, "HEADING", "heading", st)
      [] e.kind = "footing" ->
            IF query.clause["HEADING"] = {} \/ ~st.footed THEN EmitFooting(query, st) ELSE st
      [] OTHER -> [EmitWithPagination(query, pageLength, st, Line(e.kind, e.texts))
                      EXCEPT !.attrs = IF e.kind = "row" THEN e.attrs ELSE @]

\* format, under a page length of at least one.
Format(query, rows, trailing, pageLength) ==
    FoldLeft(LAMBDA st, e : RenderEvent(query, pageLength, st, e),
             [lines |-> <<>>, page |-> 1, onPage |-> 0, footed |-> FALSE, attrs |-> {}],
             Events(query, rows, trailing)).lines
=============================================================================
