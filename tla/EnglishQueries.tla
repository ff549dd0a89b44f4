---------------------------- MODULE EnglishQueries --------------------------
(***************************************************************************)
(* The query commands of the TCL shell -- LIST, COUNT, SELECT, SORT,       *)
(* CLEAR-LIST, SET PAGE-LENGTH and DEFINE-FIELD -- on one data file and    *)
(* its dictionaries, in a session whose active list and page length last   *)
(* from command to command.  Other sessions write, delete and lock records *)
(* and dictionary items in between: a session keeps the execution token    *)
(* for a whole command and gives it up at the prompt.                      *)
(***************************************************************************)
EXTENDS EnglishReport

CONSTANTS
    Workloads,  \* contents, dictionaries, the lines typed, the peers' steps
    PeerRecords \* what peers write

VARIABLES
    data,       \* the records of DATA
    exists,     \* whether the file DATA exists
    dicts,      \* the dictionary files that exist, with their items
    locked,     \* records and items under another session's lock
    list,       \* activeList_ and activeListSourceFile_ ("" when there is none)
    pageLength, \* reportPageLength_
    script,     \* the lines the user is still to type
    peerSteps,  \* how often the other sessions may still act
    reply       \* the outcome of the command that has just run

session == <<list, pageLength, script>>
world == <<data, exists, dicts, locked, peerSteps>>
queryVars == <<session, world, reply>>

NoList == [ids |-> <<>>, source |-> ""]

Reply(kind, query, implicit, order, lines) ==
    [kind |-> kind, query |-> query, implicit |-> implicit, order |-> order, lines |-> lines]
NoQuery == [verb |-> ""]
Silence == Reply("silence", NoQuery, FALSE, <<>>, <<>>)
Failure == Reply("error", NoQuery, FALSE, <<>>, <<>>)

QueryInit ==
    \E w \in Workloads :
        /\ data = w.data
        /\ dicts = w.dicts
        /\ pageLength = w.pageLength
        /\ script = w.script
        /\ peerSteps = w.peerSteps
        /\ exists = TRUE
        /\ locked = {}
        /\ list = NoList
        /\ reply = Silence

FileExists(name) == name \in DOMAIN dicts \/ (name = "DATA" /\ exists)

\* listRecordNames: sorted.
IdsOf(file) == SetToSortSeq(IF file = "DATA" THEN DOMAIN data ELSE DOMAIN dicts[file], IdsLess)

\* The items that tryReadDictRecord can read.
Readable ==
    [f \in DOMAIN dicts |->
        [t \in {x \in DOMAIN dicts[f] : <<f, x>> \notin locked} |-> dicts[f][t]]]

-----------------------------------------------------------------------------
(* EnglishService::run and Executor::produceRows.                           *)

SortFields(query) == {query.keys[i][1] : i \in DOMAIN query.keys}

Fields(query) ==
    ToSet(query.fields) \cup query.clause["BREAK-ON"] \cup query.clause["TOTAL"] \cup SortFields(query)

\* The order of the rows, and the reply.
Reports(query, implicit, rows, trailing) ==
    {Reply("report", query, implicit, [i \in DOMAIN order |-> rows[order[i]].id],
           Format(query, [i \in DOMAIN order |-> rows[order[i]]], trailing, pageLength)) :
        order \in IF query.verb = "SORT" THEN SortOrders(rows, [i \in DOMAIN query.keys |-> query.keys[i][2]])
                                         ELSE {[i \in DOMAIN rows |-> i]}}

\* The outcomes of a parsed query on the given ids.  COUNT looks at no field
\* and SELECT at no record.
Execute(query, implicit, ids, refs) ==
    LET counts == query.verb \in {"COUNT", "SELECT"}
        unknown == query.verb # "COUNT" /\ \E t \in DOMAIN refs : refs[t].kind = "none"
        unread == ~counts /\ ids # <<>> /\ (~FileExists(query.file) \/ \E i \in ToSet(ids) : <<query.file, i>> \in locked)
        Row(id) == RowOf(query, refs, id, {data[x] : x \in {id} \cap DOMAIN data})
    IN IF unknown \/ unread THEN {Failure}
       ELSE Reports(query, implicit,
                    IF counts THEN <<>> ELSE [i \in DOMAIN ids |-> Row(ids[i])],
                    CASE query.verb = "COUNT" -> <<<<ToString(Len(ids))>>>>
                      [] query.verb = "SELECT" -> <<<<ToString(Len(ids)), "records selected">>>>
                      [] OTHER -> <<>>)

\* run: active has the list whose file and ids the query takes, when it is
\* implicit.
RunParsed(parsed, active) ==
    IF parsed = {} THEN {Failure}
    ELSE LET query == CHOOSE q \in parsed : TRUE
         IN IF active = {} /\ ~FileExists(query.file) THEN {Failure}
            ELSE Execute(query, active # {},
                         IF active = {} THEN IdsOf(query.file) ELSE (CHOOSE l \in active : TRUE).ids,
                         [t \in Fields(query) |-> ResolveField(Readable, query.file, t)])

Run(tokens, active) == RunParsed(ParseQuery(tokens, {l.source : l \in active}), active)

-----------------------------------------------------------------------------
(* The shell's commands.                                                    *)

ListReady == list.ids # <<>> /\ list.source # ""

HasClauseKeywords(t) == \E i \in 2..Len(t) : t[i] \in {"WITH", "BY", "BY-DSND"}

\* englishImplicitSetup's question: is the file left out?
WantImplicit(t) ==
    \/ t[1] = "COUNT" /\ Len(t) = 1
    \/ t[1] \in {"LIST", "SORT"} /\ \/ Len(t) >= 3 /\ t[2] \in {"BY", "WITH"}
                                    \/ Len(t) = 2 /\ ~FileExists(t[2])

RunShell(t) ==
    IF WantImplicit(t) /\ ~ListReady THEN {Failure} ELSE Run(t, IF WantImplicit(t) THEN {list} ELSE {})

IsEnglishList(t) ==
    \/ HasClauseKeywords(t)
    \/ Len(t) >= 3
    \/ Len(t) = 2 /\ ~FileExists(t[2]) /\ ListReady

\* The listing of names that LIST was before ENGLISH.
PlainList(t) ==
    IF Len(t) = 2 /\ FileExists(t[2])
    THEN Reply("names", NoQuery, FALSE, IdsOf(t[2]), <<>>)
    ELSE Failure

Typed(verbs) == script # <<>> /\ Head(script)[1] \in verbs /\ script' = Tail(script)

List ==
    /\ Typed({"LIST"})
    /\ reply' \in IF IsEnglishList(Head(script)) THEN RunShell(Head(script)) ELSE {PlainList(Head(script))}
    /\ UNCHANGED <<list, pageLength, world>>

Count ==
    /\ Typed({"COUNT"})
    /\ reply' \in IF Len(Head(script)) >= 2 \/ ListReady THEN RunShell(Head(script)) ELSE {Failure}
    /\ UNCHANGED <<list, pageLength, world>>

IsEnglishSort(t) ==
    \/ HasClauseKeywords(t)
    \/ Len(t) >= 3
    \/ Len(t) = 2 /\ (FileExists(t[2]) \/ ListReady)

Sort ==
    /\ Typed({"SORT"})
    /\ reply' \in IF IsEnglishSort(Head(script)) THEN RunShell(Head(script)) ELSE {Failure}
    /\ UNCHANGED <<list, pageLength, world>>

\* The source of the list is the second word of the line, whatever it is.
Select ==
    /\ Typed({"SELECT"})
    /\ reply' \in IF Len(Head(script)) < 2 THEN {Failure} ELSE Run(Head(script), {})
    /\ list' = IF reply'.kind = "report" THEN [ids |-> IdsOf(reply'.query.file), source |-> Head(script)[2]]
                                         ELSE list
    /\ UNCHANGED <<pageLength, world>>

ClearList ==
    /\ Typed({"CLEAR-LIST"})
    /\ list' = NoList
    /\ reply' = Silence
    /\ UNCHANGED <<pageLength, world>>

\* SET PAGE-LENGTH n: a positive number, or the length stays.
SetPageLength ==
    /\ Typed({"SET"})
    /\ pageLength' = IF PositiveInt(Head(script)[3]) = {} THEN pageLength
                     ELSE CHOOSE n \in PositiveInt(Head(script)[3]) : TRUE
    /\ reply' = Silence
    /\ UNCHANGED <<list, world>>

\* DEFINE-FIELD file name number: a new A item, unless there is no such file
\* or a peer has the item locked.
DefineField ==
    /\ Typed({"DEFINE-FIELD"})
    /\ LET t == Head(script)
           item == [type |-> "A", text |-> t[4], tail |-> "", expr |-> <<>>, meant |-> {},
                    hints |-> <<"", "", "", "">>]
           done == PositiveInt(t[4]) # {} /\ t[2] \in DOMAIN dicts /\ <<t[2], t[3]>> \notin locked
       IN /\ dicts' = IF done THEN [dicts EXCEPT ![t[2]] = (t[3] :> item) @@ @] ELSE dicts
          /\ reply' = IF done THEN Silence ELSE Failure
    /\ UNCHANGED <<list, pageLength, data, exists, locked, peerSteps>>

-----------------------------------------------------------------------------
(* What other sessions do between two commands.                             *)

Peer == peerSteps > 0 /\ script # <<>> /\ peerSteps' = peerSteps - 1 /\ reply' = Silence

PeerWrites(id) ==
    /\ Peer
    /\ exists
    /\ \E rec \in PeerRecords : data' = (id :> rec) @@ data
    /\ UNCHANGED <<session, exists, dicts, locked>>

PeerDeletes(id) ==
    /\ Peer
    /\ id \in DOMAIN data
    /\ data' = [x \in DOMAIN data \ {id} |-> data[x]]
    /\ locked' = locked \ {<<"DATA", id>>}
    /\ UNCHANGED <<session, exists, dicts>>

PeerDeletesFile ==
    /\ Peer
    /\ exists
    /\ exists' = FALSE
    /\ data' = << >>
    /\ locked' = {k \in locked : k[1] # "DATA"}
    /\ UNCHANGED <<session, dicts>>

PeerLocks(file, id) ==
    /\ Peer
    /\ locked' = locked \cup {<<file, id>>}
    /\ UNCHANGED <<session, data, exists, dicts>>

Lockable == ({"DATA"} \X DOMAIN data) \cup UNION {{f} \X DOMAIN dicts[f] : f \in DOMAIN dicts}

QueryNext ==
    \/ List \/ Count \/ Sort \/ Select \/ ClearList \/ SetPageLength \/ DefineField
    \/ \E id \in DOMAIN data : PeerWrites(id) \/ PeerDeletes(id)
    \/ PeerDeletesFile
    \/ \E k \in Lockable \ locked : PeerLocks(k[1], k[2])

QuerySpec == QueryInit /\ [][QueryNext]_queryVars

-----------------------------------------------------------------------------
(* Properties.                                                             *)

Reported == reply.kind = "report" /\ reply.query.verb \in {"LIST", "SORT"}

RecordsOf(id) == {data[x] : x \in {id} \cap DOMAIN data}

\* What a report shows in the column of a token for a record of the file.
Shown(token, id) ==
    IF RecordsOf(id) = {} THEN ""
    ELSE Cell(ResolveField(Readable, reply.query.file, token), CHOOSE r \in RecordsOf(id) : TRUE)

SumOver(rows, token) ==
    MapThenSumSet(LAMBDA i : SumSet(ParsedNumber(Shown(token, reply.order[i]))), rows)

BreakKey(i) == {Shown(t, reply.order[i]) : t \in reply.query.clause["BREAK-ON"]}

\* The longest run of rows with the same break key that ends at row i.
GroupEndingAt(i) == {j \in 1..i : \A k \in j..i : BreakKey(k) = BreakKey(i)}

TotalLines(rows) ==
    SetToSeq({Line("total", <<t, ToString(SumOver(rows, t))>>) : t \in reply.query.clause["TOTAL"]})

RowLine(i) ==
    LET q == reply.query
        id == reply.order[i]
    IN Line("row", (IF q.idSupp THEN <<>> ELSE <<id>>)
                      \o (IF RecordsOf(id) = {} THEN <<>>
                          ELSE [f \in DOMAIN q.fields |-> Shown(q.fields[f], id)]))

\* What a report has between its headings and footings, by definition.
Body ==
    LET Part(i) == (IF i > 1 /\ BreakKey(i) # BreakKey(i - 1)
                    THEN Append(TotalLines(GroupEndingAt(i - 1)), Line("break", <<>>))
                    ELSE <<>>) \o <<RowLine(i)>>
    IN FlattenSeq([i \in DOMAIN reply.order |-> Part(i)]) \o TotalLines(DOMAIN reply.order)

\* A key column that is all numbers under a conversion, or has none.
Uniform(token) ==
    LET numbers == {id \in ToSet(reply.order) : ParsedNumber(Shown(token, id)) # {}}
    IN \/ ResolveField(Readable, reply.query.file, token).conversion = "None"
       \/ numbers \in {{}, ToSet(reply.order)}

\* a before b on a uniform key column.
KeyBefore(token, a, b) ==
    LET an == ParsedNumber(Shown(token, a))
        bn == ParsedNumber(Shown(token, b))
    IN IF ResolveField(Readable, reply.query.file, token).conversion # "None" /\ an # {}
       THEN SumSet(an) < SumSet(bn)
       ELSE IdsLess(Shown(token, a), Shown(token, b))

SortedBefore(a, b) ==
    LET keys == reply.query.keys
        Before(k) == IF keys[k][2] THEN KeyBefore(keys[k][1], b, a) ELSE KeyBefore(keys[k][1], a, b)
        Same(k) == ~KeyBefore(keys[k][1], a, b) /\ ~KeyBefore(keys[k][1], b, a)
    IN \/ \E k \in DOMAIN keys : Before(k) /\ \A h \in 1..(k - 1) : Same(h)
       \/ (\A k \in DOMAIN keys : Same(k)) /\ IdsLess(a, b)

\* A report of LIST or SORT has one row for each id of the file, or of the
\* active list, and no other: in the order of the list, or sorted when every
\* key column compares as one kind.  Break lines are exactly where the key
\* changes, and each total is the sum over its own group, or over all rows:
\* produceRows and the accumulators of LayoutPlanner, on files that other
\* sessions change between SELECT and the report.
ReportShowsTheScope ==
    Reported =>
        LET scope == IF reply.implicit THEN list.ids ELSE IdsOf(reply.query.file)
            order == reply.order
            sorted == \A t \in SortFields(reply.query) : Uniform(t)
        IN /\ SelectSeq(reply.lines, LAMBDA l : l.kind \in {"row", "total", "break"}) = Body
           /\ Len(order) = Len(scope) /\ ToSet(order) = ToSet(scope)
           /\ reply.query.verb = "LIST" => order = scope
           /\ reply.query.verb = "SORT" /\ sorted =>
                 \A i \in 2..Len(order) : SortedBefore(order[i - 1], order[i])

Kinds(from, to, kind) == {i \in from..to : reply.lines[i].kind = kind}

\* The template of a clause, on a page whose last row so far is above line i.
TemplateAt(clause, page, i) ==
    LET above == Cardinality(Kinds(1, i - 1, "row"))
        attrs == {[n \in 1..TemplateMaxAttr(reply.query) |-> FirstValue(r, n)] :
                     r \in IF above = 0 THEN {} ELSE RecordsOf(reply.order[above])}
    IN Rendered(reply.query, clause, page, attrs)

\* The p-th page is lines first to last.
PageIsWhole(p, first, last, isLast) ==
    LET q == reply.query
        size == Cardinality({i \in first..last : reply.lines[i].kind # "footing"})
        full == IF p = 1 THEN pageLength ELSE Max({pageLength, 2})
        footings == IF q.clause["FOOTING"] = {} THEN {} ELSE {last}
    IN /\ Kinds(first, last, "heading") = {first}
       /\ reply.lines[first].texts = TemplateAt("HEADING", p, first)
       /\ size <= full /\ (~isLast => size = full) /\ (p > 1 => size > 1)
       /\ Kinds(first, last, "footing") = footings
       /\ \A i \in footings : reply.lines[i].texts = TemplateAt("FOOTING", p, i)


\* The items on the way from a token over synonyms, dictionaries in full: an
\* item of the file's dictionary hides the global one of the same name.
ItemsNamed(token) ==
    LET scoped == DictItem(dicts, "DICT-DATA", token)
    IN IF scoped = {} THEN DictItem(dicts, "DICT", token) ELSE scoped

RECURSIVE Meaning(_, _)
Meaning(token, passed) ==
    CASE PositiveInt(token) # {} -> {[type |-> "A", text |-> token, tail |-> "", meant |-> {}]}
      [] token \in passed -> {}
      [] OTHER -> UNION {IF i.type = "S" THEN Meaning(i.text, passed \cup {token}) ELSE {i} :
                            i \in ItemsNamed(token)}

\* What the author of an item wants to see of a record.
WantedText(item, rec) ==
    CASE item.type = "A" -> {FirstValue(rec, n) : n \in PositiveInt(item.text)}
      [] item.type = "I" -> UNION {{TextOf(v) : v \in EvaluateValue(e, rec)} : e \in item.meant}
      [] OTHER -> UNION {EvaluateF(Ref("F", n, item.tail, {}, "None"), rec) : n \in PositiveInt(item.text)}

\* Each cell of a report shows what its field means in the dictionary of the
\* file, or else in the global one: through any chain of synonyms, and for an
\* expression the value of the tree it was written from.  A peer's lock on a
\* dictionary item suspends that, because the resolver takes a locked item for
\* one that is not there.  resolveFieldRec and IExpressionParser.
FieldsMeanTheirItems ==
    Reported /\ (\A k \in locked : k[1] = "DATA") =>
        LET q == reply.query
            rowLines == SelectSeq(reply.lines, LAMBDA l : l.kind = "row")
            first == IF q.idSupp THEN 0 ELSE 1
        IN \A r \in DOMAIN rowLines, f \in DOMAIN q.fields : \A rec \in RecordsOf(reply.order[r]) :
              LET wanted == UNION {WantedText(i, rec) : i \in Meaning(q.fields[f], {})}
              IN /\ Meaning(q.fields[f], {}) # {}
                 /\ rowLines[r].texts[first + f] \in (IF wanted = {} THEN {""} ELSE wanted)
=============================================================================
