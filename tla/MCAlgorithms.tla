---------------------------- MODULE MCAlgorithms ----------------------------
(***************************************************************************)
(* The pure algorithms on small data, one at a time: a behaviour takes one *)
(* of the parts and the variables of the others keep one fixed value.      *)
(***************************************************************************)
EXTENDS TableRead, TLC

CONSTANT Parts       \* the parts to check

VARIABLES part, workbook, asked, base, shown, sheetPhase, edits,
          lake, request, bound, view, lakePhase, changes,
          sheetCells, formulaPhase

-----------------------------------------------------------------------------
\* Sheets: the columns A, B, and Y, Z, AA, AB around the first name of two letters.

A == <<1>>  B == <<2>>  Y == <<25>>  Z == <<26>>  AA == <<1, 1>>  AB == <<1, 2>>

\* The number of a column is the place of its name in the order A..Z, AA, AB, ...
Place(name) ==
    Cardinality({ m \in UNION {[1 .. k -> 1 .. 26] : k \in 1 .. Len(name)} :
                    \/ Len(m) < Len(name)
                    \/ m = name
                    \/ /\ Len(m) = Len(name)
                       /\ \E i \in DOMAIN m : /\ m[i] < name[i]
                                              /\ \A j \in 1 .. i - 1 : m[j] = name[j] })

SheetColumns == [name \in {A, B, Y, Z, AA, AB} |-> Place(name)]
SheetRows    == 1 .. 5

Sheet(id, name, height, width, cells) ==
    [id |-> id, name |-> name, rowCount |-> height, columnCount |-> width, cells |-> cells]

Used(f) == [a \in {b \in DOMAIN f : f[b] # "absent"} |-> f[a]]

\* One sheet with a few used cells at both borders, beside an empty one at, above or
\* below the limits of a structural deletion.
SheetWorkbooks ==
    { [ revision   |-> 0,
        worksheets |-> << Sheet(<<"s1">>, "One", 200, 28, Used(cells)),
                          Sheet(<<"s2">>, "Two", size, size, <<>>) >> ]
      : cells \in { [a \in {<<A, 1>>, <<Z, 1>>, <<AA, 1>>, <<AA, 2>>} |->
                       CASE a = <<A, 1>>  -> f[1] [] a = <<Z, 1>>  -> f[2]
                         [] a = <<AA, 1>> -> f[3] [] a = <<AA, 2>> -> f[4]]
                    : f \in {"absent", "x"} \X {"absent", "x", "rich"}
                              \X {"absent", "x"} \X {"absent", "x", "null"} },
        size  \in {10, 11} }

SetRange(range, cells) ==
    [op |-> "set_range", worksheetId |-> <<"s1">>, range |-> range, cells |-> cells]
AppendTo(cells) == [op |-> "append_rows", worksheetId |-> <<"s1">>, cells |-> cells]
AddSheet(name, cells) == [op |-> "add_worksheet", name |-> name, cells |-> cells]
On(op, id) == [op |-> op, worksheetId |-> id, start |-> 11]

SetRanges ==
    { SetRange(<<Z, 1, AA, 1>>, <<<<"y", "x">>>>),
      SetRange(<<Z, 1, AA, 2>>, <<<<"x", "null">>, <<"null", "y">>>>),
      SetRange(<<Y, 1, Z, 1>>, <<<<"x", "x">>>>),
      SetRange(<<AA, 1, AB, 1>>, <<<<"null", "y">>>>),
      SetRange(<<A, 2, A, 3>>, <<<<"x">>, <<"null">>>>),
      SetRange(<<AA, 2, AA, 2>>, <<<<"null">>>>) }
Appends == { AppendTo(<<<<"y", "x">>>>), AppendTo(<<<<"null">>, <<"y">>>>) }
Adds    == { AddSheet("New", <<<<"x">>>>), AddSheet("One", <<>>), AddSheet("Three", <<>>) }

SheetOperationLists ==
    { <<op>> : op \in SetRanges \cup Appends \cup Adds }
      \cup { <<op, other>> : op \in SetRanges, other \in SetRanges \cup Appends }
      \cup { <<AppendTo(<<<<"y">>>>), AddSheet("New", <<<<"x">>>>)>> }
      \cup { <<On(op, id)>> : op \in {"delete_rows", "delete_columns", "delete_worksheet"},
                              id \in {<<"s1">>, <<"s2">>, <<"s3">>} }
      \cup { <<[op |-> "rename_worksheet", worksheetId |-> id, name |-> name]>> :
               id \in {<<"s1">>, <<"s2">>}, name \in {"One", "Other"} }
      \cup { \* refused: a range that ends before it starts, a matrix of another shape, a
             \* deletion beside another change, more cells than the limit
             <<SetRange(<<AA, 1, Z, 1>>, <<<<"x">>>>)>>,
             <<SetRange(<<Y, 1, AA, 1>>, <<<<"x">>>>)>>,
             <<On("delete_rows", <<"s2">>), AppendTo(<<<<"y">>>>)>>,
             <<AppendTo(<<<<"y", "y", "y", "y", "y", "y", "y", "y", "y">>>>)>> }

\* The colleague writes or clears one cell, names a sheet, adds one or only saves.
SheetColleague(sheets) ==
    { [sheets EXCEPT ![1].cells =
         [b \in DOMAIN @ \cup {a} |-> IF b = a THEN v ELSE @[b]]]
        : a \in {<<A, 1>>, <<Z, 1>>, <<AA, 2>>, <<A, 3>>}, v \in {"null", "y"} }
      \cup { [sheets EXCEPT ![1].cells = [b \in DOMAIN @ \ {a} |-> @[b]]]
               : a \in {<<AA, 1>>, <<AA, 2>>} }
      \cup { sheets, [sheets EXCEPT ![1].name = "Renamed"],
             Append(sheets, Sheet(<<"s3">>, "New", 11, 26, <<>>)) }

S == INSTANCE SheetModel WITH
       Workbooks <- SheetWorkbooks, OperationLists <- SheetOperationLists,
       Colleague <- SheetColleague, Columns <- SheetColumns, Rows <- SheetRows,
       MaxCells <- 8, MaxEdits <- 1

SheetIdle == /\ workbook = <<>> /\ asked = <<>> /\ base = <<>> /\ shown = {}
             /\ sheetPhase = "idle" /\ edits = 0

-----------------------------------------------------------------------------
\* Lake documents, put together from blocks

Open(tag)    == <<"open", tag>>
Close(tag)   == <<"close", tag>>
Text(text)   == <<"text", text>>
Void(tag)    == <<"void", tag>>
Comment      == <<"comment", "">>
Element(tag, inner) == <<Open(tag)>> \o inner \o <<Close(tag)>>

H1A == Element("h1", <<Text("A")>>)
H2A == Element("h2", <<Text("A")>>)
H2B == Element("h2", <<Text("B")>>)
P   == Element("p", <<Text("x")>>)
CardInP == Element("p", <<Void("card")>>)

Blocks == {H1A, H2A, H2B, P, CardInP}
Others == { Element("h2", <<Text("A"), Void("img")>>), <<Comment>>, <<Void("meta")>>,
            Element("card", <<>>), Element("table", P), Element("p", <<Comment, Text("x")>>),
            <<Text("x")>>, <<Open("p"), Open("table"), Close("p"), Close("table")>>,
            <<Open("p")>>, <<Close("p")>> }

Joined(parts) == FlattenSeq(parts)

LakeDocuments ==
    { Joined(parts) : parts \in UNION {[1 .. n -> Blocks] : n \in 0 .. 3}
                                  \cup ({P} \X Blocks \X Blocks \X Blocks) }
      \cup { Joined(<<H2A, other, last>>) : other \in Others, last \in {P, H2B, <<>>} }
      \cup { Joined(<<other, H2A>>) : other \in Others }
      \cup { Joined(<<P, other>>) : other \in Others }

LakeRequests ==
    [mode : {"append"}, heading : {<<>>},
     fragment : {P, Joined(<<<<Void("meta")>>, P, H2A>>), <<>>, <<Open("p")>>}]
      \cup [mode : {"replace_section"}, heading : {<<Text("A")>>},
            fragment : {P, H2B, <<Void("meta")>>}]
      \cup [mode : {"delete_section"}, heading : {<<Text("A")>>, <<Text("B")>>},
            fragment : {<<>>}]

LakeColleague(doc) ==
    { P \o doc, doc \o P, H1A \o doc, doc \o H2B, doc \o <<Comment>>,
      SubSeq(doc, 4, Len(doc)), SubSeq(doc, 1, Len(doc) - 3) }

K == INSTANCE LakePatch WITH
       Documents <- LakeDocuments, Requests <- LakeRequests,
       Colleague <- LakeColleague, MaxEdits <- 1

LakeIdle == /\ lake = <<>> /\ request = <<>> /\ bound = <<>> /\ view = <<>>
            /\ lakePhase = "idle" /\ changes = 0

-----------------------------------------------------------------------------
\* Tables: a sheet whose columns have one name twice and one name that is another's id

TableSheets ==
    << [ id |-> "t1",
         columns |-> << [id |-> "s", name |-> "State", type |-> "select",
                         options |-> ("o1" :> "Open" @@ "o2" :> "Done")],
                        [id |-> "p", name |-> "s", type |-> "multiSelect",
                         options |-> ("o1" :> "Ann" @@ "o2" :> "Ben")],
                        [id |-> "n", name |-> "Size", type |-> "progress", options |-> <<>>],
                        [id |-> "m", name |-> "Size", type |-> "number", options |-> <<>>] >> ] >>

Row(id, state, people, size, length) ==
    [ id |-> id, size |-> length,
      cells |-> [s |-> state, p |-> <<"list", people>>, n |-> size, m |-> size] ]

R(id) ==
    CASE id = 1 -> Row(1, <<"option", "o1">>, <<"o1">>, <<"number", 5>>, 2)
      [] id = 2 -> Row(2, <<"option", "o2">>, <<"o1", "o2">>, <<"null">>, 1)
      [] id = 3 -> Row(3, <<"null">>, <<>>, <<"number", 5>>, 4)
      [] id = 4 -> Row(4, <<"option", "o3">>, <<"o2">>, <<"number", 7>>, 1)
      [] id = 9 -> Row(9, <<"option", "o1">>, <<"o2">>, <<"number", 5>>, 1)
      [] id = 5 -> Row(5, <<"option", "o1">>, <<"o2", "o1", "o2">>, <<"null">>, 9)

TableRows == { [i \in DOMAIN ids |-> R(ids[i])] :
                 ids \in {<<>>, <<1>>, <<1, 2, 3>>, <<3, 1, 4, 2>>, <<2, 5, 1>>,
                          <<4, 3, 2, 1, 5>>} }

TableAsked ==
    LET NoKeys   == <<>>
        filters  == { NoKeys, "s" :> <<"label", "Open">>, "State" :> <<"id", "o2">>,
                      "p" :> <<"null">>, "p" :> <<"label", "Ben">>, "p" :> <<"id", "o1">>,
                      "n" :> <<"percent", 5>>, "Size" :> <<"number", 5>>,
                      "n" :> <<"id", "o1">>, "State" :> <<"label", "o3">> }
        pages    == [sheetId : {""}, filtered : BOOLEAN, filter : filters, groupBy : {<<>>},
                     columns : {<<>>, <<"State">>, <<"s", "State">>}, limit : {1, 2, 4}]
        counts   == [sheetId : {"t1", "t2"}, filtered : BOOLEAN, columns : {<<>>},
                     filter : {NoKeys, "p" :> <<"label", "Ben">>}, limit : {2},
                     groupBy : {<<"s">>, <<"p", "State">>, <<"Size">>}]
    IN  {req \in pages \cup counts : req.filtered \/ req.filter = NoKeys}

TableInserted == R(9)

ASSUME TableAssumption == WellFormed

TableIdle == /\ rows = <<>> /\ ask = <<>> /\ readPhase = "idle" /\ offset = 0
             /\ scanned = <<>> /\ collected = <<>> /\ complete = FALSE
             /\ stats = <<>> /\ moved = 0

-----------------------------------------------------------------------------
\* Formulas: expressions, and the tokens they are written down with

Number(n)     == <<"value", <<"number", n>>>>
Cell(c, r)    == <<"cell", <<c, r>>>>
Area(a, b)    == <<"range", a, b>>
Minus(e)      == <<"minus", e>>
Call(f, args) == <<"call", f, args>>

\* How tight an expression binds: a comparison, a sum, a product, a sign, anything else.
Level(e) ==
    CASE e[1] \in {"=", "<"} -> 1 [] e[1] \in {"+", "-"} -> 2
      [] e[1] \in {"*", "/"} -> 3 [] e[1] = "minus" -> 4 [] OTHER -> 5

RECURSIVE Written(_)

\* With parentheses where they are needed, and nowhere else.
Written(e) ==
    LET In(x, level) == IF Level(x) >= level THEN Written(x)
                        ELSE <<<<"left_paren">>>> \o Written(x) \o <<<<"right_paren">>>>
    IN  CASE e[1] = "value" -> <<e[2]>>
          [] e[1] = "cell"  -> <<e>>
          [] e[1] = "range" -> <<<<"cell", e[2]>>, <<"colon">>, <<"cell", e[3]>>>>
          [] e[1] = "minus" -> <<<<"operator", "-">>>> \o In(e[2], 4)
          [] e[1] = "call"  ->
               <<<<"identifier", e[2]>>, <<"left_paren">>>>
                 \o FlattenSeq([i \in DOMAIN e[3] |->
                       (IF i = 1 THEN <<>> ELSE <<<<"comma">>>>) \o Written(e[3][i])])
                 \o <<<<"right_paren">>>>
          [] OTHER -> In(e[2], Level(e)) \o <<<<"operator", e[1]>>>> \o In(e[3], Level(e) + 1)

Wrong == <<"value", <<"error">>>>    \* what a formula means that is none

Plain(v) == [value |-> v, formula |-> <<>>, meant |-> Wrong]
\* A formula comes with a cached value, which may be any.
Formula(e) == [value |-> <<"number", 99>>, formula |-> Written(e), meant |-> e]
Nonsense(tokens) == [value |-> <<"number", 99>>, formula |-> tokens, meant |-> Wrong]

\* Every pair of operators, grouped either way, and signs.
Precedences ==
    LET ops  == {"=", "<", "+", "-", "*", "/"}
        used == {p \in ops \X ops : ~(p[1] = "<" /\ p[2] \in {"=", "<"})}
        a == Number(24)  b == Number(4)  c == Number(2)
    IN  {<<p[1], <<p[2], a, b>>, c>> : p \in used} \cup {<<p[1], a, <<p[2], b, c>>>> : p \in used}
          \cup {<<p, Minus(a), b>> : p \in ops} \cup {<<p, a, Minus(Minus(b))>> : p \in ops}
          \cup {Minus(<<p, a, b>>) : p \in ops}

\* Formulas over the four cells A1, B1, A2, B2.
Dependent ==
    LET all == Area(<<1, 1>>, <<2, 2>>)
    IN  { Plain(<<"number", 2>>), Formula(Cell(1, 1)), Formula(<<"+", Cell(1, 1), Cell(2, 1)>>),
          Formula(<<"=", Cell(1, 2), Cell(1, 1)>>),
          Formula(Call("SUM", <<Area(<<1, 1>>, <<2, 1>>), Number(1)>>)),
          Formula(Call("IF", <<Cell(1, 1), Cell(2, 1), Minus(Cell(1, 2))>>)),
          Formula(Call("INDEX", <<Area(<<1, 1>>, <<2, 1>>), Number(1), Number(2)>>)),
          Formula(Call("COUNTA", <<Area(<<1, 1>>, <<1, 2>>)>>)) }

Singles ==
    LET all == Area(<<1, 1>>, <<2, 3>>)
    IN  { Formula(Call("INDEX", <<all, Number(i), Number(j)>>)) : i \in 0 .. 4, j \in 1 .. 3 }
          \cup { Formula(Call(f, <<all>>)) : f \in {"SUM", "MIN", "MAX", "COUNT", "AND", "OR", "LEN"} }
          \cup { Formula(Call(f, <<Cell(1, 1), Cell(1, 3)>>)) : f \in {"AND", "OR", "MIN", "COUNT"} }
          \cup { Formula(Call(f, <<Cell(1, 2), all>>)) : f \in {"AND", "OR"} }
          \cup { Formula(Call("NOT", <<Cell(1, 1)>>)), Formula(Call("NOT", <<>>)),
                  Formula(<<"/", Cell(1, 1), Cell(1, 2)>>), Formula(all),
                  Formula(Cell(7, 7)) }
          \cup { Nonsense(t) :
                  t \in { Written(Number(2)) \o Written(Number(3)), <<<<"operator", "-">>>>,
                          <<<<"left_paren">>>> \o Written(Cell(1, 1)),
                          <<<<"identifier", "SUM">>>>, <<<<"identifier", "SUM">>, <<"left_paren">>>>,
                          Written(Area(<<2, 2>>, <<1, 1>>)),
                          <<<<"cell", <<1, 1>>>>, <<"colon">>, <<"number", 2>>>> } }

FormulaSheets ==
    { (<<1, 1>> :> Formula(e)) : e \in Precedences }
      \cup { (<<1, 1>> :> Plain(v)) @@ (<<2, 1>> :> f1) @@ (<<1, 2>> :> f2) @@ (<<2, 2>> :> f3) :
                v \in {<<"null">>, <<"number", 3>>, <<"text", "x">>},
                f1 \in Dependent, f2 \in Dependent, f3 \in Dependent }
      \cup { (<<1, 1>> :> Plain(<<"number", 3>>)) @@ (<<2, 1>> :> Plain(<<"text", "x">>))
                @@ (<<1, 2>> :> Plain(<<"number", 0>>)) @@ (<<2, 2>> :> Plain(<<"bool", TRUE>>))
                @@ (<<3, 3>> :> f) : f \in Singles }

F == INSTANCE SheetFormula WITH Worksheets <- FormulaSheets

FormulaIdle == sheetCells = <<>> /\ formulaPhase = "idle"

-----------------------------------------------------------------------------
sheetVars == <<workbook, asked, base, shown, sheetPhase, edits>>
lakeVars  == <<lake, request, bound, view, lakePhase, changes>>
formulaVars == <<sheetCells, formulaPhase>>
vars      == <<part, sheetVars, lakeVars, readVars, formulaVars>>

Init ==
    /\ part \in Parts
    /\ IF part = "sheet" THEN S!Init ELSE SheetIdle
    /\ IF part = "lake"  THEN K!Init ELSE LakeIdle
    /\ IF part = "table" THEN ReadInit ELSE TableIdle
    /\ IF part = "formula" THEN F!Init ELSE FormulaIdle

NextSheet == part = "sheet" /\ S!Next /\ UNCHANGED <<part, lakeVars, readVars, formulaVars>>
NextLake  == part = "lake"  /\ K!Next /\ UNCHANGED <<part, sheetVars, readVars, formulaVars>>
NextTable == part = "table" /\ ReadNext /\ UNCHANGED <<part, sheetVars, lakeVars, formulaVars>>
NextFormula == part = "formula" /\ F!Next /\ UNCHANGED <<part, sheetVars, lakeVars, readVars>>

Next == NextSheet \/ NextLake \/ NextTable \/ NextFormula

Spec == Init /\ [][Next]_vars

\* A workbook is written as its preview showed it and as it was asked for, its formulas
\* worked out again (SheetModel, SheetFormula).
SheetWritten == S!WrittenAsShown /\ S!WrittenAsAsked /\ F!FormulasSettled

\* A document is written as asked, and no block the converter cannot write is lost, except for
\* those inside a heading when a section is deleted, which the code does not look for.
LakeWritten == K!LakeWrittenAsAsked /\ K!NativeBlocksKept

\* What a confirm lets pass is what a new preview would show.
NewLookShowsTheSame == S!NewLookShowsTheSame /\ K!LakeNewLookShowsTheSame
=============================================================================
