----------------------------- MODULE SheetModel -----------------------------
(***************************************************************************)
(* What update_sheet shows and what it writes (sheet-model.ts, called by   *)
(* previewUpdateSheet and executeSheetUpdate of change-store.ts).          *)
(*                                                                         *)
(* A worksheet keeps its cells under A1 addresses; ranges, the end of the  *)
(* used rows and the position of appended rows are computed by parsing     *)
(* those addresses and building them again.  A preview shows a diff and    *)
(* keeps two digests: of the workbook, and of the cells and names its      *)
(* operations aim at.  A colleague edits in between; the confirm writes,   *)
(* asks for a new look, or reports a conflict, by those digests.           *)
(*                                                                         *)
(* A digest is the value it digests.  A cell is Null, a plain value or     *)
(* "rich", a value the code may not overwrite; formulas, styles and the    *)
(* bytes of the native draft are left out.  An address is <<name, row>>, a *)
(* column name the sequence of its letters, 1 to 26.                       *)
(***************************************************************************)
EXTENDS Integers, Sequences, FiniteSets, FiniteSetsExt, SequencesExt

CONSTANTS
    Workbooks,       \* the workbooks a session may start from
    OperationLists,  \* the operations a client may ask for
    Colleague(_),    \* the workbooks one edit in Yuque's editor leads to
    Columns,         \* the number of every column name in use, from the alphabet
    Rows,            \* the rows in use
    MaxCells,        \* the most cells one change may write
    MaxEdits         \* bound: edits by the colleague

VARIABLES
    workbook,        \* [revision, worksheets]: the remote draft
    asked,           \* the operations of the preview
    base,            \* the workbook and the target the preview is bound to
    shown,           \* the diff the preview showed
    sheetPhase,      \* idle, previewed, refused, conflict or written
    edits

sheetVars == <<workbook, asked, base, shown, sheetPhase, edits>>

Null == "null"

-----------------------------------------------------------------------------
\* A1 addresses

ColumnIndex(name) == FoldLeft(LAMBDA n, letter : n * 26 + letter, 0, name)

\* A plausible bug: the division without the step down, so that Z is A@.
MutantColumnName ==
    LET name[n \in Nat] ==
          IF n = 0 THEN <<>> ELSE Append(name[n \div 26], n % 26)
    IN  name

ColumnName ==
    LET name[n \in Nat] ==
          IF n = 0 THEN <<>> ELSE Append(name[(n - 1) \div 26], ((n - 1) % 26) + 1)
    IN  name

ToA1Cell(row, column) == <<ColumnName[column], row>>

\* A range is written <<first name, first row, last name, last row>>.
ParseA1Range(range) ==
    [ startColumn |-> ColumnIndex(range[1]), startRow |-> range[2],
      endColumn   |-> ColumnIndex(range[3]), endRow   |-> range[4] ]

ValidRange(range) ==
    LET p == ParseA1Range(range)
    IN  p.startColumn <= p.endColumn /\ p.startRow <= p.endRow

CellAt(worksheet, address) ==
    IF address \in DOMAIN worksheet.cells THEN worksheet.cells[address] ELSE Null

LastUsedRow(worksheet) == Max({0} \cup {a[2] : a \in DOMAIN worksheet.cells})

LastUsedColumn(worksheet) ==
    Max({1} \cup {ColumnIndex(a[1]) : a \in DOMAIN worksheet.cells})

ReadSheetRange(worksheet, range) ==
    LET p == ParseA1Range(range)
    IN  [ r \in 0 .. p.endRow - p.startRow |->
            [ c \in 0 .. p.endColumn - p.startColumn |->
                CellAt(worksheet, ToA1Cell(p.startRow + r, p.startColumn + c)) ] ]

MatrixRange(startRow, rows) ==
    LET last == ToA1Cell(startRow + Len(rows) - 1, Max({Len(r) : r \in Range(rows)}))
    IN  <<ColumnName[1], startRow, last[1], last[2]>>

-----------------------------------------------------------------------------
\* validateSheetOperations

Structural == {"delete_rows", "delete_columns", "delete_worksheet"}

AffectedCells(op) ==
    IF op.op \in {"set_range", "append_rows", "add_worksheet"}
    THEN FoldLeft(LAMBDA n, row : n + Len(row), 0, op.cells) ELSE 0

ValidOperation(op) ==
    /\ op.op = "set_range" =>
         /\ ValidRange(op.range)
         /\ LET p == ParseA1Range(op.range)
            IN  /\ Len(op.cells) = p.endRow - p.startRow + 1
                /\ \A row \in Range(op.cells) :
                      Len(row) = p.endColumn - p.startColumn + 1
    /\ op.op = "append_rows" => op.cells # <<>>
    /\ op.op \in {"delete_rows", "delete_columns"} => op.start = 11

ValidOperations(ops) ==
    /\ ops # <<>>
    /\ \A i \in DOMAIN ops : ValidOperation(ops[i])
    /\ (\E i \in DOMAIN ops : ops[i].op \in Structural \cup {"rename_worksheet"})
         => Len(ops) = 1
    /\ FoldLeft(LAMBDA n, op : n + AffectedCells(op), 0, ops) <= MaxCells

-----------------------------------------------------------------------------
\* applySheetOperations: a fold of the operations over
\*   [ok, sheets, touched: <<worksheet id, address>>, structure: diff entries]

Named(sheets, name) == \E i \in DOMAIN sheets : sheets[i].name = name
At(sheets, id)      == SelectInSeq(sheets, LAMBDA s : s.id = id)
Fail(st)            == [st EXCEPT !.ok = FALSE]

\* The values of a matrix at the addresses they are for, from the first cell p on.
Placed(p, cells) ==
    LET spots   == UNION {{<<r, c>> : c \in DOMAIN cells[r]} : r \in DOMAIN cells}
        Spot(q) == ToA1Cell(p.startRow + q[1] - 1, p.startColumn + q[2] - 1)
    IN  [a \in {Spot(q) : q \in spots} |->
           LET q == CHOOSE q \in spots : Spot(q) = a IN cells[q[1]][q[2]]]

WriteCells(st, i, sheet, values) ==
    LET changed == {a \in DOMAIN values : CellAt(sheet, a) # values[a]}
        kept    == {a \in DOMAIN sheet.cells \cup changed : a \in changed => values[a] # Null}
    IN  IF \E a \in changed : CellAt(sheet, a) = "rich" THEN Fail(st)
        ELSE [st EXCEPT
                !.sheets[i].cells = [a \in kept |-> IF a \in changed THEN values[a]
                                                    ELSE sheet.cells[a]],
                !.touched = @ \cup {<<sheet.id, a>> : a \in changed}]

WriteMatrix(st, i, range, cells) ==
    WriteCells(st, i, st.sheets[i], Placed(ParseA1Range(range), cells))

\* the id is a digest of the name and the position
AddWorksheet(st, op) ==
    LET sheet == [ id |-> <<"local", op.name, Len(st.sheets)>>, name |-> op.name,
                   rowCount |-> 200, columnCount |-> 26, cells |-> <<>> ]
        added == [st EXCEPT !.sheets = Append(@, sheet)]
    IN  IF Named(st.sheets, op.name) THEN Fail(st)
        ELSE IF op.cells = <<>> THEN added
        ELSE WriteMatrix(added, Len(added.sheets), MatrixRange(1, op.cells), op.cells)

RenameWorksheet(st, op, i) ==
    IF \/ st.sheets[i].name = op.name \/ Named(st.sheets, op.name)
       \/ "rich" \in Range(st.sheets[i].cells)
    THEN Fail(st)
    ELSE [st EXCEPT
            !.sheets[i].name = op.name,
            !.structure = @ \cup {[structure |-> "name", worksheet |-> st.sheets[i].name,
                                   after |-> op.name, deletion |-> FALSE]}]

DeleteWorksheet(st, op, i) ==
    IF Len(st.sheets) = 1 \/ DOMAIN st.sheets[i].cells # {} THEN Fail(st)
    ELSE [st EXCEPT
            !.sheets = RemoveAt(@, i),
            !.structure = @ \cup {[structure |-> "worksheet", deletion |-> TRUE,
                                   worksheet |-> st.sheets[i].name]}]

DeleteRows(st, op, i) ==
    IF \/ DOMAIN st.sheets[i].cells # {}
       \/ op.start > st.sheets[i].rowCount \/ st.sheets[i].rowCount <= 1
    THEN Fail(st)
    ELSE [st EXCEPT
            !.sheets[i].rowCount = @ - 1,
            !.structure = @ \cup {[structure |-> "rows", worksheet |-> st.sheets[i].name,
                                   start |-> op.start, deletion |-> TRUE]}]

DeleteColumns(st, op, i) ==
    IF \/ DOMAIN st.sheets[i].cells # {}
       \/ op.start > st.sheets[i].columnCount \/ st.sheets[i].columnCount <= 1
    THEN Fail(st)
    ELSE [st EXCEPT
            !.sheets[i].columnCount = @ - 1,
            !.structure = @ \cup {[structure |-> "columns", worksheet |-> st.sheets[i].name,
                                   start |-> op.start, deletion |-> TRUE]}]

AppendRows(st, op, i) ==
    WriteMatrix(st, i, MatrixRange(LastUsedRow(st.sheets[i]) + 1, op.cells), op.cells)

ApplyTo(st, op, i) ==
    CASE i = 0 -> Fail(st)
      [] i > 0 /\ op.op = "set_range"        -> WriteMatrix(st, i, op.range, op.cells)
      [] i > 0 /\ op.op = "append_rows"      -> AppendRows(st, op, i)
      [] i > 0 /\ op.op = "rename_worksheet" -> RenameWorksheet(st, op, i)
      [] i > 0 /\ op.op = "delete_worksheet" -> DeleteWorksheet(st, op, i)
      [] i > 0 /\ op.op = "delete_rows"      -> DeleteRows(st, op, i)
      [] i > 0 /\ op.op = "delete_columns"   -> DeleteColumns(st, op, i)

ApplyOperation(st, op) ==
    IF ~st.ok THEN st
    ELSE IF op.op = "add_worksheet" THEN AddWorksheet(st, op)
    ELSE ApplyTo(st, op, At(st.sheets, op.worksheetId))

CellIn(sheets, id, address) ==
    LET i == At(sheets, id) IN IF i = 0 THEN Null ELSE CellAt(sheets[i], address)

CellDiff(old, st) ==
    { [ worksheet |-> st.sheets[At(st.sheets, t[1])].name, cell |-> t[2],
        before    |-> CellIn(old, t[1], t[2]),
        after     |-> CellIn(st.sheets, t[1], t[2]),
        deletion  |-> CellIn(old, t[1], t[2]) # Null /\ CellIn(st.sheets, t[1], t[2]) = Null ]
      : t \in {u \in st.touched : CellIn(old, u[1], u[2]) # CellIn(st.sheets, u[1], u[2])} }

ApplySheetOperations(wb, ops) ==
    LET Applied(st) ==
          [ ok   |-> st.ok,
            worksheets |-> st.sheets,
            diff |-> IF st.ok THEN CellDiff(wb.worksheets, st) \cup st.structure ELSE {} ]
    IN  Applied(FoldLeft(ApplyOperation,
                         [ok |-> ValidOperations(ops), sheets |-> wb.worksheets,
                          touched |-> {}, structure |-> {}], ops))

-----------------------------------------------------------------------------
\* sheetSemanticFingerprint: the version and the sheets in their order; in what order
\* a sheet keeps its cells does not matter
SemanticFingerprint(wb) ==
    << wb.revision,
       [i \in DOMAIN wb.worksheets |->
          LET s == wb.worksheets[i] IN <<s.id, s.name, s.rowCount, s.columnCount, s.cells>>] >>

\* sheetOperationTargetFingerprint: what each operation aims at, in the workbook
\* as it is before the first of them

Ids(wb)   == [i \in DOMAIN wb.worksheets |-> wb.worksheets[i].id]
Names(wb) == [i \in DOMAIN wb.worksheets |-> wb.worksheets[i].name]

\* A plausible bug: the last row's cells without its number.
MutantUsedEnd(sheet) ==
    LET row == LastUsedRow(sheet)
    IN  IF row = 0 THEN <<>>
        ELSE ReadSheetRange(sheet, <<ColumnName[1], row,
                                     ColumnName[LastUsedColumn(sheet)], row>>)

UsedEnd(sheet) ==
    LET row == LastUsedRow(sheet)
    IN  <<row, IF row = 0 THEN <<>>
               ELSE ReadSheetRange(sheet, <<ColumnName[1], row,
                                            ColumnName[LastUsedColumn(sheet)], row>>)>>

OperationTarget(wb, op) ==
    IF op.op = "add_worksheet" THEN <<op, Names(wb)>>
    ELSE LET i == At(wb.worksheets, op.worksheetId)
             sheet == wb.worksheets[i]
         IN  IF i = 0 THEN <<op.op>>
             ELSE CASE op.op = "set_range"   -> <<op.op, ReadSheetRange(sheet, op.range)>>
                    [] op.op = "append_rows" -> <<op.op, UsedEnd(sheet)>>
                    [] op.op = "rename_worksheet" -> <<op.op, sheet.name, Names(wb)>>
                    [] op.op = "delete_worksheet" -> <<op.op, sheet, Ids(wb)>>
                    [] op.op = "delete_rows" -> <<op.op, sheet.rowCount, sheet.cells>>
                    [] op.op = "delete_columns" -> <<op.op, sheet.columnCount, sheet.cells>>

SheetTarget(wb, ops) == [i \in DOMAIN ops |-> OperationTarget(wb, ops[i])]

-----------------------------------------------------------------------------
Init ==
    /\ workbook \in Workbooks
    /\ asked = <<>> /\ base = <<>> /\ shown = {}
    /\ sheetPhase = "idle" /\ edits = 0

\* previewUpdateSheet, the first time and when the confirm asks for a new look
Show(ops) ==
    \E applied \in {ApplySheetOperations(workbook, ops)} :
        IF applied.ok /\ applied.diff # {}
        THEN /\ asked' = ops
             /\ base' = <<SemanticFingerprint(workbook), SheetTarget(workbook, ops)>>
             /\ shown' = applied.diff
             /\ sheetPhase' = "previewed"
        ELSE /\ sheetPhase' = "refused"
             /\ UNCHANGED <<asked, base, shown>>

PreviewUpdateSheet ==
    /\ sheetPhase = "idle"
    /\ \E ops \in OperationLists : Show(ops)
    /\ UNCHANGED <<workbook, edits>>

\* External: a colleague saves in Yuque's editor; the draft's version moves with it.
EditInYuque ==
    /\ sheetPhase = "previewed" /\ edits < MaxEdits
    /\ \E sheets \in Colleague(workbook.worksheets) :
          workbook' = [revision |-> workbook.revision + 1, worksheets |-> sheets]
    /\ edits' = edits + 1
    /\ UNCHANGED <<asked, base, shown, sheetPhase>>

\* executeSheetUpdate when the workbook is still the one of the preview
WriteSheet ==
    /\ sheetPhase = "previewed" /\ SemanticFingerprint(workbook) = base[1]
    /\ workbook' = [revision   |-> workbook.revision + 1,
                    worksheets |-> ApplySheetOperations(workbook, asked).worksheets]
    /\ sheetPhase' = "written"
    /\ UNCHANGED <<asked, base, shown, edits>>

\* ... when something else than the target changed: the same operations, shown again
RepreviewSheet ==
    /\ sheetPhase = "previewed" /\ SemanticFingerprint(workbook) # base[1]
    /\ SheetTarget(workbook, asked) = base[2]
    /\ Show(asked)
    /\ UNCHANGED <<workbook, edits>>

\* ... and when the target changed
ConflictSheet ==
    /\ sheetPhase = "previewed" /\ SemanticFingerprint(workbook) # base[1]
    /\ SheetTarget(workbook, asked) # base[2]
    /\ sheetPhase' = "conflict"
    /\ UNCHANGED <<workbook, asked, base, shown, edits>>

Next ==
    \/ PreviewUpdateSheet \/ EditInYuque
    \/ WriteSheet \/ RepreviewSheet \/ ConflictSheet

Spec == Init /\ [][Next]_sheetVars

-----------------------------------------------------------------------------
\* Properties

\* What a reader of two workbooks would list: every cell whose value differs.
Differences(old, new) ==
    UNION { { [ worksheet |-> sheet.name, cell |-> a,
                before    |-> CellIn(old, sheet.id, a),
                after     |-> CellAt(sheet, a),
                deletion  |-> CellAt(sheet, a) = Null ]
              : a \in { b \in DOMAIN sheet.cells \cup
                              UNION {DOMAIN s.cells : s \in {t \in Range(old) : t.id = sheet.id}} :
                          CellIn(old, sheet.id, b) # CellAt(sheet, b) } }
            : sheet \in Range(new) }

\* A confirmed update changes the cells the approved preview listed, to the values it
\* listed, and no other cell; a sheet is renamed, removed or made smaller only when
\* the preview said so (applySheetOperations, run again under the lock, against the
\* diff it computed for the preview).
WrittenAsShown ==
    [][ sheetPhase' = "written" /\ sheetPhase # "written" =>
          /\ {d \in shown : "cell" \in DOMAIN d} =
               Differences(workbook.worksheets, workbook'.worksheets)
          /\ LET Frame(s) == <<s.id, s.name, s.rowCount, s.columnCount>>
             IN  {d \in shown : "structure" \in DOMAIN d} = {} =>
                   IsPrefix([i \in DOMAIN workbook.worksheets |-> Frame(workbook.worksheets[i])],
                            [i \in DOMAIN workbook'.worksheets |-> Frame(workbook'.worksheets[i])])
      ]_sheetVars

\* By the columns' true numbers: after a list of set_range operations a cell has the
\* value of the last one whose rectangle covers it, or the value it had; an
\* append_rows never replaces a value, wherever the used cells end, and puts its rows
\* in the columns from A on (writeMatrix, lastUsedRow, matrixRange, toA1Cell).
WrittenAsAsked ==
    [][ sheetPhase' = "written" /\ sheetPhase # "written" =>
          \A sheet \in Range(workbook'.worksheets), a \in (DOMAIN Columns) \X Rows :
            LET was == CellIn(workbook.worksheets, sheet.id, a)
                Covering == { i \in DOMAIN asked :
                                /\ asked[i].worksheetId = sheet.id
                                /\ a[2] \in asked[i].range[2] .. asked[i].range[4]
                                /\ Columns[a[1]] \in Columns[asked[i].range[1]] ..
                                                     Columns[asked[i].range[3]] }
            IN  /\ (\A i \in DOMAIN asked : asked[i].op = "set_range") =>
                     CellAt(sheet, a) =
                       IF Covering = {} THEN was
                       ELSE LET op == asked[Max(Covering)]
                            IN  op.cells[a[2] - op.range[2] + 1]
                                        [Columns[a[1]] - Columns[op.range[1]] + 1]
                /\ (/\ \A i \in DOMAIN asked : asked[i].op = "append_rows"
                    /\ CellAt(sheet, a) # was) =>
                       /\ was = Null
                       /\ \E i \in DOMAIN asked : \E r \in DOMAIN asked[i].cells :
                             Columns[a[1]] \in 1 .. Len(asked[i].cells[r])
      ]_sheetVars

\* "The workbook changed outside the targeted cells": when the confirm says so and
\* shows the operation again, the new diff has the cells and the values of the old
\* one.  Of one operation: in a list, the rows an append_rows finds used depend on the
\* operations before it, which the target does not cover.
NewLookShowsTheSame ==
    [][ /\ sheetPhase = "previewed" /\ sheetPhase' = "previewed"
        /\ base' # base /\ Len(asked) = 1
        => LET Cells(diff) == {<<d.cell, d.before, d.after>> :
                                 d \in {e \in diff : "cell" \in DOMAIN e}}
           IN  Cells(shown') = Cells(shown)
      ]_sheetVars
=============================================================================
