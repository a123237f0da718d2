---------------------------- MODULE SheetFormula ----------------------------
(***************************************************************************)
(* recalculateSheetFormulas (sheet-formula.ts), which applySheetOperations *)
(* calls for all formulas of a worksheet it wrote to: whatever cached      *)
(* values the cells came with, each formula is parsed and evaluated at     *)
(* once, the cells it refers to first, and one that cannot be refuses the  *)
(* whole change.                                                           *)
(*                                                                         *)
(* A formula is the sequence of its tokens; an address <<column, row>>.    *)
(* Values are led by their kind: <<"null">>, <<"number", n>>,              *)
(* <<"text", s>>, <<"bool", b>>, and while evaluating also a range and     *)
(* <<"error">>.  Numbers are integers that divide exactly, no text reads   *)
(* as a number, and of the sixty functions those stand for the others that *)
(* take ranges, scalars, conditions and positions.                         *)
(***************************************************************************)
EXTENDS Integers, Sequences, FiniteSets, FiniteSetsExt, SequencesExt, TLC

CONSTANTS
    Worksheets  \* what a worksheet may hold when it was written to: functions from
                \* addresses to [value, formula, meant]; `meant' is the expression
                \* the formula was written down from, which the code never sees

VARIABLES
    sheetCells,
    formulaPhase   \* touched, calculated or refused

formulaVars == <<sheetCells, formulaPhase>>

Null   == <<"null">>
Error  == <<"error">>
Num(n) == <<"number", n>>

Formulas == {a \in DOMAIN sheetCells : sheetCells[a].formula # <<>>}

-----------------------------------------------------------------------------
\* Values

IsRange(v) == v[1] = "range"

Numeric(v) ==
    CASE v[1] = "number" -> v
      [] v[1] = "null"   -> Num(0)
      [] v[1] = "bool"   -> Num(IF v[2] THEN 1 ELSE 0)
      [] OTHER           -> Error

Truthy(v) ==
    CASE v[1] = "null"   -> FALSE
      [] v[1] = "bool"   -> v[2]
      [] v[1] = "number" -> v[2] # 0
      [] v[1] = "text"   -> v[2] # ""

AsText(v) ==
    CASE v[1] = "null" -> <<"text", "">>
      [] v[1] = "bool" -> <<"text", IF v[2] THEN "true" ELSE "false">>
      [] OTHER -> v

\* Two numbers compare as numbers, anything else as text; texts only for equality here.
CompareValues(l, r, op) ==
    IF IsRange(l) \/ IsRange(r) THEN Error
    ELSE <<"bool", CASE op = "="  -> AsText(l) = AsText(r)
                     [] op = "<>" -> AsText(l) # AsText(r)
                     [] op = "<"  -> l[2] < r[2]
                     [] op = ">"  -> l[2] > r[2]
                     [] op = "<=" -> l[2] <= r[2]
                     [] op = ">=" -> l[2] >= r[2] >>

Arithmetic(l, r, op) ==
    LET a == Numeric(l)
        b == Numeric(r)
    IN  IF Error \in {a, b} \/ (op = "/" /\ b = Num(0)) THEN Error
        ELSE Num(CASE op = "+" -> a[2] + b[2]
                   [] op = "-" -> a[2] - b[2]
                   [] op = "*" -> a[2] * b[2]
                   [] op = "/" -> a[2] \div b[2])

Binary(l, r, op) ==
    IF op \in {"+", "-", "*", "/"} THEN Arithmetic(l, r, op) ELSE CompareValues(l, r, op)

-----------------------------------------------------------------------------
\* Functions

Flatten(args) == FlattenSeq([i \in DOMAIN args |-> IF IsRange(args[i]) THEN args[i][2]
                                                   ELSE <<args[i]>>])

NumbersIn(args) == LET s == SelectSeq(Flatten(args), LAMBDA v : v[1] = "number")
                   IN  [i \in DOMAIN s |-> s[i][2]]

Scalars(args) == \A i \in DOMAIN args : ~IsRange(args[i])

InBounds(v, high) == LET n == Numeric(v) IN n # Error /\ n[2] \in 1 .. high

\* every() and some() stop at the first argument that decides, and see no range behind it.
Decided(args, by) ==
    LET i == SelectInSeq(args, LAMBDA v : IsRange(v) \/ Truthy(v) = by)
    IN  IF i = 0 THEN <<"bool", ~by>>
        ELSE IF IsRange(args[i]) THEN Error ELSE <<"bool", by>>

\* A range is <<"range", its values row by row, rows, columns>>.
RangeValueAt(range, row, column) == range[2][(row - 1) * range[4] + column]

EvaluateFunction(name, args) ==
    CASE name = "SUM" /\ args # <<>> -> Num(FoldLeft(LAMBDA n, v : n + v, 0, NumbersIn(args)))
      [] name = "MIN" /\ NumbersIn(args) # <<>> -> Num(Min(Range(NumbersIn(args))))
      [] name = "MAX" /\ NumbersIn(args) # <<>> -> Num(Max(Range(NumbersIn(args))))
      [] name = "COUNT" /\ args # <<>> -> Num(Len(NumbersIn(args)))
      [] name = "COUNTA" /\ args # <<>> ->
           Num(Len(SelectSeq(Flatten(args), LAMBDA v : v \notin {Null, <<"text", "">>})))
      [] name = "IF" /\ Len(args) = 3 /\ Scalars(args) ->
           IF Truthy(args[1]) THEN args[2] ELSE args[3]
      [] name = "AND" /\ args # <<>> -> Decided(args, FALSE)
      [] name = "OR" /\ args # <<>> -> Decided(args, TRUE)
      [] name = "NOT" /\ Len(args) = 1 /\ Scalars(args) -> <<"bool", ~Truthy(args[1])>>
      [] /\ name = "INDEX" /\ Len(args) = 3 /\ IsRange(args[1])
         /\ InBounds(args[2], args[1][3]) /\ InBounds(args[3], args[1][4]) ->
           RangeValueAt(args[1], Numeric(args[2])[2], Numeric(args[3])[2])
      [] OTHER -> Error

-----------------------------------------------------------------------------
\* FormulaParser: it evaluates as it parses.  A state of it is the value so far, the
\* cursor, and the cells computed meanwhile (the Map of recalculateSheetFormulas); an
\* error is final.  `visiting' are the cells being evaluated around it.

Peek(in, st) == IF st.at <= Len(in.tokens) THEN in.tokens[st.at] ELSE <<"eof">>
Is(in, st, type) == Peek(in, st)[1] = type
Past(st)     == [st EXCEPT !.at = @ + 1]
With(st, v)  == [st EXCEPT !.value = v]
Broken(st)   == st.value = Error

\* The operators of each level, from the loosest to the tightest.
Operators == <<{"=", "<>", "<", ">", "<=", ">="}, {"+", "-"}, {"*", "/"}>>

IsOperator(in, st, operators) == Is(in, st, "operator") /\ Peek(in, st)[2] \in operators

ExpandRange(start, end) ==
    LET width == end[1] - start[1] + 1
    IN  [i \in 1 .. width * (end[2] - start[2] + 1) |->
           <<start[1] + ((i - 1) % width), start[2] + ((i - 1) \div width)>>]

RECURSIVE EvaluateCell(_, _, _), Parse(_, _, _), ParseRest(_, _, _),
          ParseUnary(_, _), ParseArguments(_, _, _)

\* evaluateCell: its value and the computed cells with it
EvaluateCell(address, visiting, computed) ==
    LET Found(v) == [value |-> v, computed |-> computed]
    IN  IF address \in DOMAIN computed THEN Found(computed[address])
        ELSE IF address \notin DOMAIN sheetCells THEN Found(Null)
        ELSE IF address \notin Formulas THEN Found(sheetCells[address].value)
        ELSE IF address \in visiting THEN Found(Error)
        ELSE LET in == [tokens |-> sheetCells[address].formula, visiting |-> visiting \cup {address}]
                 st == Parse(in, 1, [value |-> Null, at |-> 1, computed |-> computed])
             IN  IF Broken(st) \/ ~Is(in, st, "eof") \/ IsRange(st.value) THEN Found(Error)
                 ELSE [value |-> st.value, computed |-> (address :> st.value) @@ st.computed]

\* A cell, read by the parser.
ReadCell(in, st, address) ==
    LET read == EvaluateCell(address, in.visiting, st.computed)
    IN  [st EXCEPT !.value = read.value, !.computed = read.computed]

ReadRange(in, st, start, end) ==
    LET addresses == ExpandRange(start, end)
        Add(got, a) == LET read == ReadCell(in, got.st, a)
                       IN  IF Broken(got.st) THEN got
                           ELSE [st |-> read, values |-> Append(got.values, read.value)]
        all == FoldLeft(Add, [st |-> st, values |-> <<>>], addresses)
    IN  IF start[1] > end[1] \/ start[2] > end[2] THEN With(st, Error)
        ELSE IF Broken(all.st) THEN all.st
        ELSE With(all.st, <<"range", all.values, end[2] - start[2] + 1, end[1] - start[1] + 1>>)

ParseReference(in, st) ==
    LET start == Peek(in, st)[2]
        next  == Past(st)
    IN  IF ~Is(in, next, "colon") THEN ReadCell(in, next, start)
        ELSE IF ~Is(in, Past(next), "cell") THEN With(st, Error)
        ELSE ReadRange(in, Past(Past(next)), start, Peek(in, Past(next))[2])

\* The arguments after an opening parenthesis, as <<"arguments", values>>.
ParseArguments(in, st, args) ==
    LET arg == Parse(in, 1, st)
        all == Append(args, arg.value)
    IN  IF Broken(arg) THEN arg
        ELSE IF Is(in, arg, "comma") THEN ParseArguments(in, Past(arg), all)
        ELSE IF Is(in, arg, "right_paren") THEN With(Past(arg), <<"arguments", all>>)
        ELSE With(arg, Error)

ParseCall(in, st) ==
    LET name == Peek(in, st)[2]
        open == Past(st)
        args == IF Is(in, Past(open), "right_paren")
                THEN With(Past(Past(open)), <<"arguments", <<>>>>)
                ELSE ParseArguments(in, Past(open), <<>>)
    IN  IF name \in {"TRUE", "FALSE"} THEN With(open, <<"bool", name = "TRUE">>)
        ELSE IF ~Is(in, open, "left_paren") THEN With(st, Error)
        ELSE IF Broken(args) THEN args
        ELSE With(args, EvaluateFunction(name, args.value[2]))

ParseGroup(in, st) ==
    LET inner == Parse(in, 1, Past(st))
    IN  IF Broken(inner) THEN inner
        ELSE IF Is(in, inner, "right_paren") THEN Past(inner) ELSE With(inner, Error)

ParsePrimary(in, st) ==
    LET type == Peek(in, st)[1]
    IN  CASE type \in {"number", "text"} -> With(Past(st), Peek(in, st))
          [] type = "cell"       -> ParseReference(in, st)
          [] type = "identifier" -> ParseCall(in, st)
          [] type = "left_paren" -> ParseGroup(in, st)
          [] OTHER               -> With(st, Error)

ParseUnary(in, st) ==
    LET inner == ParseUnary(in, Past(st))
        value == Numeric(inner.value)
    IN  IF ~IsOperator(in, st, {"+", "-"}) THEN ParsePrimary(in, st)
        ELSE IF Broken(inner) \/ value = Error THEN With(inner, Error)
        ELSE With(inner, Num(IF Peek(in, st)[2] = "-" THEN -value[2] ELSE value[2]))

\* parseComparison, parseAdditive and parseMultiplicative
Parse(in, level, st) ==
    IF level > Len(Operators) THEN ParseUnary(in, st)
    ELSE ParseRest(in, level, Parse(in, level + 1, st))

ParseRest(in, level, left) ==
    LET right == Parse(in, level + 1, Past(left))
    IN  IF Broken(left) \/ ~IsOperator(in, left, Operators[level]) THEN left
        ELSE IF Broken(right) THEN right
        ELSE ParseRest(in, level, With(right, Binary(left.value, right.value, Peek(in, left)[2])))

-----------------------------------------------------------------------------
Init == sheetCells \in Worksheets /\ formulaPhase = "touched"

\* The cells computed when every formula has its turn, in any order; or an error.
Computed ==
    LET Turn(got, a) ==
          IF got.value = Error THEN got ELSE EvaluateCell(a, {}, got.computed)
    IN  FoldLeft(Turn, [value |-> Null, computed |-> <<>>], SetToSeq(Formulas))

RecalculateSheetFormulas ==
    /\ formulaPhase = "touched"
    /\ LET all == Computed
       IN  IF all.value = Error THEN formulaPhase' = "refused" /\ UNCHANGED sheetCells
           ELSE /\ formulaPhase' = "calculated"
                /\ sheetCells' = [a \in DOMAIN sheetCells |->
                                IF a \in Formulas
                                THEN [sheetCells[a] EXCEPT !.value = all.computed[a]]
                                ELSE sheetCells[a]]

Next == RecalculateSheetFormulas

Spec == Init /\ [][Next]_formulaVars

-----------------------------------------------------------------------------
\* Properties

\* An expression is <<"value", v>>, <<"cell", a>>, <<"range", a, b>>, <<"minus", e>>,
\* <<op, e, e>> or <<"call", name, arguments>>.

Rectangle(a, b) == (a[1] .. b[1]) \X (a[2] .. b[2])

RECURSIVE References(_), Meaning(_, _)

\* The cells an expression speaks of, in whichever branch.
References(e) ==
    CASE e[1] = "value" -> {}
      [] e[1] = "cell"  -> {e[2]}
      [] e[1] = "range" -> Rectangle(e[2], e[3])
      [] e[1] = "minus" -> References(e[2])
      [] e[1] = "call"  -> UNION {References(e[3][i]) : i \in DOMAIN e[3]}
      [] OTHER          -> References(e[2]) \cup References(e[3])

\* What an expression means where the cells have the values `at'.
Meaning(e, at) ==
    LET Cell(a) == IF a \in DOMAIN at THEN at[a] ELSE Null
    IN  CASE e[1] = "value" -> e[2]
          [] e[1] = "cell"  -> Cell(e[2])
          [] e[1] = "range" ->
               LET spots == SetToSeq(Rectangle(e[2], e[3]))
               IN  <<"range", [i \in DOMAIN spots |-> Cell(spots[i])]>>
          [] e[1] = "minus" -> Arithmetic(Num(0), Meaning(e[2], at), "-")
          [] e[1] = "call"  ->
               LET args == [i \in DOMAIN e[3] |-> Meaning(e[3][i], at)]
               IN  IF Error \in Range(args) THEN Error
                   ELSE IF e[2] # "INDEX" THEN EvaluateFunction(e[2], args)
                   ELSE LET spot == << e[3][1][2][1] + args[3][2] - 1,
                                       e[3][1][2][2] + args[2][2] - 1 >>
                        IN  IF spot \in Rectangle(e[3][1][2], e[3][1][3]) THEN Cell(spot) ELSE Error
          [] OTHER -> LET l == Meaning(e[2], at)
                          r == Meaning(e[3], at)
                      IN  IF Error \in {l, r} THEN Error ELSE Binary(l, r, e[1])

Unknown == <<"unknown">>

\* Without recursion over cells: nothing is known, and in each round the formulas are
\* worked out whose cells are.  As many rounds as formulas do, or some wait in a circle.
Expected ==
    LET Value(a, known) ==
          LET needs == References(sheetCells[a].meant) \cap Formulas
              value == Meaning(sheetCells[a].meant,
                               [b \in DOMAIN sheetCells |-> IF b \in Formulas THEN known[b]
                                                       ELSE sheetCells[b].value])
          IN  IF \E b \in needs : known[b] = Unknown THEN Unknown
              ELSE IF \E b \in needs : known[b] = Error THEN Error
              ELSE IF IsRange(value) THEN Error ELSE value
        round[n \in 0 .. Cardinality(Formulas)] ==
          [a \in Formulas |-> IF n = 0 THEN Unknown ELSE Value(a, round[n - 1])]
    IN  round[Cardinality(Formulas)]

\* A worksheet is written with every formula worked out from the cells as they will be,
\* by the usual precedence and in whatever order the formulas depend on each other, and
\* with no other cell changed; a circle of formulas, and one that is wrong somewhere, in
\* a branch not taken or in a cell the change is not about, refuses the change
\* (recalculateSheetFormulas, with its Map of computed cells and its Set of cells being
\* visited, and FormulaParser).
FormulasSettled ==
    [][ formulaPhase = "touched" /\ formulaPhase' # "touched" =>
          IF \A a \in Formulas : Expected[a] \notin {Unknown, Error}
          THEN /\ formulaPhase' = "calculated"
               /\ sheetCells' = [a \in DOMAIN sheetCells |->
                              IF a \in Formulas THEN [sheetCells[a] EXCEPT !.value = Expected[a]]
                              ELSE sheetCells[a]]
          ELSE formulaPhase' = "refused" /\ sheetCells' = sheetCells
      ]_formulaVars
=============================================================================
