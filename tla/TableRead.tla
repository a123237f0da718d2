------------------------------ MODULE TableRead ------------------------------
(***************************************************************************)
(* Reading a Table page by page (getTable of yuque-client.ts, with         *)
(* table-query.ts and table-model.ts).                                     *)
(*                                                                         *)
(* A client asks for the records of one sheet and follows next_offset.     *)
(* Without a filter or groups a call fetches one page of the remote table; *)
(* with them it scans the whole table page by page, up to a limit, filters *)
(* and cuts its own page out of the matches, or counts them.  An answer    *)
(* that is too long is halved until it fits.  A colleague may insert and   *)
(* delete rows between any two pages.                                      *)
(*                                                                         *)
(* A value is a tuple led by its kind: <<"null">>, <<"option", id>>,       *)
(* <<"list", ids>>, <<"number", n>>, <<"percent", n>>, <<"label", text>>.  *)
(***************************************************************************)
EXTENDS Integers, Sequences, FiniteSets, FiniteSetsExt, SequencesExt

CONSTANTS
    Sheets,       \* the schema: a sequence of [id, columns]
    Tables,       \* the rows the table may start with: sequences of [id, cells, size]
    Asked,        \* the requests: [sheetId, filtered, filter, columns, groupBy, limit]
    NewRow,       \* the row a colleague inserts
    PageSize,     \* rows of a scan's page (500)
    MaxScan,      \* rows of a scan (5000)
    MaxOutput,    \* the length of an answer (40 KiB)
    MaxBuckets,   \* the buckets of a distribution (100)
    MaxRowEdits   \* bound: edits by the colleague

VARIABLES
    rows,         \* the remote table
    ask,          \* the request the client repeats with each next_offset
    readPhase,    \* idle, fetch, selection, failed, done or stats
    offset,       \* the offset of the call that is running
    scanned,      \* the rows its scan has so far
    collected,    \* the rows of the answers so far
    complete,     \* the complete flag of the last answer
    stats,        \* the distributions it answered
    moved         \* edits so far

readVars == <<rows, ask, readPhase, offset, scanned, collected, complete, stats, moved>>

Nothing == <<"null">>

-----------------------------------------------------------------------------
\* parseTableSchema: no sheet and no column twice

ValidSchema ==
    /\ Sheets # <<>>
    /\ IsInjective([i \in DOMAIN Sheets |-> Sheets[i].id])
    /\ \A i \in DOMAIN Sheets :
          IsInjective([c \in DOMAIN Sheets[i].columns |-> Sheets[i].columns[c].id])

\* resolveColumn: the columns a key may mean, one where it is clear
ResolveColumn(columns, key) ==
    LET byId == {c \in Range(columns) : c.id = key}
    IN  IF byId # {} THEN byId ELSE {c \in Range(columns) : c.name = key}

Clear(columns, key) == Cardinality(ResolveColumn(columns, key)) = 1
Meant(columns, key) == CHOOSE c \in ResolveColumn(columns, key) : TRUE

\* fieldList: between one and max keys, clear, of different columns
ValidFields(columns, keys, max) ==
    /\ Len(keys) \in 1 .. max
    /\ \A i \in DOMAIN keys : Clear(columns, keys[i])
    /\ IsInjective([i \in DOMAIN keys |-> Meant(columns, keys[i]).id])

\* displayValue
Option(column, id) == IF id \in DOMAIN column.options THEN column.options[id] ELSE id

DisplayValue(column, value) ==
    CASE value[1] = "option" -> <<"label", Option(column, value[2])>>
      [] value[1] = "list"   -> <<"list", [i \in DOMAIN value[2] |-> Option(column, value[2][i])]>>
      [] column.type = "progress" /\ value[1] = "number" -> <<"percent", value[2]>>
      [] OTHER -> value

-----------------------------------------------------------------------------
\* prepareTableQuery: a filter maps keys to a value or to <<"id", id>>

ValidFilter(columns, filter) ==
    /\ Cardinality(DOMAIN filter) <= 20
    /\ \A key \in DOMAIN filter :
         /\ Clear(columns, key)
         /\ filter[key][1] = "id" => Meant(columns, key).type \in {"select", "multiSelect"}

CellMatches(column, value, wanted) ==
    \/ /\ wanted[1] = "id"
       /\ IF value[1] = "list" THEN wanted[2] \in Range(value[2])
          ELSE Len(value) = 2 /\ value[2] = wanted[2]
    \/ wanted = Nothing /\ (value = Nothing \/ value = <<"list", <<>>>>)
    \/ /\ column.type = "progress" /\ value # Nothing
       /\ wanted \in {<<"number", value[2]>>, <<"percent", value[2]>>}
    \/ /\ column.type # "progress" /\ wanted[1] \notin {"id", "null"}
       /\ LET display == DisplayValue(column, value)
          IN  IF display[1] = "list"
              THEN wanted[1] = "label" /\ wanted[2] \in Range(display[2])
              ELSE display = wanted

SheetAsked(req) ==
    IF req.sheetId = "" THEN {Sheets[1]} ELSE {s \in Range(Sheets) : s.id = req.sheetId}

ColumnsAsked(req) == (CHOOSE s \in SheetAsked(req) : TRUE).columns

\* A filter of no keys is one, too: it scans, and every row matches.
Filters(req)  == req.filtered
Groups(req)   == req.groupBy # <<>>
Projects(req) == req.columns # <<>>
Scans(req)    == Filters(req) \/ Groups(req)

RowMatches(req, row) ==
    \A key \in DOMAIN req.filter :
       LET column == Meant(ColumnsAsked(req), key)
       IN  CellMatches(column, row.cells[column.id], req.filter[key])

ValidRequest(req) ==
    /\ SheetAsked(req) # {}
    /\ Projects(req) => ValidFields(ColumnsAsked(req), req.columns, 100)
    /\ Groups(req)   => ValidFields(ColumnsAsked(req), req.groupBy, 10)
    /\ ValidFilter(ColumnsAsked(req), req.filter)

-----------------------------------------------------------------------------
\* The data the service answers with, and what the tools' schema lets a client ask

\* nothing, an option, a list of options, a number or a text
IsValue(value) ==
    \/ value = Nothing
    \/ value[1] \in {"option", "number", "label"} /\ value = <<value[1], value[2]>>
    \/ value = <<"list", value[2]>> /\ value[2] \in Seq(Range(value[2]))

\* A progress column holds numbers.
IsRow(row) ==
    \A sheet \in Range(Sheets) : \A column \in Range(sheet.columns) :
       /\ IsValue(row.cells[column.id])
       /\ column.type = "progress" => row.cells[column.id][1] \in {"null", "number"}

IsRequest(req) ==
    /\ req.limit \in Nat \ {0}
    /\ Filters(req) \/ req.filter = <<>>
    /\ req.groupBy \in Seq(Range(req.groupBy))
    /\ \A key \in DOMAIN req.filter :
         \/ req.filter[key] = Nothing
         \/ /\ req.filter[key][1] \in {"id", "label", "number", "percent"}
            /\ req.filter[key] = <<req.filter[key][1], req.filter[key][2]>>

WellFormed ==
    /\ Sheets \in Seq(Range(Sheets))
    /\ \A sheet \in Range(Sheets) : sheet.columns \in Seq(Range(sheet.columns))
    /\ \A table \in Tables : table \in Seq(Range(table)) /\ \A row \in Range(table) : IsRow(row)
    /\ IsRow(NewRow)
    /\ \A req \in Asked : IsRequest(req)
    /\ {PageSize, MaxScan, MaxBuckets} \subseteq Nat

-----------------------------------------------------------------------------
\* tableDistributions: of each column, how many rows have each value

Memberships(column, row) ==
    LET value == row.cells[column.id]
    IN  IF value[1] # "list" THEN {value}
        ELSE IF value[2] = <<>> THEN {Nothing}
        ELSE {<<"option", id>> : id \in Range(value[2])}

Distribution(matched, column) ==
    LET values == UNION {Memberships(column, matched[i]) : i \in DOMAIN matched}
        count  == [v \in values |->
                     Cardinality({i \in DOMAIN matched : v \in Memberships(column, matched[i])})]
        shown  == CHOOSE top \in SUBSET values :
                    /\ Cardinality(top) = Min({MaxBuckets, Cardinality(values)})
                    /\ \A v \in top, w \in values \ top : count[v] >= count[w]
    IN  [ column   |-> column.id,
          buckets  |-> [v \in shown |-> count[v]],
          distinct |-> Cardinality(values),
          omitted  |-> SumFunctionOnSet(count, values \ shown) ]

Distributions(req, matched) ==
    [i \in DOMAIN req.groupBy |->
        Distribution(matched, Meant(ColumnsAsked(req), req.groupBy[i]))]

-----------------------------------------------------------------------------
\* boundedTableOutput: how many of the records an answer keeps, none if one is too long

Length(req, records, n) ==
    IF Projects(req) THEN n * Len(req.columns)
    ELSE FoldLeft(LAMBDA sum, row : sum + row.size, 0, SubSeq(records, 1, n))

Kept(req, records) ==
    LET fit[n \in 0 .. Len(records)] ==
          IF Length(req, records, n) > MaxOutput /\ n > 1 THEN fit[Max({1, n \div 2})] ELSE n
    IN  IF Scans(req) \/ Projects(req) THEN fit[Len(records)] ELSE Len(records)

\* A plausible bug: the page is halved, and next_offset is behind the page asked for.
MutantAnswer(records, hasMore) ==
    LET kept == Kept(ask, records)
        more == hasMore \/ kept < Len(records)
    IN  IF (Scans(ask) \/ Projects(ask)) /\ Length(ask, records, kept) > MaxOutput
        THEN /\ readPhase' = "failed"
             /\ UNCHANGED <<offset, scanned, collected, complete, stats>>
        ELSE /\ collected' = collected \o SubSeq(records, 1, kept)
             /\ offset' = offset + Len(records)
             /\ complete' = (offset = 0 /\ ~more)
             /\ readPhase' = IF more THEN "fetch" ELSE "done"
             /\ scanned' = <<>>
             /\ UNCHANGED stats

\* The answer of a call that has its page: the client asks on while there is more.
Answer(records, hasMore) ==
    LET kept == Kept(ask, records)
        more == hasMore \/ kept < Len(records)
    IN  IF (Scans(ask) \/ Projects(ask)) /\ Length(ask, records, kept) > MaxOutput
        THEN /\ readPhase' = "failed"
             /\ UNCHANGED <<offset, scanned, collected, complete, stats>>
        ELSE /\ collected' = collected \o SubSeq(records, 1, kept)
             /\ offset' = offset + kept
             /\ complete' = (offset = 0 /\ ~more)
             /\ readPhase' = IF more THEN "fetch" ELSE "done"
             /\ scanned' = <<>>
             /\ UNCHANGED stats

-----------------------------------------------------------------------------
ReadInit ==
    /\ rows \in Tables
    /\ ask = <<>> /\ readPhase = "idle"
    /\ offset = 0 /\ scanned = <<>> /\ collected = <<>>
    /\ complete = FALSE /\ stats = <<>> /\ moved = 0

GetTable ==
    /\ readPhase = "idle"
    /\ \E req \in Asked :
         /\ ask' = req
         /\ readPhase' = IF ~ValidSchema THEN "failed"
                         ELSE IF req.sheetId = "" /\ Len(Sheets) > 1 THEN "selection"
                         ELSE IF ValidRequest(req) THEN "fetch" ELSE "failed"
    /\ UNCHANGED <<rows, offset, scanned, collected, complete, stats, moved>>

\* External: the rows from a position on, at most limit, perhaps fewer than there are.
Page(from, limit) ==
    {SubSeq(rows, from + 1, from + k) :
        k \in 0 .. Max({0, Min({limit, Len(rows) - from})})}

MoreBehind(from, page) == from + Len(page) < Len(rows)

Ids(records) == [i \in DOMAIN records |-> records[i].id]

\* A plausible bug: the rows of a page are taken without looking for those already there.
MutantBadPage(before, page, hasMore) == hasMore /\ page = <<>>

\* no progress, or a row for the second time
BadPage(before, page, hasMore) ==
    \/ hasMore /\ page = <<>>
    \/ ~IsInjective(Ids(before \o page))

\* one page of the remote table is the answer
FetchSource ==
    /\ readPhase = "fetch" /\ ~Scans(ask)
    /\ \E page \in Page(offset, ask.limit) :
         IF BadPage(<<>>, page, MoreBehind(offset, page))
         THEN /\ readPhase' = "failed"
              /\ UNCHANGED <<offset, scanned, collected, complete, stats>>
         ELSE Answer(page, MoreBehind(offset, page))
    /\ UNCHANGED <<rows, ask, moved>>

StopsScan(all, hasMore) == hasMore /\ Len(all) >= MaxScan

\* Array.filter: the records that are good, in their order
Selected(records, good) ==
    LET first[n \in 0 .. Len(records)] ==
          IF n = 0 THEN <<>>
          ELSE IF records[n] \in good THEN Append(first[n - 1], records[n]) ELSE first[n - 1]
    IN  first[Len(records)]

\* a page of a scan; the last one leads to the answer
ScanPage ==
    /\ readPhase = "fetch" /\ Scans(ask)
    /\ \E page \in Page(Len(scanned), Min({PageSize, MaxScan - Len(scanned)})) :
         LET hasMore == MoreBehind(Len(scanned), page)
             all     == scanned \o page
             matched == Selected(all, {row \in Range(all) : RowMatches(ask, row)})
             last    == Min({offset + ask.limit, Len(matched)})
         IN  IF BadPage(scanned, page, hasMore) \/ StopsScan(all, hasMore)
             THEN /\ readPhase' = "failed"
                  /\ UNCHANGED <<offset, scanned, collected, complete, stats>>
             ELSE IF hasMore
             THEN /\ scanned' = all
                  /\ UNCHANGED <<readPhase, offset, collected, complete, stats>>
             ELSE IF Groups(ask)
             THEN /\ stats' = Distributions(ask, matched)
                  /\ scanned' = all
                  /\ readPhase' = "stats"
                  /\ UNCHANGED <<offset, collected, complete>>
             ELSE Answer(SubSeq(matched, offset + 1, last), offset + ask.limit < Len(matched))
    /\ UNCHANGED <<rows, ask, moved>>

\* a scan longer than thirty seconds or than its bytes
ScanOverBudget ==
    /\ readPhase = "fetch" /\ Scans(ask)
    /\ readPhase' = "failed"
    /\ UNCHANGED <<rows, ask, offset, scanned, collected, complete, stats, moved>>

\* External: a colleague inserts a row or deletes one, between two pages.
EditRows ==
    /\ readPhase = "fetch" /\ moved < MaxRowEdits
    /\ \/ rows' = <<NewRow>> \o rows
       \/ rows' = Append(rows, NewRow)
       \/ \E i \in DOMAIN rows : rows' = RemoveAt(rows, i)
    /\ moved' = moved + 1
    /\ UNCHANGED <<ask, readPhase, offset, scanned, collected, complete, stats>>

ReadNext ==
    \/ GetTable \/ FetchSource \/ ScanPage \/ ScanOverBudget \/ EditRows

ReadSpec == ReadInit /\ [][ReadNext]_readVars

-----------------------------------------------------------------------------
\* Properties

\* What a cell shows: the reference reads it as the set of its options or values.
PartsOf(value) ==
    CASE value = Nothing    -> {}
      [] value[1] = "list"  -> Range(value[2])
      [] OTHER              -> {value[2]}

Shows(column, value, wanted) ==
    \/ wanted = Nothing /\ PartsOf(value) = {}
    \/ wanted[1] = "id" /\ wanted[2] \in PartsOf(value)
    \/ wanted[1] = "percent" /\ column.type = "progress" /\ value = <<"number", wanted[2]>>
    \/ /\ wanted[1] = "label" /\ value[1] \in {"option", "list"}
       /\ wanted[2] \in {Option(column, o) : o \in PartsOf(value)}
    \/ value = wanted

\* The rows the client wants.
Wanted(row) ==
    \A key \in DOMAIN ask.filter :
      \E column \in Range(ColumnsAsked(ask)) :
         /\ \/ column.id = key
            \/ column.name = key /\ \A other \in Range(ColumnsAsked(ask)) : other.id # key
         /\ Shows(column, row.cells[column.id], ask.filter[key])

WantedOf(records) == Selected(records, {row \in Range(records) : Wanted(row)})

\* A client that follows next_offset on a table nobody changes gets every record it
\* wants once, in the table's order, however short the pages of the table or of the
\* answers are; and an answer that calls itself complete has them all.
PagesCoverOnce ==
    moved = 0 =>
      /\ readPhase = "done" \/ complete => collected = WantedOf(rows)
      /\ readPhase = "fetch" => IsPrefix(collected, WantedOf(rows))

\* Which row has which value.
MembershipPairs(records, column) ==
    UNION {{<<i, value>> : value \in Memberships(column, records[i])} : i \in DOMAIN records}

\* The pairs are all in the buckets or counted as left out, and no bucket is smaller
\* than a value that is left out.
CountsWhole(records, column, distribution) ==
    LET pairs    == MembershipPairs(records, column)
        Rows(v)  == {pair \in pairs : pair[2] = v}
        left     == {pair[2] : pair \in pairs} \ DOMAIN distribution.buckets
    IN  /\ Cardinality(pairs) = distribution.omitted + SumFunction(distribution.buckets)
        /\ \A v \in DOMAIN distribution.buckets :
             /\ distribution.buckets[v] = Cardinality(Rows(v))
             /\ \A w \in left : Cardinality(Rows(w)) <= distribution.buckets[v]

\* What a scan counts is whole: each row once even when rows move under it, all of
\* the table when none do, and of each column the buckets and the memberships left
\* out add up to the rows' values, no bucket being smaller than one left out.
CountsAreWhole ==
    readPhase = "stats" =>
      /\ Cardinality(Range(Ids(scanned))) = Len(scanned)
      /\ moved = 0 => scanned = rows
      /\ DOMAIN stats = DOMAIN ask.groupBy
      /\ \A i \in DOMAIN stats :
           CountsWhole(WantedOf(scanned), Meant(ColumnsAsked(ask), ask.groupBy[i]), stats[i])
=============================================================================
