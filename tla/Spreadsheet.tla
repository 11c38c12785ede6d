---------------------------- MODULE Spreadsheet ----------------------------
(* How the intake reads a workbook (xlsx.ts): the cells of a sheet, the rows
   that may be its header, and the rows of a trial balance that a column map
   makes of it.  A sheet is its name and the sequence of its physical rows, a
   row the sequence of its cells.  A cell has a kind and a text, which is a
   number, a word or Blank; a cell in parentheses has the number in them. *)
EXTENDS IntakeChecks, FiniteSetsExt

CONSTANT MaxSheetRows  \* XLSX_MAX_ROWS

ASSUME SpreadsheetAssumption ==
  MaxSheetRows \in Nat /\ Blank \notin Int /\ Unreadable \notin Int

AmountFields    == {"debit", "credit", "balance"}
RequiredFields  == {"accountName", "accountType", "period"}
CanonicalFields == AmountFields \cup RequiredFields \cup
  {"accountNumber", "periodEnd", "currency", "entityName", "entityExternalId", "accountExternalId", "detailType"}

Cell(kind, text) == [kind |-> kind, text |-> text]
NoCell == Cell("empty", Blank)

-----------------------------------------------------------------------------
(* Cells. *)

\* xlsxCellToString: a formula gives its result, one that failed nothing.
CellText(cell) == IF cell.kind \in {"empty", "error"} THEN Blank ELSE cell.text

\* The value of a cell for a field: normalizeXlsxNumericString takes an amount in
\* parentheses as negative; a word is no amount, nor is a negative one in them.
CellValue(cell, field) ==
  CASE CellText(cell) = Blank     -> Blank
    [] CellText(cell) # Blank /\ field \notin AmountFields -> cell.text
    [] CellText(cell) # Blank /\ field \in AmountFields ->
         IF cell.text \notin Int THEN Unreadable
         ELSE IF cell.kind # "parens" THEN cell.text
         ELSE IF cell.text < 0 THEN Unreadable ELSE -cell.text

\* A row as it is kept: without the empty cells at its end.
Trimmed(row) ==
  SubSeq(row, 1, Max({0} \cup {i \in DOMAIN row : CellText(row[i]) # Blank}))
CellAt(row, i) == IF i \in DOMAIN row THEN row[i] ELSE NoCell

\* parseXlsxBuffer: no link to another workbook anywhere, and some slack for
\* titles in the limit on all rows.
Readable(sheets) ==
  /\ sheets # <<>>
  /\ \A sheet \in ToSet(sheets) : \A row \in ToSet(sheet.rows) : \A cell \in ToSet(row) :
       cell.kind # "external"
  /\ FoldLeft(LAMBDA n, sheet : n + Len(sheet.rows), 0, sheets) <= MaxSheetRows + 100

-----------------------------------------------------------------------------
(* Headers. *)

\* isHeaderLikeCell: a text that is no number, nor one in parentheses; rich text
\* is not looked into.
HeaderLike(cell) ==
  /\ cell.text # Blank
  /\ cell.kind = "rich" \/ (cell.kind \in {"words", "formula"} /\ cell.text \notin Int)

\* detectHeaderRowCandidates: three fifths of the cells that are not empty.
HeaderRowCandidates(sheet) ==
  {r \in DOMAIN sheet.rows :
     LET filled == {i \in DOMAIN sheet.rows[r] : CellText(sheet.rows[r][i]) # Blank}
         like   == {i \in filled : HeaderLike(sheet.rows[r][i])}
     IN  filled # {} /\ 5 * Cardinality(like) >= 3 * Cardinality(filled)}

Headers(sheet, h) ==
  LET row == Trimmed(sheet.rows[h]) IN [i \in DOMAIN row |-> CellText(row[i])]

\* buildClientFingerprint: the name of the sheet and its headers in any order.
Fingerprint(sheet, h) ==
  LET headers == Headers(sheet, h)
  IN  <<sheet.name, [w \in ToSet(headers) |-> Cardinality({i \in DOMAIN headers : headers[i] = w})]>>

\* POST /preview asks for the column map of the first candidate.
PreviewRow(sheet) == IF HeaderRowCandidates(sheet) = {} THEN 0 ELSE Min(HeaderRowCandidates(sheet))

-----------------------------------------------------------------------------
(* Column maps: functions from headers to fields. *)

ValidColumnMap(headers, map) ==
  /\ DOMAIN map \subseteq ToSet(headers)
  /\ {map[w] : w \in DOMAIN map} \subseteq CanonicalFields
  /\ RequiredFields \subseteq {map[w] : w \in DOMAIN map}

MappedColumns(headers, map) == {i \in DOMAIN headers : headers[i] \in DOMAIN map}
ColumnsOf(headers, map, field) == {i \in MappedColumns(headers, map) : map[headers[i]] = field}

\* What the header row and the map are refused for, before a row is read.
Mappable(sheet, h, map) ==
  /\ h \in DOMAIN sheet.rows /\ Headers(sheet, h) # <<>>
  /\ ValidColumnMap(Headers(sheet, h), map)
  /\ \A w \in DOMAIN map : Cardinality(ColumnsOf(Headers(sheet, h), map, map[w])) = 1

\* The fields of a physical row; rowToRecord keeps the last of two of one name.
RowFields(sheet, h, map, r) ==
  [field \in {map[w] : w \in DOMAIN map} |->
     CellValue(CellAt(Trimmed(sheet.rows[r]), Max(ColumnsOf(Headers(sheet, h), map, field))), field)]

\* mapSheetToParsedRows: the rows below the header, with their numbers, but for those
\* with nothing in the mapped columns.
EmptyRow(sheet, h, map, r) ==
  LET fields == RowFields(sheet, h, map, r) IN \A field \in DOMAIN fields : fields[field] = Blank
ParsedRows(sheet, h, map) ==
  LET upTo[n \in 0 .. Len(sheet.rows) - h] ==
        IF n = 0 THEN <<>>
        ELSE IF EmptyRow(sheet, h, map, h + n) THEN upTo[n - 1]
        ELSE Append(upTo[n - 1], [line |-> h + n, fields |-> RowFields(sheet, h, map, h + n)])
  IN  upTo[Len(sheet.rows) - h]

\* POST /column-map takes the sheet.
Accepted(sheet, h, map) ==
  /\ Readable(<<sheet>>) /\ Mappable(sheet, h, map)
  /\ Len(ParsedRows(sheet, h, map)) <= MaxSheetRows

-----------------------------------------------------------------------------
(* What the reading must keep. *)

\* The amount that a cell shows.
Shown(cell) ==
  CASE cell.kind \in {"empty", "error"} \/ cell.text \notin Int -> 0
    [] cell.kind = "parens" /\ cell.text \in Int -> IF cell.text >= 0 THEN -cell.text ELSE 0
    [] OTHER -> cell.text
ShownAt(sheet, r, i) == IF i \in DOMAIN sheet.rows[r] THEN Shown(sheet.rows[r][i]) ELSE 0

\* Each physical row below the header becomes one parsed row at most, in order.
RowsInOrder(sheet, h, rows) ==
  /\ \A i \in DOMAIN rows : rows[i].line \in h + 1 .. Len(sheet.rows)
  /\ \A i, j \in DOMAIN rows : i < j => rows[i].line < rows[j].line

\* The amount that a parsed row has for a physical row and a field, none if it was
\* passed over.
AmountRead(rows, r, field) ==
  IF \E i \in DOMAIN rows : rows[i].line = r
  THEN Amount(rows[CHOOSE i \in DOMAIN rows : rows[i].line = r].fields[field]) ELSE 0

\* No amount is lost between a sheet and its rows, none counts twice, and none is read
\* from another row or column than the one it is in.
AmountsKept(sheet, h, map) ==
  LET rows == ParsedRows(sheet, h, map)
  IN  /\ RowsInOrder(sheet, h, rows)
      /\ \A r \in h + 1 .. Len(sheet.rows), w \in DOMAIN map :
           \A i \in ColumnsOf(Headers(sheet, h), map, map[w]) :
             map[w] \in AmountFields => AmountRead(rows, r, map[w]) = ShownAt(sheet, r, i)

\* The map remembered for a sheet suits every sheet it is suggested for.
SuggestionFits(sheet, h, map, other) ==
  PreviewRow(other) # 0 /\ Fingerprint(other, PreviewRow(other)) = Fingerprint(sheet, h)
    => Mappable(other, PreviewRow(other), map)
=============================================================================
