---------------------------- MODULE SourceFormats ----------------------------
(***************************************************************************)
(* From a document to the provider's facts: internal/ingest/url.go         *)
(* (ValidateURL, DetectFormat, NormalizeSourceURL), the dispatch of        *)
(* internal/ingest/fetch.go and internal/parser/dispatch.go, the parsers   *)
(* of internal/parser, and facts.FromRecord.  They keep no state.          *)
(*                                                                         *)
(* Text is a sequence of words and marks.  The readers below the parsers   *)
(* (encoding/csv, encoding/json, encoding/xml, archive/zip, zlib) are      *)
(* external: a document is given as the cells, members, elements or        *)
(* strings they deliver.  Where a document of plain text is read as        *)
(* another format, its characters count, and CSVText and ReadCSV stand for *)
(* the CSV writer and reader.  A parser returns Failed or a record, a      *)
(* function from keys to values.                                           *)
(***************************************************************************)
EXTENDS Integers, SequencesExt

CONSTANTS
  LowerCase,  \* for each word with a capital, the word without
  Failed,     \* a parser's error
  Null,       \* null in JSON
  Misreadings \* records a parser may make of the bytes of another format

Marks == {" ", "_", "*", ":", "#", "-", ".", "\n", "&#58;", "64K"}

\* What CSV gives a meaning to, next to the newline.
Comma == ","
Quote == "\""

\* "64K" stands for a line too long for bufio.Scanner.  (The provers do not
\* know a literal for a string.)
ASSUME FormatAssumption ==
  /\ Marks \subseteq STRING /\ Comma \in STRING /\ Quote \in STRING
  /\ \A record \in Misreadings : DOMAIN record \subseteq Seq(STRING)
  /\ LowerCase \in [DOMAIN LowerCase -> STRING]
  /\ (DOMAIN LowerCase) \cap Marks = {}
  /\ \A w \in DOMAIN LowerCase : LowerCase[w] \notin DOMAIN LowerCase

EmptyRecord == [key \in {} |-> <<>>]
Put(record, key, value) ==
  [k \in DOMAIN record \cup {key} |-> IF k = key THEN value ELSE record[k]]
-----------------------------------------------------------------------------
(* Text *)

ToLower(s) == [i \in DOMAIN s |-> IF s[i] \in DOMAIN LowerCase THEN LowerCase[s[i]] ELSE s[i]]

TrimLeft(s, mark) ==
  LET i == SelectInSeq(s, LAMBDA t : t # mark)
  IN IF i = 0 THEN <<>> ELSE SubSeq(s, i, Len(s))
TrimRight(s, mark) == SubSeq(s, 1, SelectLastInSeq(s, LAMBDA t : t # mark))
TrimSpace(s) == TrimRight(TrimLeft(s, " "), " ")
Without(s, mark) == FlattenSeq([i \in DOMAIN s |-> IF s[i] = mark THEN <<>> ELSE <<s[i]>>])
TrimPrefix(s, prefix) ==
  IF IsPrefix(prefix, s) THEN SubSeq(s, Len(prefix) + 1, Len(s)) ELSE s

stripMarkdownNoise(line) ==
  LET item == TrimPrefix(TrimPrefix(TrimSpace(line), <<"-", " ">>), <<"*", " ">>)
  IN TrimSpace(Without(Without(TrimLeft(item, "#"), "*"), "_"))

normalizeKey(key) == ReplaceAll(ToLower(TrimSpace(key)), " ", "_")

\* MUTANT: a line is cut at its last colon.
TextFieldLastColon(record, raw) ==
  LET line == stripMarkdownNoise(raw)
      colon == SelectLastInSeq(line, LAMBDA t : t = ":")
      key == normalizeKey(SubSeq(line, 1, colon - 1))
      value == TrimSpace(SubSeq(line, colon + 1, Len(line)))
  IN IF colon = 0 \/ key = <<>> \/ value = <<>> THEN record ELSE Put(record, key, value)

\* MUTANT: a line is cut at its first colon or comma.
TextFieldCommaToo(record, raw) ==
  LET line == stripMarkdownNoise(raw)
      cut == SelectInSeq(line, LAMBDA t : t \in {":", Comma})
      key == normalizeKey(SubSeq(line, 1, cut - 1))
      value == TrimSpace(SubSeq(line, cut + 1, Len(line)))
  IN IF cut = 0 \/ key = <<>> \/ value = <<>> THEN record ELSE Put(record, key, value)

\* One line of ParseText: cut at the first colon.
TextField(record, raw) ==
  LET line == stripMarkdownNoise(raw)
      colon == SelectInSeq(line, LAMBDA t : t = ":")
      key == normalizeKey(SubSeq(line, 1, colon - 1))
      value == TrimSpace(SubSeq(line, colon + 1, Len(line)))
  IN IF colon = 0 \/ key = <<>> \/ value = <<>> THEN record ELSE Put(record, key, value)

Scan(lines, t) ==
  IF t = "\n" THEN Append(lines, <<>>) ELSE [lines EXCEPT ![Len(lines)] = Append(@, t)]
Lines(text) == FoldLeft(Scan, <<<<>>>>, text)

\* bufio.Scanner gives up on a line of 64 KiB, and ParseText on the document.
ParseText(text) ==
  IF "64K" \in ToSet(text) THEN Failed
  ELSE FoldLeft(TextField, EmptyRecord, Lines(text))
-----------------------------------------------------------------------------
(* Formats that are turned into text first *)

\* scriptStyleRe and tagRe leave a newline for a tag; entities come last.
ParseMarkup(pieces) ==
  LET text == FlattenSeq([i \in DOMAIN pieces |->
                IF pieces[i].kind = "text" THEN pieces[i].text ELSE <<"\n">>])
  IN ParseText(ReplaceAll(text, "&#58;", ":"))

\* extractOOXMLText: the text of the "t" elements, a newline for each "p" closed.
OOXMLText(pieces) ==
  FlattenSeq([i \in DOMAIN pieces |->
    CASE pieces[i].kind = "t" -> pieces[i].text
      [] pieces[i].kind = "/p" -> <<"\n">>
      [] OTHER -> <<>>])

\* A zip archive is a function from the names of its parts.
ParseDOCX(parts) ==
  IF "word/document" \in DOMAIN parts THEN ParseText(OOXMLText(parts["word/document"]))
  ELSE Failed

\* slideFiles: in the order of their numbers, each followed by a newline.
ParsePPTX(slides) ==
  LET Part(n) == IF n \in DOMAIN slides THEN Append(OOXMLText(slides[n]), "\n") ELSE <<>>
  IN IF DOMAIN slides = {} THEN Failed
     ELSE ParseText(FlattenSeq([i \in 1 .. Max(DOMAIN slides) + 1 |-> Part(i - 1)]))

\* extractShowOperators, for one stream: strings are kept until an operator
\* shows them; what no operator shows is lost.
Show(s, piece) ==
  CASE piece.kind = "string" -> [s EXCEPT !.pending = @ \o piece.text]
    [] piece.kind = "show" /\ s.pending # <<>> ->
         [out |-> s.out \o s.pending \o <<"\n">>, pending |-> <<>>]
    [] OTHER -> s

ShownText(stream) == FoldLeft(Show, [out |-> <<>>, pending |-> <<>>], stream).out

ParsePDF(streams) ==
  ParseText(FlattenSeq([i \in DOMAIN streams |-> ShownText(streams[i])]))
-----------------------------------------------------------------------------
(* The characters of CSV (external) *)

\* As programs write it: a cell is quoted if it must be, its quotes doubled.
CSVCell(cell) ==
  IF ToSet(cell) \cap {Comma, Quote, "\n"} = {} THEN cell
  ELSE <<Quote>> \o FlattenSeq([i \in DOMAIN cell |->
                      IF cell[i] = Quote THEN <<Quote, Quote>> ELSE <<cell[i]>>]) \o <<Quote>>

\* A lone blank cell is quoted, or its line would be an empty one.
CSVLine(row) ==
  IF row = <<<<>>>> THEN <<Quote, Quote, "\n">>
  ELSE FlattenSeq([i \in DOMAIN row |->
         (IF i = 1 THEN <<>> ELSE <<Comma>>) \o CSVCell(row[i])]) \o <<"\n">>

CSVText(rows) == FlattenSeq([i \in DOMAIN rows |-> CSVLine(rows[i])])

ReaderAt(place, rows, row, cell) == [at |-> place, rows |-> rows, row |-> row, cell |-> cell]

\* encoding/csv, one character: at tells where in a cell the reader is, rows and
\* row what is read, cell the cell so far.  Empty lines are skipped; a quote inside
\* a cell that does not begin with one, and anything but a comma or the end of the
\* line after the closing quote, is an error.
CSVStep(s, t) ==
  LET longer == Append(s.cell, t)
      ended == Append(s.row, s.cell)
  IN CASE s.at = "wrong" -> s
       [] s.at = "quoted" /\ t = Quote -> ReaderAt("closed", s.rows, s.row, s.cell)
       [] s.at = "quoted" /\ t # Quote -> ReaderAt("quoted", s.rows, s.row, longer)
       [] s.at = "start" /\ t = Quote -> ReaderAt("quoted", s.rows, s.row, s.cell)
       [] s.at = "closed" /\ t = Quote -> ReaderAt("quoted", s.rows, s.row, longer)
       [] s.at \in {"start", "bare", "closed"} /\ t = Comma ->
            ReaderAt("start", s.rows, ended, <<>>)
       [] s.at \in {"start", "bare", "closed"} /\ t = "\n" ->
            IF s.at = "start" /\ s.row = <<>> THEN s
            ELSE ReaderAt("start", Append(s.rows, ended), <<>>, <<>>)
       [] s.at \in {"start", "bare"} /\ t \notin {Quote, Comma, "\n"} ->
            ReaderAt("bare", s.rows, s.row, longer)
       [] OTHER -> ReaderAt("wrong", s.rows, s.row, s.cell)

\* The rows, none if there is an error: ParseCSV refuses both.
CSVStart == ReaderAt("start", <<>>, <<>>, <<>>)
ReadCSV(text) ==
  LET end == FoldLeft(CSVStep, CSVStart, Append(text, "\n"))
  IN IF end.at = "start" THEN end.rows ELSE <<>>
-----------------------------------------------------------------------------
(* Tables *)

\* The record of a row under its column keys.  A later column of the same key
\* wins.
RowRecord(keys, data) ==
  FoldLeftDomain(LAMBDA record, i :
                   IF i > Len(data) THEN record ELSE Put(record, keys[i], data[i]),
                 EmptyRecord, keys)

\* encoding/csv refuses rows of another length than the header's; the header
\* is taken as it is written.
ParseCSV(rows) ==
  IF Len(rows) < 2 \/ \E i \in DOMAIN rows : Len(rows[i]) # Len(rows[1]) THEN Failed
  ELSE RowRecord(rows[1], rows[2])

\* A cell's value: the last of its "v" or "t" elements, looked up in the
\* shared strings when the cell says so and the number is one of theirs.
CellValue(cell, shared) ==
  IF cell.type = "s" /\ cell.index \in DOMAIN shared THEN shared[cell.index]
  ELSE Last(cell.texts)

\* MUTANT: a cell without a reference goes to the first free column.
ColumnCounted(line, cell) ==
  IF cell.column # 0 THEN cell.column ELSE Len(line.cells) + 1

\* A cell without a reference goes to the column after the one before it.
Column(line, cell) == IF cell.column # 0 THEN cell.column ELSE line.next

\* readXLSXRows, for one row: gaps are blank, cells without a value leave one.
PlaceCell(line, cell, shared) ==
  LET column == Column(line, cell)
      width == IF column > Len(line.cells) THEN column ELSE Len(line.cells)
      value == CellValue(cell, shared)
  IN [next |-> column + 1,
      cells |-> IF cell.type # "s" /\ cell.texts = <<>> THEN line.cells
                ELSE [i \in 1 .. width |->
                        IF i = column THEN value
                        ELSE IF i <= Len(line.cells) THEN line.cells[i] ELSE <<>>]]

RowCells(cells, shared) ==
  FoldLeft(LAMBDA line, cell : PlaceCell(line, cell, shared), [next |-> 1, cells |-> <<>>], cells).cells

\* readSharedStrings: an item is the text of its runs, one after the other.
SharedStrings(items) == [i \in DOMAIN items |-> FlattenSeq(items[i])]

\* firstSheetFile takes the lowest number; rows count as they come.
ParseXLSX(book) ==
  IF book.sheets = <<>> THEN Failed
  ELSE LET first == CHOOSE n \in DOMAIN book.sheets : \A m \in DOMAIN book.sheets : n <= m
           rows == book.sheets[first]
           shared == SharedStrings(book.shared)
           titles == RowCells(rows[1], shared)
           all == RowRecord([i \in DOMAIN titles |-> normalizeKey(titles[i])],
                            RowCells(rows[2], shared))
       IN IF Len(rows) < 2 THEN Failed
          ELSE [k \in DOMAIN all \ {<<>>} |-> all[k]]
-----------------------------------------------------------------------------
(* JSON: members maps the path of every scalar to it; Null is skipped.  Go   *)
(* walks a map in any order, so of two members whose paths become one key    *)
(* either may be kept: the set of records flattenJSON may return.            *)

FlatKey(path) ==
  FoldLeftDomain(LAMBDA key, i :
                   (IF key = <<>> THEN key ELSE Append(key, ".")) \o normalizeKey(path[i]),
                 <<>>, path)

JSONRecords(members) ==
  LET kept == {path \in DOMAIN members : members[path] # Null}
      keys == {FlatKey(path) : path \in kept}
      Values(key) == {members[path] : path \in {p \in kept : FlatKey(p) = key}}
  IN {record \in [keys -> {members[path] : path \in kept}] :
        \A key \in keys : record[key] \in Values(key)}

\* An array stands for its first element; anything but an object is refused.
ParseJSON(value) ==
  CASE value.kind = "object" -> JSONRecords(value.members)
    [] value.kind = "array" /\ value.items # <<>> ->
         IF value.items[1].kind = "object" THEN JSONRecords(value.items[1].members) ELSE {Failed}
    [] OTHER -> {Failed}
-----------------------------------------------------------------------------
(* Links and dispatch *)

ByExtension ==
  [e \in {"csv", "md", "txt", "pdf", "json", "html", "htm", "xml", "docx", "pptx", "xlsx"} |->
     CASE e \in {"md", "txt"} -> "text" [] e \in {"html", "htm"} -> "html" [] OTHER -> e]

ByMediaType ==
  [t \in {"text/csv", "application/pdf", "text/plain", "text/markdown", "application/json",
          "text/html", "text/xml", "application/xml", "docx", "pptx", "xlsx"} |->
     CASE t = "text/csv" -> "csv" [] t = "application/pdf" -> "pdf"
       [] t \in {"text/plain", "text/markdown"} -> "text" [] t = "application/json" -> "json"
       [] t = "text/html" -> "html" [] t \in {"text/xml", "application/xml"} -> "xml"
       [] OTHER -> t]

\* A link: path is the kind of path, ext its extension, the rest the query and
\* the fragment.  A sheet's path has no dot.
URLs ==
  {url \in [scheme : STRING, host : STRING, path : STRING, ext : STRING, format : STRING,
            output : STRING, gid : STRING, fragment : STRING] :
     url.path \in {"sheet", "sheet/edit", "sheet/export"} => url.ext = ""}

ValidateURL(url) == url.scheme \in {"http", "https"} /\ url.host # ""

DetectFormat(url, type) ==
  IF url.ext \in DOMAIN ByExtension THEN ByExtension[url.ext]
  ELSE IF url.format = "csv" THEN "csv"
  ELSE IF url.format \in {"txt", "text"} THEN "text"
  ELSE IF url.output = "csv" THEN "csv"
  ELSE IF type \in DOMAIN ByMediaType THEN ByMediaType[type]
  ELSE ""

\* MUTANT: the sheet named in the fragment is forgotten.
NormalizeSourceURLNoFragment(url) ==
  IF url.host # "docs.google.com" \/ url.path \notin {"sheet", "sheet/edit"} THEN url
  ELSE [url EXCEPT !.scheme = "https", !.path = "sheet/export", !.format = "csv",
                   !.output = "", !.fragment = ""]

\* A share or edit link of Google Sheets becomes its export link.
NormalizeSourceURL(url) ==
  IF url.host # "docs.google.com" \/ url.path \notin {"sheet", "sheet/edit"} THEN url
  ELSE [url EXCEPT !.scheme = "https", !.path = "sheet/export", !.format = "csv", !.output = "",
                   !.gid = IF url.gid # "" THEN url.gid ELSE url.fragment, !.fragment = ""]

\* A body of one format read as another.  CSV and text are read character by
\* character, and have no PDF streams in them; what the line and PDF readers make
\* of the bytes of a page, JSON, PDF or archive is left open.  JSON and archives
\* are recognised by their readers, and a link of no known format by nobody.
Misread(format, doc) ==
  LET text == IF doc.format = "csv" THEN CSVText(doc.body) ELSE doc.body
  IN IF format \notin {"csv", "text", "html", "xml", "pdf"} THEN {Failed}
     ELSE IF doc.format \notin {"csv", "text"} THEN {Failed, EmptyRecord} \cup Misreadings
     ELSE CASE format = "csv" -> {ParseCSV(ReadCSV(text))}
            [] format = "text" -> {ParseText(text)}
            [] format \in {"html", "xml"} -> {ParseMarkup(<<[kind |-> "text", text |-> text]>>)}
            [] format = "pdf" -> {EmptyRecord}

\* Fetch and ParseByExtension pick the parser; the result is the set of what
\* it may return.
Parse(format, doc) ==
  IF format # doc.format /\ {format, doc.format} # {"html", "xml"} THEN Misread(format, doc)
  ELSE CASE format = "csv" -> {ParseCSV(doc.body)}
         [] format = "text" -> {ParseText(doc.body)}
         [] format \in {"html", "xml"} -> {ParseMarkup(doc.body)}
         [] format = "pdf" -> {ParsePDF(doc.body)}
         [] format = "docx" -> {ParseDOCX(doc.body)}
         [] format = "pptx" -> {ParsePPTX(doc.body)}
         [] format = "xlsx" -> {ParseXLSX(doc.body)}
         [] format = "json" -> ParseJSON(doc.body)

\* facts.FromRecord
NameKey == <<"name">>

HasName(record) == record # Failed /\ NameKey \in DOMAIN record /\ record[NameKey] # <<>>

Provider(record) ==
  [Name |-> record[NameKey], Properties |-> [k \in DOMAIN record \ {NameKey} |-> record[k]]]
=============================================================================
