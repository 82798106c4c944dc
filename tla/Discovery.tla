------------------------------ MODULE Discovery ------------------------------
(***************************************************************************)
(* The public side of the program from end to end: a provider writes facts *)
(* into a document, submits it as a file or a link, and agents read them   *)
(* from the endpoint.  The parsing is SourceFormats, the answering is      *)
(* ResponsePipeline, and the two meet in Server.provider.  What the admin  *)
(* server does around it is in AdminServer.                                *)
(***************************************************************************)
EXTENDS SourceFormats, ResponsePipeline

CONSTANTS
  Tables,  \* what a provider may want to say: sequences of fields
  Online,  \* the tables a link may lead to
  Links,   \* links a provider may paste
  Served   \* facts for which requests and further submissions are followed

VARIABLE source  \* the document on its way in

Field(key, value) == [key |-> key, value |-> value]
Nobody == [Name |-> <<>>, Properties |-> EmptyRecord]

ASSUME DiscoveryAssumption ==
  /\ Nobody \in Served /\ Served \subseteq Facts
  /\ "site" \in STRING
  /\ Tables \subseteq Seq([key : Seq(STRING), value : Seq(STRING)])
  /\ \A table \in Tables : \A i \in DOMAIN table : table[i].value # Null
  /\ Online \subseteq Tables /\ <<>> \notin Tables
  /\ Links \subseteq URLs

allVars == <<vars, source>>
-----------------------------------------------------------------------------
(* How a provider's program writes a table (external).  A layout is a format *)
(* and a way to use it.                                                      *)

Layouts ==
  {"csv", "csv rows", "text", "list", "heading", "bold", "html", "html split", "docx", "docx runs",
   "pptx", "pdf", "pdf split", "json", "json nested", "xlsx", "xlsx shared", "xlsx gap",
   "xlsx runs"}

Format(layout) ==
  CASE layout \in {"csv", "csv rows"} -> "csv"
    [] layout \in {"text", "list", "heading", "bold"} -> "text"
    [] layout \in {"html", "html split"} -> "html"
    [] layout \in {"docx", "docx runs"} -> "docx"
    [] layout = "pptx" -> "pptx"
    [] layout \in {"pdf", "pdf split"} -> "pdf"
    [] layout \in {"json", "json nested"} -> "json"
    [] layout \in {"xlsx", "xlsx shared", "xlsx gap", "xlsx runs"} -> "xlsx"

Keys(table) == [i \in DOMAIN table |-> table[i].key]
Values(table) == [i \in DOMAIN table |-> table[i].value]
Line(field) == field.key \o <<":", " ">> \o field.value
PerField(table, Op(_)) == FlattenSeq([i \in DOMAIN table |-> Op(table[i])])
Piece(kind, text) == [kind |-> kind, text |-> text]
Cell(column, type, index, texts) ==
  [column |-> column, type |-> type, index |-> index, texts |-> texts]

TextBody(layout, table) ==
  PerField(table, LAMBDA f :
    CASE layout = "text" -> Append(Line(f), "\n")
      [] layout = "list" -> <<"-", " ">> \o Append(Line(f), "\n")
      [] layout = "heading" -> <<"#", "#", " ">> \o Append(Line(f), "\n")
      [] layout = "bold" -> <<"*", " ", "*", "*">> \o f.key \o <<"*", "*", ":", " ">>
                              \o Append(f.value, "\n"))

\* Each field is an element; split, the key is in an element of its own.
HTMLBody(layout, table) ==
  <<Piece("script", <<>>)>> \o PerField(table, LAMBDA f :
    IF layout = "html"
    THEN <<Piece("tag", <<>>), Piece("text", f.key \o <<"&#58;">> \o f.value), Piece("tag", <<>>)>>
    ELSE <<Piece("tag", <<>>), Piece("text", Append(f.key, ":")), Piece("tag", <<>>),
           Piece("text", <<" ">> \o f.value)>>)

Paragraph(f) == <<Piece("t", Line(f)), Piece("/p", <<>>)>>
Runs(f) ==
  <<Piece("t", f.key), Piece("other", <<"-">>), Piece("t", <<":", " ">> \o f.value), Piece("/p", <<>>)>>

PDFBody(layout, table) ==
  <<PerField(table, LAMBDA f :
      IF layout = "pdf"
      THEN <<Piece("string", f.key), Piece("string", <<":">> \o f.value), Piece("show", <<>>)>>
      ELSE <<Piece("string", Append(f.key, ":")), Piece("show", <<>>),
             Piece("string", f.value), Piece("show", <<>>)>>)>>

\* Nested, every member but the first is in an object of its own.
Path(layout, table, i) ==
  IF layout = "json nested" /\ i > 1 THEN <<<<"site">>, table[i].key>> ELSE <<table[i].key>>

\* Of two members with one name in one object the decoder keeps the later.
\* Nested, a blank value is written as null.
Members(layout, table) ==
  LET At(i) == Path(layout, table, i)
      Value(i) == IF layout = "json nested" /\ table[i].value = <<>> THEN Null ELSE table[i].value
  IN [path \in {At(i) : i \in DOMAIN table} |->
        Value(CHOOSE i \in DOMAIN table :
                At(i) = path /\ \A j \in DOMAIN table : At(j) = path => j <= i)]

\* An inline text is a run, or a run to each word; a blank one is left out.
Inline(layout, text) ==
  IF text = <<>> THEN <<>>
  ELSE IF layout = "xlsx runs" THEN [i \in DOMAIN text |-> <<text[i]>>] ELSE <<text>>

\* Cells one after the other; or strings in the shared table, the cells in the
\* opposite order with their columns; or a second column that is skipped.
Row(layout, texts, offset) ==
  [i \in DOMAIN texts |->
     LET c == Len(texts) + 1 - i
     IN IF layout = "xlsx shared" THEN Cell(c, "s", offset + c, <<<<"#">>>>)
        ELSE Cell(IF layout = "xlsx gap" /\ i = 2 THEN 3 ELSE 0, "inline", 0,
                  Inline(layout, texts[i]))]

Book(layout, table) ==
  [sheets |-> [n \in {1, 2} |->
     IF n = 1 THEN <<Row(layout, Keys(table), 0), Row(layout, Values(table), Len(table))>> ELSE <<>>],
   shared |-> LET texts == Keys(table) \o Values(table)
              IN [i \in DOMAIN texts |-> [j \in DOMAIN texts[i] |-> <<texts[i][j]>>]]]

Written(layout, table) ==
  LET format == Format(layout)
  IN [format |-> format,
      body |->
        CASE layout = "csv" -> <<Keys(table), Values(table)>>
          [] layout = "csv rows" -> <<Keys(table), Values(table), Keys(table)>>
          [] format = "text" -> TextBody(layout, table)
          [] format = "html" -> HTMLBody(layout, table)
          [] layout = "docx" -> [part \in {"word/document"} |-> PerField(table, Paragraph)]
          [] layout = "docx runs" -> [part \in {"word/document"} |-> PerField(table, Runs)]
          [] layout = "pptx" -> [n \in {8 + i : i \in DOMAIN table} |-> Paragraph(table[n - 8])]
          [] format = "pdf" -> PDFBody(layout, table)
          [] format = "json" -> [kind |-> "object", members |-> Members(layout, table)]
          [] format = "xlsx" -> Book(layout, table)]
-----------------------------------------------------------------------------
(* The way in *)

NoSource == [at |-> "none"]

\* What Fetch may take a document for.
MediaTypes == {"", "text/csv", "text/plain", "text/html", "application/pdf"}
Detected == {DetectFormat(NormalizeSourceURL(link), type) : link \in Links, type \in MediaTypes}

\* Facts has every provider that can be read from a table.
ASSUME ReadingAssumption ==
  \A layout \in Layouts :
    /\ \A table \in Tables : \A record \in Parse(Format(layout), Written(layout, table)) :
         HasName(record) => Provider(record) \in Facts
    /\ \A table \in Online, format \in Detected :
         \A record \in Parse(format, Written(layout, table)) :
           HasName(record) => Provider(record) \in Facts

\* An upload, or the file that main is started with: ParseByExtension.
SubmitFile(layout, table) ==
  /\ source = NoSource
  /\ \E record \in Parse(Format(layout), Written(layout, table)) :
       source' = [at |-> "parsed", layout |-> layout, table |-> table, record |-> record,
                  detected |-> Format(layout)]
  /\ UNCHANGED vars

\* MUTANT: any text is taken for a link.
SubmitLinkUnchecked(link) ==
  /\ source = NoSource
  /\ source' = [at |-> "link", asked |-> link, link |-> NormalizeSourceURL(link)]
  /\ UNCHANGED vars

\* handleSource normalises the link before it looks at it; a link it refuses
\* changes nothing.
SubmitLink(link) ==
  /\ source = NoSource
  /\ ValidateURL(NormalizeSourceURL(link))
  /\ source' = [at |-> "link", asked |-> link, link |-> NormalizeSourceURL(link)]
  /\ UNCHANGED vars

\* Fetch: an error, a status other than 2xx, or a body and its type.
FetchFails ==
  /\ source.at = "link"
  /\ source' = NoSource
  /\ UNCHANGED vars

Fetch(layout, table, type) ==
  /\ source.at = "link"
  /\ LET format == DetectFormat(source.link, type)
     IN \E record \in Parse(format, Written(layout, table)) :
          source' = [at |-> "parsed", layout |-> layout, table |-> table, record |-> record,
                     detected |-> format]
  /\ UNCHANGED vars

\* FromRecord refuses a record without a name, and an error is one.
RefuseRecord ==
  /\ source.at = "parsed" /\ ~HasName(source.record)
  /\ source' = NoSource
  /\ UNCHANGED vars

Publish ==
  /\ source.at = "parsed" /\ HasName(source.record)
  /\ UpdateProvider(Provider(source.record))
  /\ source' = NoSource

DiscoveryInit == Init /\ provider = Nobody /\ source = NoSource

\* A document is followed while no request is in flight; what is published
\* while one is, or after facts that are not followed, is one of Served.
Submit ==
  /\ at = "idle" /\ provider \in Served
  /\ \/ \E layout \in Layouts, table \in Tables : SubmitFile(layout, table)
     \/ \E link \in Links : SubmitLink(link)

DiscoveryNext ==
  \/ Submit
  \/ FetchFails
  \/ \E layout \in Layouts, table \in Online, type \in MediaTypes :
       Fetch(layout, table, type)
  \/ RefuseRecord
  \/ Publish
  \/ Serve /\ UNCHANGED source
  \/ \E r \in Request :
       Arrive(r) /\ source = NoSource /\ provider \in Served /\ UNCHANGED source
  \/ \E p \in Served :
       UpdateProvider(p) /\ (at # "idle" \/ provider \notin Served) /\ UNCHANGED source

DiscoverySpec == DiscoveryInit /\ [][DiscoveryNext]_allVars
-----------------------------------------------------------------------------
(* What a provider may rely on *)

\* Types: what is published is one of Facts, so it has a name; what is on its
\* way in is a link that may be fetched or what a parser made of a table.
DiscoveryTypeOK ==
  /\ TypeOK
  /\ \/ source = NoSource
     \/ source.at = "link" /\ source.asked \in Links /\ ValidateURL(source.link)
     \/ /\ source.at = "parsed"
        /\ source.layout \in Layouts /\ source.table \in Tables
        /\ source.record = Failed \/ DOMAIN source.record \subseteq Seq(STRING)

\* The fields of a table under the keys they are published by; of two fields
\* with one key the later counts.
Meaning(layout, table) ==
  FoldLeftDomain(LAMBDA record, i :
                   Put(record, FlatKey(Path(layout, table, i)), table[i].value),
                 EmptyRecord, table)

Free(text, marks) == ToSet(text) \cap marks = {}
Trimmed(text) == text # <<>> /\ TrimSpace(text) = text

\* What a format asks of the one who writes it: CSV headers in the spelling
\* they are looked up by; no markdown marks, and one line to a field, where
\* lines are scanned; column titles in a sheet, cells
\* of one run and none blank at the end; in JSON no two names that
\* differ in spelling only, and no null.
Suits(layout, table) ==
  LET format == Format(layout)
      Paths == {Path(layout, table, i) : i \in DOMAIN table}
  IN CASE format = "csv" -> \A i \in DOMAIN table : normalizeKey(table[i].key) = table[i].key
       [] format = "xlsx" ->
            /\ layout # "xlsx runs" /\ \A i \in DOMAIN table : normalizeKey(table[i].key) # <<>>
            /\ layout # "xlsx shared" => Last(table).value # <<>>
       [] format = "json" ->
            /\ \A p, q \in Paths : FlatKey(p) = FlatKey(q) => p = q
            /\ layout = "json nested" => \A i \in DOMAIN table : table[i].value # <<>>
       [] OTHER ->
            /\ layout \notin {"html split", "pdf split"}
            /\ \A i \in DOMAIN table :
                 /\ Trimmed(table[i].key) /\ Free(table[i].key, Marks \ {" ", "."})
                 /\ Trimmed(table[i].value) /\ Free(table[i].value, {"_", "*", "\n", "&#58;", "64K"})

\* A table that suits its format is understood: the record holds each field,
\* under the key and with the value it was written with, and nothing else.
\* So the same table gives the same facts as a CSV file, a text, a web page,
\* a Word file, slides, a PDF, JSON or a workbook, however it is laid out.
TableUnderstood ==
  source.at = "parsed" /\ source.detected = Format(source.layout)
      /\ Suits(source.layout, source.table)
    => source.record = Meaning(source.layout, source.table)

\* A text without its emphasis and the blanks around it.
Unstressed(text) == Without(Without(text, "_"), "*")
Bare(text) == TrimSpace(Unstressed(text))

\* A key that does not start like a list item or a heading.
Unled(key) == Bare(key) = <<>> \/ Head(Bare(key)) \notin {"-", "#"}

\* A field that a line can hold: its first colon is the one after the key.
OneLine(field) ==
  /\ Free(field.key, {":", "\n", "&#58;"}) /\ Unled(field.key)
  /\ Free(field.value, {"\n", "&#58;"})

\* A document is read as what it was written as, or a text as a page.
ReadAsWritten(layout, format) ==
  \/ format = Format(layout)
  \/ format \in {"html", "xml"} /\ Format(layout) \in {"html", "text"}

\* Of a table whose fields fit on lines, or in any format that has cells or
\* members, no value ends up under another field's key when the document is read
\* as what it was written as: whatever blanks and marks are in it, a parser may
\* lose a field or marks in it, but never mixes two.  (A page or PDF with keys and
\* values on lines of their own can: a value with a colon in it is then read as
\* a field.  Of an inline cell in several runs the last one is the value.  A
\* document served as another format is mixed up as a rule: see MisreadRefused.)
NothingMixedUp ==
  LET table == source.table
  IN source.at = "parsed" /\ source.record # Failed
       /\ ReadAsWritten(source.layout, source.detected)
       /\ source.layout \notin {"html split", "pdf split", "xlsx runs"}
       /\ (Format(source.layout) \in {"csv", "xlsx", "json"} \/ \A i \in DOMAIN table : OneLine(table[i]))
       => \A key \in DOMAIN source.record : \E i \in DOMAIN table :
            /\ Bare(FlatKey(Path(source.layout, table, i))) = Bare(normalizeKey(key))
            /\ Bare(table[i].value) = Bare(source.record[key])

\* A CSV document that is served as a text or a page, or a text served as CSV,
\* is read without an error, into keys made of its values; yet it is refused for
\* want of a name, as long as no cell or line of it holds a comma, a quote or a
\* newline, and neither a key nor the first value a colon.  ("Name:Beds" for a
\* title, or "beds: 3,name" for a line, is enough to have the rest published.)
MisreadRefused ==
  LET table == source.table
      Single(text) == Free(text, {Comma, Quote, "\n"})
      Whole(text) == Single(text) /\ Free(text, {":", "&#58;"})
  IN source.at = "parsed" /\ Format(source.layout) \in {"csv", "text"}
       /\ ~ReadAsWritten(source.layout, source.detected)
       /\ Whole(table[1].value)
       /\ (\A i \in DOMAIN table : Whole(table[i].key) /\ Single(table[i].value))
       => ~HasName(source.record)

\* A share or edit link of Google Sheets is fetched as CSV whatever type the
\* answer claims, keeps the sheet it named, and is left alone when the stored
\* link is refreshed later.
ShareLinkKept ==
  source.at = "link" =>
    LET asked == source.asked
        link == source.link
        sheet == IF asked.gid # "" THEN asked.gid ELSE asked.fragment
    IN /\ NormalizeSourceURL(link) = link
       /\ asked.host = "docs.google.com" /\ asked.path \in {"sheet", "sheet/edit"}
            => link.gid = sheet /\ \A type \in DOMAIN ByMediaType : DetectFormat(link, type) = "csv"
=============================================================================
