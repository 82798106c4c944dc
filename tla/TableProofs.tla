------------------------------ MODULE TableProofs ------------------------------
(***************************************************************************)
(* TLAPS proofs of what a parser makes of a table, whatever the table, the *)
(* format and the layout: of one that suits its format, what it means      *)
(* (TablesAreUnderstood), and of any other that fits the format at all, no *)
(* value under another field's key (NothingIsMixedUp).                     *)
(*                                                                         *)
(* The formats that are scanned line by line meet in Lays: a document      *)
(* whose text is read as the lines of its fields.  What is left for each   *)
(* of them is that its tags, runs, strings or slides come to such a text;  *)
(* what its lines are read as is one question for all of them: a line that *)
(* says a field (Speaks) is read as that field, and one that only tells it *)
(* (Tells), with blanks and emphasis anywhere, as that field or not at all *)
(* (Tied).  CSV and workbooks meet in the record of a row, and JSON is     *)
(* about which member a key keeps.  Before the theorems, the same formats  *)
(* for any table at all: what a parser returns is an error or a record     *)
(* under keys that are text.                                               *)
(***************************************************************************)
EXTENDS Discovery, SourceFormatsProofs

(* What a table means *)

Fields == [key : Text, value : Text]

LEMMA TableIs ==
  ASSUME NEW table \in Tables
  PROVE  /\ table \in Seq(Fields) /\ Len(table) \in Nat \ {0} /\ DOMAIN table = 1 .. Len(table)
         /\ \A i \in 1 .. Len(table) :
              table[i].key \in Text /\ table[i].value \in Text /\ table[i].value # Null
<1>1. table \in Seq(Fields) /\ table # <<>> /\ \A i \in DOMAIN table : table[i].value # Null
  BY DiscoveryAssumption DEF DiscoveryAssumption, Fields, Text, Word
<1>2. Len(table) \in Nat /\ Len(table) # 0 /\ DOMAIN table = 1 .. Len(table)
  BY <1>1, EmptySeq
<1>3. ASSUME NEW i \in 1 .. Len(table) PROVE table[i] \in Fields
  BY <1>1
<1>4. \A field \in Fields : field.key \in Text /\ field.value \in Text
  BY DEF Fields
<1> QED BY <1>1, <1>2, <1>3, <1>4

KeyAt(layout, table, i) == FlatKey(Path(layout, table, i))

LEMMA PathIs ==
  ASSUME NEW layout, NEW table \in Tables, NEW i \in 1 .. Len(table)
  PROVE  /\ Path(layout, table, i) \in Seq(Text) /\ KeyAt(layout, table, i) \in Text
         /\ layout # "json nested" => KeyAt(layout, table, i) = normalizeKey(table[i].key)
<1>1. PICK place \in Text : place = <<"site">>
  <2>1. PICK word \in Word : word = "site"
    BY DiscoveryAssumption DEF DiscoveryAssumption, Word
  <2> QED BY <2>1, ShortTexts
<1>2. PICK key \in Text : key = table[i].key
  BY TableIs
<1>3. Path(layout, table, i) = <<place, key>> \/ Path(layout, table, i) = <<key>>
  BY <1>1, <1>2 DEF Path
<1>4. layout # "json nested" => Path(layout, table, i) = <<key>>
  BY <1>2 DEF Path
<1>5. \A a, b \in Text : <<a, b>> \in Seq(Text) /\ <<a>> \in Seq(Text)
  OBVIOUS
<1> QED BY <1>2, <1>3, <1>4, <1>5, FlatKeyIs DEF KeyAt

MeaningStep(layout, table) ==
  [i \in 1 .. Len(table) |->
     [r \in Records |-> Put(r, KeyAt(layout, table, i), table[i].value)]]

LEMMA MeaningStages ==
  ASSUME NEW layout, NEW table \in Tables
  PROVE  \E f : /\ StagesOf(f, Len(table), Records, EmptyRecord, MeaningStep(layout, table))
                /\ Meaning(layout, table) = f[Len(table)]
<1> DEFINE n == Len(table)
           G == MeaningStep(layout, table)
           s == [i \in DOMAIN table |-> i]
           Op(x, e) == Put(x, KeyAt(layout, table, e), table[e].value)
           E(h) == [S \in SUBSET (DOMAIN s) |->
                      IF S = {} THEN EmptyRecord ELSE Op(h[S \ {Max(S)}], s[Max(S)])]
<1>1. n \in Nat /\ DOMAIN s = 1 .. n /\ EmptyRecord \in Records
  BY TableIs, PutType
<1>2. G \in [1 .. n -> [Records -> Records]] /\ \A i \in 1 .. n, x \in Records : G[i][x] = Op(x, s[i])
  <2>1. \A i \in 1 .. n, x \in Records : Op(x, s[i]) \in Records
    <3>1. \A i \in 1 .. n : s[i] = i /\ KeyAt(layout, table, i) \in Text /\ table[i].value \in Text
      BY TableIs, PathIs
    <3> QED BY <3>1, PutType
  <2>2. \A i \in 1 .. n : s[i] = i
    BY <1>1
  <2>3. \A i \in 1 .. n, x \in Records :
          /\ Put(x, KeyAt(layout, table, i), table[i].value) \in Records
          /\ Op(x, s[i]) = Put(x, KeyAt(layout, table, i), table[i].value)
    BY <2>1, <2>2
  <2> HIDE DEF s, Op
  <2> QED BY <2>3 DEF MeaningStep
<1>3. PICK h : IterOf(h, n, Records, EmptyRecord, G)
  <2> HIDE DEF G, n, s, Op
  <2> QED BY <1>1, <1>2, IterExists
<1>4. h = E(h)
  <2>1. ASSUME NEW S \in SUBSET (1 .. n), S # {} PROVE h[S] = Op(h[S \ {Max(S)}], s[Max(S)])
    <3> HIDE DEF Op, s, G
    <3>1. Max(S) \in 1 .. n
      BY <1>1, <2>1, MaxOf
    <3>2. h[S \ {Max(S)}] \in Records /\ h[S] = G[Max(S)][h[S \ {Max(S)}]]
      BY <1>3, <2>1 DEF IterOf
    <3> QED BY <1>2, <3>1, <3>2
  <2>2. h \in [SUBSET (1 .. n) -> Records] /\ h[{}] = EmptyRecord
    BY <1>3 DEF IterOf
  <2> HIDE DEF Op, s, n, G
  <2> QED BY <1>1, <2>1, <2>2
<1>5. PICK iter : iter = E(iter) /\ Meaning(layout, table) = iter[DOMAIN s]
  <2>1. Meaning(layout, table) = (CHOOSE iter : iter = E(iter))[DOMAIN s]
    BY DEF Meaning, FoldLeftDomain, KeyAt, FoldLeft, MapThenFoldSet
  <2> HIDE DEF E
  <2> QED BY <1>4, <2>1
<1>6. iter[{}] = EmptyRecord
  BY <1>5
<1>7. ASSUME NEW S \in SUBSET (1 .. n), S # {}, iter[S \ {Max(S)}] = h[S \ {Max(S)}]
      PROVE  iter[S] = h[S]
  <2> HIDE DEF Op, s, n, G
  <2>1. iter[S] = Op(iter[S \ {Max(S)}], s[Max(S)])
    BY <1>1, <1>5, <1>7
  <2>2. h[S] = Op(h[S \ {Max(S)}], s[Max(S)])
    BY <1>1, <1>4, <1>7
  <2> QED BY <2>1, <2>2, <1>7
<1> HIDE DEF Op, s, n, G, E
<1>8. \E f : StagesOf(f, n, Records, EmptyRecord, G) /\ iter[1 .. n] = f[n]
  <2>1. Follows(iter, h, n)
    BY <1>7 DEF Follows
  <2> QED BY <1>1, <1>2, <1>3, <1>6, <2>1, FoldIsLastStage
<1> QED BY <1>1, <1>5, <1>8 DEF n, G

FieldLine(raw, key, value) == \A r : TextField(r, raw) = Put(r, key, value)

\* Lines that say what the fields of a table say are read as its meaning.
LEMMA LinesMean ==
  ASSUME NEW layout, NEW table \in Tables, NEW raws \in Seq(Text), Len(raws) = Len(table),
         \A i \in 1 .. Len(table) : FieldLine(raws[i], KeyAt(layout, table, i), table[i].value)
  PROVE  ReadLines(raws) = Meaning(layout, table)
<1>1. PICK n \in Nat : n = Len(table) /\ n = Len(raws)
  BY TableIs
<1>2. PICK f : StagesOf(f, n, Records, EmptyRecord, FieldStep(raws)) /\ ReadLines(raws) = f[n]
  BY <1>1, ReadLinesStages
<1>3. PICK g : /\ StagesOf(g, n, Records, EmptyRecord, MeaningStep(layout, table))
               /\ Meaning(layout, table) = g[n]
  BY <1>1, MeaningStages
<1>4. SameSteps(FieldStep(raws), MeaningStep(layout, table), n)
  <2>1. ASSUME NEW i \in 1 .. n PROVE FieldStep(raws)[i] = MeaningStep(layout, table)[i]
    <3>1. \A r : TextField(r, raws[i]) = Put(r, KeyAt(layout, table, i), table[i].value)
      BY <1>1 DEF FieldLine
    <3> QED BY <1>1, <3>1 DEF FieldStep, MeaningStep
  <2> QED BY <2>1 DEF SameSteps
<1>5. f[n] = g[n]
  <2>1. n <= n
    OBVIOUS
  <2> QED BY <1>2, <1>3, <1>4, <2>1, StagesAgree
<1> QED BY <1>2, <1>3, <1>5

\* What a format that scans lines asks of a field.
FitKey(k) == Solid(k) /\ \A mark \in Marks \ {" ", "."} : Lacks(k, mark)
FitValue(v) == Solid(v) /\ \A mark \in {"_", "*", "\n", "&#58;", "64K"} : Lacks(v, mark)

LEMMA SuitsIs ==
  ASSUME NEW layout \in Layouts, Format(layout) \notin {"csv", "xlsx", "json"},
         NEW table \in Tables, Suits(layout, table)
  PROVE  /\ layout \notin {"html split", "pdf split"}
         /\ \A i \in 1 .. Len(table) : FitKey(table[i].key) /\ FitValue(table[i].value)
<1>1. /\ layout \notin {"html split", "pdf split"}
      /\ \A i \in DOMAIN table :
           /\ Trimmed(table[i].key) /\ Free(table[i].key, Marks \ {" ", "."})
           /\ Trimmed(table[i].value) /\ Free(table[i].value, {"_", "*", "\n", "&#58;", "64K"})
  <2> HIDE DEF Marks
  <2> QED BY DEF Suits
<1>2. ASSUME NEW s \in Text, Trimmed(s) PROVE Solid(s)
  BY <1>2, TrimmedIsSolid DEF Trimmed
<1>3. ASSUME NEW s \in Text, NEW marks, Free(s, marks), NEW mark \in marks PROVE Lacks(s, mark)
  <2>1. \A i \in DOMAIN s : s[i] \notin marks
    BY <1>3 DEF Free, ToSet
  <2>2. DOMAIN s = 1 .. Len(s)
    BY DEF Text
  <2> QED BY <1>3, <2>1, <2>2 DEF Lacks
<1>4. ASSUME NEW i \in 1 .. Len(table) PROVE FitKey(table[i].key) /\ FitValue(table[i].value)
  <2>1. PICK k \in Text, v \in Text : k = table[i].key /\ v = table[i].value
    BY TableIs
  <2>2. i \in DOMAIN table
    BY TableIs
  <2>3. /\ Trimmed(k) /\ Free(k, Marks \ {" ", "."})
        /\ Trimmed(v) /\ Free(v, {"_", "*", "\n", "&#58;", "64K"})
    BY <1>1, <2>1, <2>2
  <2>4. FitKey(k)
    BY <1>2, <1>3, <2>3 DEF FitKey
  <2>5. FitValue(v)
    BY <1>2, <1>3, <2>3 DEF FitValue
  <2> QED BY <2>1, <2>4, <2>5
<1> QED BY <1>1, <1>4

LEMMA FitMarks ==
  /\ \A k : FitKey(k) => /\ Solid(k) /\ Lacks(k, ":") /\ Lacks(k, "\n") /\ Lacks(k, "*") /\ Lacks(k, "_")
                         /\ Lacks(k, "#") /\ Lacks(k, "-") /\ Lacks(k, "&#58;") /\ Lacks(k, "64K")
  /\ \A v : FitValue(v) => /\ Solid(v) /\ Lacks(v, "\n") /\ Lacks(v, "*") /\ Lacks(v, "_")
                           /\ Lacks(v, "&#58;") /\ Lacks(v, "64K")
<1>1. ASSUME NEW k, FitKey(k)
      PROVE  /\ Solid(k) /\ Lacks(k, ":") /\ Lacks(k, "\n") /\ Lacks(k, "*") /\ Lacks(k, "_")
             /\ Lacks(k, "#") /\ Lacks(k, "-") /\ Lacks(k, "&#58;") /\ Lacks(k, "64K")
  <2>1. Solid(k) /\ \A mark \in Marks \ {" ", "."} : Lacks(k, mark)
    BY <1>1 DEF FitKey
  <2>2. \A mark \in {":", "\n", "*", "_", "#", "-", "&#58;", "64K"} : mark \in Marks \ {" ", "."}
    BY DEF Marks
  <2>3. \A mark \in {":", "\n", "*", "_", "#", "-", "&#58;", "64K"} : Lacks(k, mark)
    BY <2>1, <2>2
  <2> QED BY <2>1, <2>3
<1>2. ASSUME NEW v, FitValue(v)
      PROVE  /\ Solid(v) /\ Lacks(v, "\n") /\ Lacks(v, "*") /\ Lacks(v, "_")
             /\ Lacks(v, "&#58;") /\ Lacks(v, "64K")
  BY <1>2 DEF FitValue
<1> QED BY <1>1, <1>2

\* The line of a field, as documents write it.
Stated(field) == (field.key \o Gap) \o field.value
Close(field) == (field.key \o Sign) \o field.value
Starred(field) == ((<<"*", " ", "*", "*">> \o field.key) \o <<"*", "*", ":", " ">>) \o field.value

Speaks(raw, field) == raw \in Text /\ FieldLine(raw, normalizeKey(field.key), field.value)

LEMMA LinePlain ==
  ASSUME NEW k \in Text, NEW v \in Text, FitKey(k), FitValue(v), NEW sep \in {Sign, Gap}
  PROVE  (k \o sep) \o v \in Text /\ Unmarked((k \o sep) \o v)
<1>1. Solid(k) /\ Lacks(k, "*") /\ Lacks(k, "_") /\ Lacks(k, "#") /\ Lacks(k, "-")
  BY FitMarks
<1>2. Solid(v) /\ Lacks(v, "*") /\ Lacks(v, "_")
  BY FitMarks
<1>3. sep \in Text /\ Lacks(sep, "*") /\ Lacks(sep, "_")
  <2>1. PICK co \in Text, sp \in Text : co = <<":">> /\ sp = <<" ">>
    BY MarksAreWords, ShortTexts
  <2>2. Lacks(co, "*") /\ Lacks(co, "_") /\ Lacks(sp, "*") /\ Lacks(sp, "_")
    BY <2>1, MarksAreWords, OneLacks
  <2>3. Sign = co /\ Gap = co \o sp
    BY <2>1, SignsAreText DEF Sign
  <2>4. Lacks(co \o sp, "*") /\ Lacks(co \o sp, "_")
    BY <2>2, JoinedEnds
  <2> QED BY <2>2, <2>3, <2>4, SignsAreText
<1>4. PICK a \in Text : a = k \o sep /\ a # <<>> /\ a[1] = k[1] /\ Lacks(a, "*") /\ Lacks(a, "_")
  <2>1. k # <<>>
    BY <1>1 DEF Solid
  <2>2. /\ k \o sep \in Text /\ k \o sep # <<>> /\ (k \o sep)[1] = k[1]
        /\ Lacks(k \o sep, "*") /\ Lacks(k \o sep, "_")
    BY <1>1, <1>3, <2>1, JoinedEnds
  <2> QED BY <2>2
<1>5. PICK b \in Text : /\ b = a \o v /\ b # <<>> /\ b[1] = a[1] /\ b[Len(b)] = v[Len(v)]
                        /\ Lacks(b, "*") /\ Lacks(b, "_")
  <2>1. v # <<>>
    BY <1>2 DEF Solid
  <2>2. /\ a \o v \in Text /\ a \o v # <<>> /\ (a \o v)[1] = a[1] /\ (a \o v)[Len(a \o v)] = v[Len(v)]
        /\ Lacks(a \o v, "*") /\ Lacks(a \o v, "_")
    BY <1>2, <1>4, <2>1, JoinedEnds
  <2> QED BY <2>2
<1>6. b[1] # " " /\ b[1] # "-" /\ b[1] # "*" /\ b[1] # "#" /\ b[Len(b)] # " "
  <2>1. 1 \in 1 .. Len(k) /\ k[1] # " "
    <3>1. k # <<>> /\ k[1] # " "
      BY <1>1 DEF Solid
    <3>2. k \in Seq(Word) /\ Len(k) \in Nat
      BY DEF Text
    <3>3. k # <<>> /\ (k = <<>> <=> Len(k) = 0)
      BY <3>1, <3>2, EmptySeq
    <3>4. PICK l \in Nat : l = Len(k) /\ l # 0
      BY <3>2, <3>3
    <3>5. 1 \in 1 .. l
      BY <3>4
    <3> QED BY <3>1, <3>4, <3>5
  <2>2. k[1] # "-" /\ k[1] # "*" /\ k[1] # "#"
    BY <1>1, <2>1 DEF Lacks
  <2>3. v[Len(v)] # " "
    BY <1>2 DEF Solid
  <2> QED BY <1>4, <1>5, <2>1, <2>2, <2>3
<1> QED BY <1>4, <1>5, <1>6 DEF Unmarked, Solid

LEMMA FieldSpeaks ==
  ASSUME NEW field \in Fields, FitKey(field.key), FitValue(field.value)
  PROVE  /\ Speaks(Stated(field), field) /\ Speaks(Close(field), field) /\ Speaks(Bullet \o Stated(field), field)
         /\ Speaks(Title \o Stated(field), field) /\ Speaks(Starred(field), field)
<1>1. PICK k \in Text, v \in Text : k = field.key /\ v = field.value
  BY DEF Fields
<1>2. FitKey(k) /\ FitValue(v)
  BY <1>1
<1>3. PICK s \in Text : s = (k \o Gap) \o v /\ Unmarked(s)
  BY <1>2, LinePlain
<1>4. PICK c \in Text : c = (k \o Sign) \o v /\ Unmarked(c)
  BY <1>2, LinePlain
<1>5. Solid(k) /\ Solid(v) /\ Lacks(k, ":")
  BY <1>2, FitMarks
<1>6. ASSUME NEW raw \in Text, stripMarkdownNoise(raw) = s \/ stripMarkdownNoise(raw) = c
      PROVE  Speaks(raw, field)
  <2>1. PICK sep : (sep = Sign \/ sep = Gap) /\ stripMarkdownNoise(raw) = (k \o sep) \o v
    BY <1>3, <1>4, <1>6
  <2>2. ASSUME NEW r PROVE TextField(r, raw) = Put(r, normalizeKey(k), v)
    <3>1. Colon(raw, k, v, sep)
      BY <1>5, <2>1 DEF Colon
    <3> QED BY <3>1, TextFieldIs
  <2> QED BY <1>1, <1>6, <2>2 DEF Speaks, FieldLine
<1>7. Speaks(s, field) /\ Speaks(c, field)
  <2>1. stripMarkdownNoise(s) = s /\ stripMarkdownNoise(c) = c
    BY <1>3, <1>4, StripPlain
  <2> QED BY <1>3, <1>4, <1>6, <2>1
<1>8. Speaks(Bullet \o s, field) /\ Speaks(Title \o s, field)
  <2>1. stripMarkdownNoise(Bullet \o s) = s /\ stripMarkdownNoise(Title \o s) = s
    BY <1>3, StripPlain
  <2>2. Bullet \o s \in Text /\ Title \o s \in Text
    BY BulletsAreText, Join
  <2> QED BY <1>6, <2>1, <2>2
<1>9. Speaks(Starred(field), field)
  <2>1. PICK p, q : p = <<"*", " ", "*", "*">> /\ q = <<"*", "*", ":", " ">>
    OBVIOUS
  <2>2. PICK raw : raw = ((p \o k) \o q) \o v
    OBVIOUS
  <2>3. raw \in Text
    <3>1. p \in Text /\ q \in Text
      BY <2>1, MarksAreWords, ShortTexts
    <3> QED BY <2>2, <3>1, Join
  <2>4. stripMarkdownNoise(raw) = s
    <3>1. Unmarked((k \o Gap) \o v) /\ k # <<>> /\ v # <<>>
      BY <1>3, <1>5 DEF Solid
    <3>2. stripMarkdownNoise(((<<"*", " ", "*", "*">> \o k) \o <<"*", "*", ":", " ">>) \o v) = (k \o Gap) \o v
      BY <3>1, StripBold
    <3> QED BY <1>3, <2>1, <2>2, <3>2
  <2>5. Starred(field) = raw
    BY <1>1, <2>1, <2>2 DEF Starred
  <2> QED BY <1>6, <2>3, <2>4, <2>5
<1>10. Stated(field) = s /\ Close(field) = c
  BY <1>1, <1>3, <1>4 DEF Stated, Close
<1> QED BY <1>7, <1>8, <1>9, <1>10

LEMMA TextDomain == \A s \in Text : DOMAIN s = 1 .. Len(s) /\ Len(s) \in Nat
BY DEF Text

-----------------------------------------------------------------------------
(* What a line says, whatever blanks and emphasis are in it *)

LEMMA UnstressedIs ==
  /\ Unstressed(<<>>) = <<>>
  /\ \A s \in Text : Unstressed(s) \in Text
  /\ \A s, t \in Text : Unstressed(s \o t) = Unstressed(s) \o Unstressed(t)
  /\ \A s \in Text : Lacks(s, "_") /\ Lacks(s, "*") => Unstressed(s) = s
<1>1. Unstressed(<<>>) = <<>>
  BY WithoutNext DEF Unstressed
<1>2. ASSUME NEW s \in Text PROVE Unstressed(s) \in Text
  BY WithoutNext DEF Unstressed
<1>3. ASSUME NEW s \in Text, NEW t \in Text PROVE Unstressed(s \o t) = Unstressed(s) \o Unstressed(t)
  <2>1. PICK a \in Text, b \in Text : a = Without(s, "_") /\ b = Without(t, "_")
    BY WithoutNext
  <2>2. WithoutOf(s, t, "_") /\ WithoutOf(a, b, "*")
    BY WithoutJoined
  <2> QED BY <2>1, <2>2 DEF WithoutOf, Unstressed
<1>4. ASSUME NEW s \in Text, Lacks(s, "_"), Lacks(s, "*") PROVE Unstressed(s) = s
  <2>1. Without(s, "_") = s /\ Without(s, "*") = s
    BY <1>4, WithoutLacking
  <2> QED BY <2>1 DEF Unstressed
<1> QED BY <1>1, <1>2, <1>3, <1>4

LEMMA UnstressedOne ==
  /\ Unstressed(<<"_">>) = <<>> /\ Unstressed(<<"*">>) = <<>>
  /\ \A x \in Word : x # "_" /\ x # "*" => Unstressed(<<x>>) = <<x>>
  /\ \A p : Filled(p, " ") => Unstressed(p) = p
<1>1. PICK e \in Text : e = <<>>
  BY Join
<1>2. ASSUME NEW x \in Word PROVE Append(e, x) = <<x>> /\ <<x>> \in Text
  BY <1>1, ShortTexts
<1>3. Without(e, "_") = <<>> /\ Without(e, "*") = <<>> /\ <<>> \o <<>> = <<>>
  BY <1>1, WithoutNext, Join
<1>4. PICK un \in Word, st \in Word : un = "_" /\ st = "*"
  BY MarksAreWords
<1>5. Without(<<un>>, "_") = <<>>
  <2>1. Without(Append(e, un), "_") = Without(e, "_") \o <<>>
    BY <1>4, WithoutNext
  <2> QED BY <1>2, <1>3, <2>1
<1>6. Without(<<st>>, "*") = <<>>
  <2>1. Without(Append(e, st), "*") = Without(e, "*") \o <<>>
    BY <1>4, WithoutNext
  <2> QED BY <1>2, <1>3, <2>1
<1>7. Without(<<st>>, "_") = <<st>>
  <2>1. Lacks(<<st>>, "_")
    BY <1>4, OneLacks
  <2> QED BY <1>2, <2>1, WithoutLacking
<1>8. Unstressed(<<"_">>) = <<>> /\ Unstressed(<<"*">>) = <<>>
  BY <1>1, <1>3, <1>4, <1>5, <1>6, <1>7 DEF Unstressed
<1>9. ASSUME NEW x \in Word, x # "_", x # "*" PROVE Unstressed(<<x>>) = <<x>>
  <2>1. Lacks(<<x>>, "_") /\ Lacks(<<x>>, "*")
    BY <1>9, OneLacks
  <2> QED BY <1>2, <2>1, UnstressedIs
<1>10. ASSUME NEW p, Filled(p, " ") PROVE Unstressed(p) = p
  <2>1. p \in Text /\ Lacks(p, "_") /\ Lacks(p, "*")
    BY <1>10, FilledNext DEF Filled
  <2> QED BY <2>1, UnstressedIs
<1> QED BY <1>8, <1>9, <1>10

LEMMA UnstressedWithout ==
  ASSUME NEW mark \in {"_", "*"}
  PROVE  \A s \in Text : Unstressed(Without(s, mark)) = Unstressed(s)
<1> DEFINE T == {s \in Text : Unstressed(Without(s, mark)) = Unstressed(s)}
<1>1. <<>> \in T
  BY WithoutNext, Join
<1>2. ASSUME NEW s \in Seq(Word), NEW x \in Word, s \in T PROVE Append(s, x) \in T
  <2>1. PICK u \in Text : u = <<x>>
    BY ShortTexts
  <2>2. s \in Text /\ Append(s, x) = s \o u /\ s \o u \in Text
    <3>1. Append(s, x) = s \o <<x>>
      BY JoinOne
    <3>2. s \in Text
      BY DEF Text
    <3> QED BY <2>1, <3>1, <3>2, Join
  <2>3. PICK wo \in Text : wo = Without(s, mark) /\ Unstressed(wo) = Unstressed(s)
    BY <1>2, <2>2, WithoutNext
  <2>4. Unstressed(s \o u) = Unstressed(s) \o Unstressed(u)
    BY <2>2, UnstressedIs
  <2>5. CASE x = mark
    <3>1. Without(Append(s, x), mark) = wo \o <<>> /\ wo \o <<>> = wo
      BY <2>2, <2>3, <2>5, WithoutNext, Join
    <3>2. Unstressed(u) = <<>> /\ Unstressed(s) \in Text
      BY <2>1, <2>2, <2>5, UnstressedOne, UnstressedIs
    <3>3. Unstressed(s) \o <<>> = Unstressed(s)
      BY <3>2, Join
    <3> QED BY <2>2, <2>3, <2>4, <3>1, <3>2, <3>3
  <2>6. CASE x # mark
    <3>1. Without(Append(s, x), mark) = wo \o u
      BY <2>1, <2>2, <2>3, <2>6, WithoutNext
    <3>2. Unstressed(wo \o u) = Unstressed(wo) \o Unstressed(u)
      BY UnstressedIs
    <3> QED BY <2>2, <2>3, <2>4, <3>1, <3>2
  <2> QED BY <2>5, <2>6
<1> HIDE DEF T
<1>3. Seq(Word) \subseteq T
  BY <1>1, <1>2, SeqInductive
<1> QED BY <1>3 DEF T, Text

LEMMA BareIs ==
  /\ \A s \in Text : Bare(s) \in Text
  /\ \A s \in Text, p \in Text : Filled(p, " ") => Bare(p \o s) = Bare(s) /\ Bare(s \o p) = Bare(s)
  /\ \A s \in Text : /\ Bare(TrimSpace(s)) = Bare(s)
                     /\ Bare(Without(s, "*")) = Bare(s) /\ Bare(Without(s, "_")) = Bare(s)
<1>1. ASSUME NEW s \in Text PROVE Bare(s) \in Text
  BY UnstressedIs, TrimSpaceIs DEF Bare
<1>2. ASSUME NEW s \in Text, NEW p \in Text, Filled(p, " ")
      PROVE  Bare(p \o s) = Bare(s) /\ Bare(s \o p) = Bare(s)
  <2>1. PICK u \in Text : u = Unstressed(s)
    BY UnstressedIs
  <2>2. Unstressed(p \o s) = p \o u /\ Unstressed(s \o p) = u \o p
    <3>1. Unstressed(p) = p
      BY <1>2, UnstressedOne
    <3>2. Unstressed(p \o s) = Unstressed(p) \o Unstressed(s)
      BY UnstressedIs
    <3>3. Unstressed(s \o p) = Unstressed(s) \o Unstressed(p)
      BY UnstressedIs
    <3> QED BY <2>1, <3>1, <3>2, <3>3
  <2>3. TrimSpace(p \o u) = TrimSpace(u) /\ TrimSpace(u \o p) = TrimSpace(u)
    BY <1>2, TrimSpaceJoin
  <2> QED BY <2>1, <2>2, <2>3 DEF Bare
<1>3. ASSUME NEW s \in Text PROVE Bare(TrimSpace(s)) = Bare(s)
  <2>1. PICK p \in Text, q \in Text, t \in Text :
          Filled(p, " ") /\ Filled(q, " ") /\ t = TrimSpace(s) /\ s = p \o (t \o q)
    BY TrimSpaceParts
  <2>2. PICK tq \in Text : tq = t \o q
    BY Join
  <2>3. Bare(tq) = Bare(t)
    BY <1>2, <2>1, <2>2
  <2>4. Bare(p \o tq) = Bare(tq)
    BY <1>2, <2>1
  <2> QED BY <2>1, <2>2, <2>3, <2>4
<1>4. ASSUME NEW s \in Text PROVE Bare(Without(s, "*")) = Bare(s) /\ Bare(Without(s, "_")) = Bare(s)
  <2>1. Unstressed(Without(s, "*")) = Unstressed(s) /\ Unstressed(Without(s, "_")) = Unstressed(s)
    BY UnstressedWithout
  <2> QED BY <2>1 DEF Bare
<1> QED BY <1>1, <1>2, <1>3, <1>4

LEMMA BareHead ==
  ASSUME NEW s \in Text, s # <<>>, s[1] \notin {" ", "_", "*"}
  PROVE  Bare(s) # <<>> /\ Bare(s)[1] = s[1]
<1>1. PICK x \in Word, r \in Text : s = <<x>> \o r /\ x = s[1]
  BY HeadParts
<1>2. PICK u \in Text, c \in Text : u = Unstressed(r) /\ c = <<x>> /\ c # <<>> /\ c[1] = x /\ c[Len(c)] = x
  BY UnstressedIs, ShortTexts
<1>3. Unstressed(s) = c \o u
  <2>1. Unstressed(c) = c
    BY <1>1, <1>2, UnstressedOne
  <2>2. Unstressed(c \o r) = Unstressed(c) \o Unstressed(r)
    BY UnstressedIs
  <2> QED BY <1>1, <1>2, <2>1, <2>2
<1>4. TrimLeft(c \o u, " ") = c \o u
  <2>1. c \o u \in Text /\ c \o u # <<>> /\ (c \o u)[1] = x
    BY <1>2, JoinedEnds
  <2>2. x # " "
    BY <1>1
  <2> QED BY <2>1, <2>2, TrimLeftIs
<1>5. TrimRight(c \o u, " ") = c \o TrimRight(u, " ")
  <2>1. c # <<>> /\ c[Len(c)] # " "
    BY <1>1, <1>2
  <2> QED BY <2>1, TrimRightStops
<1>6. Bare(s) = c \o TrimRight(u, " ")
  BY <1>3, <1>4, <1>5 DEF Bare, TrimSpace
<1>7. PICK t \in Text : t = TrimRight(u, " ")
  BY TrimRightIs
<1>8. c \o t # <<>> /\ (c \o t)[1] = c[1]
  BY <1>2, JoinedEnds
<1> QED BY <1>1, <1>2, <1>6, <1>7, <1>8

LEMMA ColonStops ==
  ASSUME NEW s \in Text, NEW t \in Text, s # <<>>, s[Len(s)] = ":"
  PROVE  TrimRight(s \o t, " ") = s \o TrimRight(t, " ")
<1>1. s[Len(s)] # " "
  OBVIOUS
<1> QED BY <1>1, TrimRightStops

\* A key, a colon and what comes after it.
Worded(k, b) == (k \o Sign) \o b

LEMMA BareWorded ==
  ASSUME NEW k \in Text, NEW b \in Text
  PROVE  /\ Worded(k, b) \in Text
         /\ Bare(Worded(k, b)) = Worded(TrimLeft(Unstressed(k), " "), TrimRight(Unstressed(b), " "))
<1>1. PICK g \in Text : g = Sign /\ g = <<":">> /\ g # <<>> /\ g[1] = ":" /\ g[Len(g)] = ":"
  BY SignsAreText, MarksAreWords, ShortTexts DEF Sign
<1>2. PICK uk \in Text, ub \in Text : uk = Unstressed(k) /\ ub = Unstressed(b)
  BY UnstressedIs
<1>3. PICK kg \in Text : kg = k \o g
  BY Join
<1>4. kg \o b \in Text
  BY Join
<1>5. Unstressed(g) = g
  BY <1>1, MarksAreWords, UnstressedOne
<1>6. Unstressed(kg \o b) = (uk \o g) \o ub
  <2>1. Unstressed(kg \o b) = Unstressed(kg) \o Unstressed(b)
    BY UnstressedIs
  <2>2. Unstressed(k \o g) = Unstressed(k) \o Unstressed(g)
    BY UnstressedIs
  <2> QED BY <1>2, <1>3, <1>5, <2>1, <2>2
<1>7. PICK tk \in Text : tk = TrimLeft(uk, " ")
  BY TrimLeftIs
<1>8. PICK gb \in Text : gb = g \o ub /\ gb # <<>> /\ gb[1] = ":"
  <2>1. g \o ub \in Text /\ g \o ub # <<>> /\ (g \o ub)[1] = g[1]
    BY <1>1, JoinedEnds
  <2> QED BY <1>1, <2>1
<1>9. (uk \o g) \o ub = uk \o gb /\ (tk \o g) \o ub = tk \o gb
  <2>1. AssocOf(uk, g, ub) /\ AssocOf(tk, g, ub)
    BY Assoc
  <2> QED BY <1>8, <2>1 DEF AssocOf
<1>10. TrimLeft(uk \o gb, " ") = tk \o gb
  <2>1. gb # <<>> /\ gb[1] # " "
    BY <1>8
  <2>2. TrimLeft(uk \o gb, " ") = TrimLeft(uk, " ") \o gb
    BY <2>1, TrimLeftStops
  <2> QED BY <1>7, <2>2
<1>11. PICK c \in Text : c = tk \o g /\ c # <<>> /\ c[Len(c)] = ":"
  <2>1. tk \o g \in Text /\ tk \o g # <<>> /\ (tk \o g)[Len(tk \o g)] = g[Len(g)]
    BY <1>1, JoinedEnds
  <2> QED BY <1>1, <2>1
<1>12. TrimRight(c \o ub, " ") = c \o TrimRight(ub, " ")
  BY <1>11, ColonStops
<1>13. TrimSpace((uk \o g) \o ub) = (tk \o g) \o TrimRight(ub, " ")
  BY <1>9, <1>10, <1>11, <1>12 DEF TrimSpace
<1> QED BY <1>1, <1>2, <1>3, <1>4, <1>6, <1>7, <1>13 DEF Bare, Worded

LEMMA WordedOnce ==
  ASSUME NEW k \in Text, NEW b \in Text, NEW l \in Text, NEW c \in Text,
         Lacks(k, ":"), Lacks(l, ":"), Worded(k, b) = Worded(l, c)
  PROVE  k = l /\ b = c
<1>1. PICK x \in Word : x = ":" /\ Sign = <<x>>
  BY MarksAreWords DEF Sign
<1>2. PICK g \in Text : g = Sign /\ Len(g) = 1
  BY <1>1, ShortTexts
<1>3. PICK s \in Text : s = (k \o <<x>>) \o b /\ s = (l \o <<x>>) \o c
  BY <1>1, BareWorded DEF Worded
<1>4. CutAt(s, k, x, b) /\ CutAt(s, l, x, c)
  BY <1>1, <1>3, Cut
<1>5. Len(k) = Len(l)
  <2>1. Len(k) \in Nat /\ Len(l) \in Nat /\ Len(k) + 1 = Len(l) + 1
    BY <1>4 DEF CutAt, Text
  <2> QED BY <2>1
<1>6. k = l
  BY <1>4, <1>5 DEF CutAt
<1>7. PICK kg \in Text : kg = k \o g
  BY Join
<1>8. kg \o b = kg \o c
  BY <1>2, <1>6, <1>7 DEF Worded
<1>9. b = c
  BY <1>8, SameRest
<1> QED BY <1>6, <1>9

\* What is said under a key, by its start.
Starts(s, mark) == s # <<>> /\ s[1] = mark

LEMMA UnledIs ==
  \A s \in Text : Unled(s) <=> ~ Starts(Bare(s), "-") /\ ~ Starts(Bare(s), "#")
<1> SUFFICES ASSUME NEW s \in Text
             PROVE  Unled(s) <=> ~ Starts(Bare(s), "-") /\ ~ Starts(Bare(s), "#")
  OBVIOUS
<1>1. PICK b \in Text : b = Bare(s)
  BY BareIs
<1>2. CASE b = <<>>
  BY <1>1, <1>2 DEF Unled, Starts
<1>3. CASE b # <<>>
  <2>1. Head(b) = b[1]
    BY <1>3 DEF Text
  <2> QED BY <1>1, <1>3, <2>1 DEF Unled, Starts
<1> QED BY <1>2, <1>3

LEMMA LedStarts ==
  ASSUME NEW s \in Text, Unled(s)
  PROVE  ~ Starts(s, "-") /\ ~ Starts(s, "#")
<1>1. ASSUME NEW mark \in {"-", "#"}, Starts(s, mark) PROVE FALSE
  <2>1. s # <<>> /\ s[1] \notin {" ", "_", "*"}
    BY <1>1 DEF Starts
  <2>2. Bare(s) # <<>> /\ Bare(s)[1] = s[1]
    BY <2>1, BareHead
  <2>3. Starts(Bare(s), mark)
    BY <1>1, <2>2 DEF Starts
  <2> QED BY <2>3, UnledIs
<1> QED BY <1>1

LEMMA TrimPrefixParts ==
  ASSUME NEW s \in Text, NEW p \in Text, p # <<>>
  PROVE  TrimPrefix(s, p) = s \/ \E r \in Text : r = TrimPrefix(s, p) /\ s = p \o r
<1>1. PICK t : t = TrimPrefix(s, p)
  OBVIOUS
<1>2. CASE ~ IsPrefix(p, s)
  BY <1>2 DEF TrimPrefix
<1>3. CASE IsPrefix(p, s)
  <2>1. PICK n \in Nat, m \in Nat : n = Len(s) /\ m = Len(p)
    BY DEF Text
  <2>2. m <= n /\ p = SubSeq(s, 1, m)
    <3>1. m <= n /\ SubSeq(p, 1, m) = SubSeq(s, 1, m)
      BY <1>3, <2>1 DEF IsPrefix
    <3>2. SubSeq(p, 1, m) = p
      BY <2>1, SubSeqFull DEF Text
    <3> QED BY <3>1, <3>2
  <2>3. TrimPrefix(s, p) = SubSeq(s, m + 1, n)
    BY <1>3, <2>1 DEF TrimPrefix
  <2>4. SubSeq(s, 1, m) \o SubSeq(s, m + 1, n) = SubSeq(s, 1, n)
    <3>1. 1 \in 1 .. Len(s) + 1 /\ m \in 1 - 1 .. Len(s) /\ n \in m .. Len(s)
      BY <2>1, <2>2
    <3> QED BY <3>1, ConcatAdjacentSubSeq DEF Text
  <2>5. SubSeq(s, 1, n) = s
    BY <2>1, SubSeqFull DEF Text
  <2>6. TrimPrefix(s, p) \in Text
    BY TrimPrefixIs
  <2> QED BY <2>2, <2>3, <2>4, <2>5, <2>6
<1> QED BY <1>2, <1>3

\* stripMarkdownNoise, after the bullet.
Polish(item) == TrimSpace(Without(Without(TrimLeft(TrimPrefix(item, Star), "#"), "*"), "_"))

LEMMA BareLeft ==
  ASSUME NEW s \in Text
  PROVE  /\ TrimPrefix(s, Star) \in Text /\ Bare(TrimPrefix(s, Star)) = Bare(s)
         /\ Unled(s) => TrimLeft(s, "#") = s
<1>1. Bare(TrimPrefix(s, Star)) = Bare(s)
  <2>1. PICK st \in Text : st = Star
    BY BulletsAreText
  <2>2. st # <<>>
    BY <2>1 DEF Star
  <2>3. CASE TrimPrefix(s, st) = s
    BY <2>1, <2>3
  <2>4. ASSUME NEW r \in Text, r = TrimPrefix(s, st), s = st \o r PROVE Bare(r) = Bare(s)
    <3>1. PICK a \in Text, b \in Text : a = <<"*">> /\ b = <<" ">> /\ st = a \o b
      <4>1. PICK sr \in Word, sp \in Word : sr = "*" /\ sp = " "
        BY MarksAreWords
      <4>2. <<sr>> \in Text /\ <<sp>> \in Text /\ <<sr, sp>> = <<sr>> \o <<sp>>
        BY ShortTexts
      <4> QED BY <2>1, <4>1, <4>2 DEF Star
    <3>2. PICK br \in Text : br = b \o r
      BY Join
    <3>3. s = a \o br
      <4>1. AssocOf(a, b, r)
        BY Assoc
      <4> QED BY <2>4, <3>1, <3>2, <4>1 DEF AssocOf
    <3>4. Unstressed(s) = Unstressed(br)
      <4>1. Unstressed(a) = <<>>
        BY <3>1, UnstressedOne
      <4>2. Unstressed(br) \in Text /\ Unstressed(a \o br) = Unstressed(a) \o Unstressed(br)
        BY UnstressedIs
      <4>3. <<>> \o Unstressed(br) = Unstressed(br)
        BY <4>2, Join
      <4> QED BY <3>3, <4>1, <4>2, <4>3
    <3>5. Filled(b, " ")
      <4>1. PICK sp \in Word : sp = " "
        BY MarksAreWords
      <4> QED BY <3>1, <4>1, FilledShort
    <3>6. Bare(br) = Bare(r)
      BY <3>2, <3>5, BareIs
    <3> QED BY <3>4, <3>6 DEF Bare
  <2> QED BY <2>1, <2>2, <2>3, <2>4, TrimPrefixParts
<1>2. ASSUME Unled(s) PROVE TrimLeft(s, "#") = s
  <2>1. ~ Starts(s, "#")
    BY <1>2, LedStarts
  <2>2. CASE s = <<>>
    <3>1. PICK p \in Text, r \in Text : r = TrimLeft(s, "#") /\ s = p \o r
      BY LeftParts
    <3>2. r = <<>>
      BY <2>2, <3>1, JoinedEnds
    <3> QED BY <2>2, <3>1, <3>2
  <2>3. CASE s # <<>>
    <3>1. s[1] # "#"
      BY <2>1, <2>3 DEF Starts
    <3> QED BY <2>3, <3>1, TrimLeftIs
  <2> QED BY <2>2, <2>3
<1>3. TrimPrefix(s, Star) \in Text
  <2>1. Star \in Text /\ Star # <<>>
    BY BulletsAreText DEF Star
  <2> QED BY <2>1, TrimPrefixIs
<1> QED BY <1>1, <1>2, <1>3

LEMMA BarePolish ==
  /\ \A s \in Text : Bare(TrimSpace(Without(Without(s, "*"), "_"))) = Bare(s)
  /\ \A s \in Text : Unled(s) => Bare(Polish(s)) = Bare(s)
<1>1. ASSUME NEW s \in Text PROVE Bare(TrimSpace(Without(Without(s, "*"), "_"))) = Bare(s)
  <2>1. PICK a \in Text : a = Without(s, "*")
    BY WithoutNext
  <2>2. PICK b \in Text : b = Without(a, "_")
    BY WithoutNext
  <2>3. Bare(a) = Bare(s) /\ Bare(b) = Bare(a) /\ Bare(TrimSpace(b)) = Bare(b)
    BY <2>1, <2>2, BareIs
  <2> QED BY <2>1, <2>2, <2>3
<1>2. ASSUME NEW s \in Text, Unled(s) PROVE Bare(Polish(s)) = Bare(s)
  <2>1. PICK a \in Text : a = TrimPrefix(s, Star) /\ Bare(a) = Bare(s)
    BY BareLeft
  <2>2. Unled(a)
    BY <1>2, <2>1, UnledIs
  <2>3. TrimLeft(a, "#") = a
    BY <2>2, BareLeft
  <2> QED BY <1>1, <2>1, <2>3 DEF Polish
<1> QED BY <1>1, <1>2

\* A line that starts with neither a bullet nor a heading says the same when it
\* is stripped.
LEMMA StripKeeps ==
  ASSUME NEW s \in Text, Unled(s)
  PROVE  Bare(stripMarkdownNoise(s)) = Bare(s)
<1>1. PICK t \in Text : t = TrimSpace(s) /\ Bare(t) = Bare(s)
  BY TrimSpaceIs, BareIs
<1>2. Unled(t)
  BY <1>1, UnledIs
<1>3. TrimPrefix(t, Bullet) = t
  <2>1. Bullet \in Text /\ Bullet # <<>> /\ Bullet[1] = "-"
    BY BulletsAreText DEF Bullet
  <2>2. ASSUME NEW r \in Text, t = Bullet \o r PROVE FALSE
    <3>1. t # <<>> /\ t[1] = "-"
      BY <2>1, <2>2, JoinedEnds
    <3> QED BY <1>2, <3>1, LedStarts DEF Starts
  <2> QED BY <2>1, <2>2, TrimPrefixParts
<1>4. stripMarkdownNoise(s) = Polish(t)
  BY <1>1, <1>3 DEF stripMarkdownNoise, Polish, Bullet, Star
<1> QED BY <1>1, <1>2, <1>4, BarePolish

\* A bullet and a heading go, and nothing else does.
LEMMA StripFronted ==
  ASSUME NEW k \in Text, NEW b \in Text, Unled(Worded(k, b))
  PROVE  /\ Bare(stripMarkdownNoise(Bullet \o Worded(k, b))) = Bare(Worded(k, b))
         /\ Bare(stripMarkdownNoise(Title \o Worded(k, b))) = Bare(Worded(k, b))
<1>1. PICK r \in Text : r = TrimRight(b, " ")
  BY TrimRightIs
<1>2. PICK y \in Text : y = Worded(k, r)
  BY BareWorded
<1>3. Bare(y) = Bare(Worded(k, b)) /\ y # <<>>
  <2>1. PICK kg \in Text : kg = k \o Sign /\ kg # <<>>
    <3>1. Sign \in Text /\ Sign # <<>>
      BY SignsAreText DEF Sign
    <3> QED BY <3>1, JoinedEnds
  <2>2. PICK q \in Text : Filled(q, " ") /\ b = r \o q
    <3>1. PICK q \in Text, rr \in Text : Filled(q, " ") /\ rr = TrimRight(b, " ") /\ b = rr \o q
      BY RightParts
    <3> QED BY <1>1, <3>1
  <2>3. Worded(k, b) = y \o q
    <3>1. AssocOf(kg, r, q)
      BY Assoc
    <3> QED BY <1>2, <2>1, <2>2, <3>1 DEF AssocOf, Worded
  <2>4. Bare(y \o q) = Bare(y)
    BY <2>2, BareIs
  <2>5. y # <<>>
    BY <1>2, <2>1, JoinedEnds DEF Worded
  <2> QED BY <2>3, <2>4, <2>5
<1>4. Unled(y)
  <2>1. Worded(k, b) \in Text
    BY BareWorded
  <2> QED BY <1>3, <2>1, UnledIs
<1>5. ASSUME NEW f \in Text, f # <<>>, f[1] # " "
      PROVE  TrimSpace(f \o Worded(k, b)) = f \o y
  <2>1. PICK kg \in Text : kg = k \o Sign /\ kg # <<>> /\ kg[Len(kg)] = ":"
    <3>1. PICK g \in Text : g = Sign /\ g # <<>> /\ g[Len(g)] = ":"
      BY SignsAreText, MarksAreWords, ShortTexts DEF Sign
    <3>2. k \o g \in Text /\ k \o g # <<>> /\ (k \o g)[Len(k \o g)] = g[Len(g)]
      BY <3>1, JoinedEnds
    <3> QED BY <3>1, <3>2
  <2>2. PICK fkg \in Text : fkg = f \o kg /\ fkg # <<>> /\ fkg[Len(fkg)] = ":" /\ fkg[1] = f[1]
    <3>1. /\ f \o kg \in Text /\ f \o kg # <<>> /\ (f \o kg)[Len(f \o kg)] = kg[Len(kg)]
          /\ (f \o kg)[1] = f[1]
      BY <1>5, <2>1, JoinedEnds
    <3> QED BY <2>1, <3>1
  <2>3. f \o Worded(k, b) = fkg \o b /\ f \o y = fkg \o r
    <3>1. AssocOf(f, kg, b) /\ AssocOf(f, kg, r)
      BY Assoc
    <3> QED BY <1>2, <2>1, <2>2, <3>1 DEF AssocOf, Worded
  <2>4. fkg \o b # <<>> /\ (fkg \o b)[1] = fkg[1] /\ fkg \o b \in Text
    BY <2>2, JoinedEnds
  <2>5. TrimLeft(fkg \o b, " ") = fkg \o b
    BY <1>5, <2>2, <2>4, TrimLeftIs
  <2>6. TrimRight(fkg \o b, " ") = fkg \o r
    BY <1>1, <2>2, ColonStops
  <2> QED BY <2>3, <2>5, <2>6 DEF TrimSpace
<1>6. Bare(stripMarkdownNoise(Bullet \o Worded(k, b))) = Bare(Worded(k, b))
  <2>1. PICK bu \in Text : bu = Bullet /\ bu # <<>> /\ bu[1] = "-"
    BY BulletsAreText DEF Bullet
  <2>2. TrimSpace(bu \o Worded(k, b)) = bu \o y
    BY <1>5, <2>1
  <2>3. TrimPrefix(bu \o y, bu) = y
    BY <1>3, <2>1, TrimPrefixIs
  <2>4. stripMarkdownNoise(Bullet \o Worded(k, b)) = Polish(y)
    BY <2>1, <2>2, <2>3 DEF stripMarkdownNoise, Polish, Bullet, Star
  <2> QED BY <1>3, <1>4, <2>4, BarePolish
<1>7. Bare(stripMarkdownNoise(Title \o Worded(k, b))) = Bare(Worded(k, b))
  <2>1. PICK ti \in Text : ti = Title /\ ti # <<>> /\ ti[1] = "#"
    BY BulletsAreText DEF Title
  <2>2. TrimSpace(ti \o Worded(k, b)) = ti \o y
    BY <1>5, <2>1
  <2>3. PICK t \in Text : t = ti \o y /\ t # <<>> /\ t[1] = "#"
    <3>1. ti \o y \in Text /\ ti \o y # <<>> /\ (ti \o y)[1] = ti[1]
      BY <2>1, JoinedEnds
    <3> QED BY <2>1, <3>1
  <2>4. TrimPrefix(t, Bullet) = t /\ TrimPrefix(t, Star) = t
    <3>1. /\ Bullet \in Text /\ Bullet # <<>> /\ Bullet[1] = "-"
          /\ Star \in Text /\ Star # <<>> /\ Star[1] = "*"
      BY BulletsAreText DEF Bullet, Star
    <3>2. t[1] # Bullet[1] /\ t[1] # Star[1]
      BY <2>3, <3>1
    <3> QED BY <2>3, <3>1, <3>2, TrimPrefixIs
  <2>5. PICK p \in Text, g \in Text : p = <<"#", "#">> /\ g = <<" ">> /\ ti = p \o g
    <3>1. PICK ha \in Word, sp \in Word : ha = "#" /\ sp = " "
      BY MarksAreWords
    <3>2. <<ha, ha, sp>> = <<ha, ha>> \o <<sp>>
      OBVIOUS
    <3>3. <<ha, ha>> \in Text /\ <<sp>> \in Text
      BY ShortTexts
    <3> QED BY <2>1, <3>1, <3>2, <3>3 DEF Title
  <2>6. PICK gy \in Text : gy = g \o y /\ gy # <<>> /\ gy[1] = " "
    <3>1. g # <<>> /\ g[1] = " "
      BY <2>5
    <3>2. g \o y \in Text /\ g \o y # <<>> /\ (g \o y)[1] = g[1]
      BY <3>1, JoinedEnds
    <3> QED BY <3>1, <3>2
  <2>7. t = p \o gy
    <3>1. AssocOf(p, g, y)
      BY Assoc
    <3> QED BY <2>3, <2>5, <2>6, <3>1 DEF AssocOf
  <2>8. TrimLeft(t, "#") = gy
    <3>1. Filled(p, "#")
      <4>1. PICK ha \in Word : ha = "#"
        BY MarksAreWords
      <4> QED BY <2>5, <4>1, FilledShort
    <3>2. TrimLeft(p \o gy, "#") = TrimLeft(gy, "#")
      BY <3>1, TrimLeftJoin
    <3>3. gy[1] # "#"
      BY <2>6
    <3>4. TrimLeft(gy, "#") = gy
      BY <2>6, <3>3, TrimLeftIs
    <3> QED BY <2>7, <3>2, <3>4
  <2>9. Bare(gy) = Bare(y)
    <3>1. Filled(g, " ")
      <4>1. PICK sp \in Word : sp = " "
        BY MarksAreWords
      <4> QED BY <2>5, <4>1, FilledShort
    <3> QED BY <2>6, <3>1, BareIs
  <2>10. stripMarkdownNoise(Title \o Worded(k, b)) = TrimSpace(Without(Without(gy, "*"), "_"))
    BY <2>1, <2>2, <2>3, <2>4, <2>8 DEF stripMarkdownNoise, Bullet, Star
  <2> QED BY <1>3, <2>9, <2>10, BarePolish
<1> QED BY <1>6, <1>7

(* What a key says: its words in small letters, without blanks and emphasis *)

Lower(x) == IF x \in DOMAIN LowerCase THEN LowerCase[x] ELSE x
KeyItem == [x \in Word |-> IF Lower(x) \in {" ", "_", "*"} THEN <<>> ELSE <<Lower(x)>>]
KeyMap(s) == MapFlat(KeyItem, s)

LEMMA LowerIs ==
  /\ \A x \in Word : Lower(x) \in Word /\ Lower(Lower(x)) = Lower(x)
  /\ \A x \in Marks : Lower(x) = x
<1>1. ASSUME NEW x \in Word PROVE Lower(x) \in Word /\ Lower(Lower(x)) = Lower(x)
  <2>1. CASE x \in DOMAIN LowerCase
    <3>1. LowerCase[x] \in Word /\ LowerCase[x] \notin DOMAIN LowerCase
      BY <2>1, FormatAssumption DEF FormatAssumption, Word
    <3> QED BY <2>1, <3>1 DEF Lower
  <2>2. CASE x \notin DOMAIN LowerCase
    BY <2>2 DEF Lower
  <2> QED BY <2>1, <2>2
<1>2. ASSUME NEW x \in Marks PROVE Lower(x) = x
  <2>1. x \notin DOMAIN LowerCase
    BY FormatAssumption DEF FormatAssumption
  <2> QED BY <2>1 DEF Lower
<1> QED BY <1>1, <1>2

LEMMA KeyMapNext ==
  /\ KeyMap(<<>>) = <<>>
  /\ \A s \in Text : KeyMap(s) \in Text
  /\ \A s \in Text, x \in Word : KeyMap(Append(s, x)) = KeyMap(s) \o KeyItem[x]
  /\ \A s, t \in Text : KeyMap(s \o t) = KeyMap(s) \o KeyMap(t)
  /\ \A x \in Word : KeyItem[x] \in Text
  /\ \A x \in Word : KeyMap(<<x>>) = KeyItem[x]
<1>1. KeyItem \in [Word -> Text]
  <2>1. \A x \in Word : <<Lower(x)>> \in Text /\ <<>> \in Text
    BY LowerIs, ShortTexts, Join
  <2> QED BY <2>1 DEF KeyItem
<1>2. /\ KeyMap(<<>>) = <<>>
      /\ \A s \in Text : KeyMap(s) \in Text
      /\ \A s \in Text, x \in Word : KeyMap(Append(s, x)) = KeyMap(s) \o KeyItem[x]
  BY <1>1, MapFlatNext DEF KeyMap, Text
<1>3. \A s, t \in Text : KeyMap(s \o t) = KeyMap(s) \o KeyMap(t)
  BY <1>1, MapFlatJoined DEF KeyMap, Text
<1>4. ASSUME NEW x \in Word PROVE KeyMap(<<x>>) = KeyItem[x]
  <2>1. PICK e \in Text : e = <<>>
    BY Join
  <2>2. Append(e, x) = <<x>>
    BY <2>1
  <2>3. KeyMap(e) \o KeyItem[x] = KeyItem[x]
    BY <1>1, <1>2, <2>1, Join
  <2> QED BY <1>2, <2>1, <2>2, <2>3
<1> QED BY <1>1, <1>2, <1>3, <1>4

LEMMA KeyItemIs ==
  ASSUME NEW x \in Word
  PROVE  /\ x \in {" ", "_", "*"} => KeyItem[x] = <<>>
         /\ Lower(x) \in {" ", "_", "*"} => KeyItem[x] = <<>>
         /\ Lower(x) \notin {" ", "_", "*"} => KeyItem[x] = <<Lower(x)>>
         /\ x = "." => KeyItem[x] = <<x>>
<1>1. Lower(x) \in {" ", "_", "*"} => KeyItem[x] = <<>>
  BY DEF KeyItem
<1>2. Lower(x) \notin {" ", "_", "*"} => KeyItem[x] = <<Lower(x)>>
  BY DEF KeyItem
<1>3. x \in {" ", "_", "*", "."} => Lower(x) = x
  BY LowerIs DEF Marks
<1> QED BY <1>1, <1>2, <1>3

\* Blanks and emphasis say nothing.
LEMMA KeyMapBlanks ==
  /\ \A p \in Text : Filled(p, " ") => KeyMap(p) = <<>>
  /\ \A s \in Text : KeyMap(TrimLeft(s, " ")) = KeyMap(s) /\ KeyMap(TrimSpace(s)) = KeyMap(s)
<1>1. ASSUME NEW p \in Text, Filled(p, " ") PROVE KeyMap(p) = <<>>
  <2> DEFINE T == {s \in Text : Filled(s, " ") => KeyMap(s) = <<>>}
  <2>1. <<>> \in T
    BY KeyMapNext, Join
  <2>2. ASSUME NEW s \in Seq(Word), NEW x \in Word, s \in T PROVE Append(s, x) \in T
    <3>1. s \in Text /\ Append(s, x) \in Text
      BY AppendProperties DEF Text
    <3>2. ASSUME Filled(Append(s, x), " ") PROVE KeyMap(Append(s, x)) = <<>>
      <4>1. Filled(s, " ") /\ x = " "
        BY <3>1, <3>2, FilledNext
      <4>2. KeyMap(s) = <<>> /\ KeyItem[x] = <<>>
        BY <2>2, <4>1, KeyItemIs
      <4>3. <<>> \o <<>> = <<>>
        BY Join
      <4>4. KeyMap(Append(s, x)) = KeyMap(s) \o KeyItem[x]
        BY <3>1, KeyMapNext
      <4> QED BY <4>2, <4>3, <4>4
    <3> QED BY <3>1, <3>2
  <2> HIDE DEF T
  <2>3. Seq(Word) \subseteq T
    BY <2>1, <2>2, SeqInductive
  <2> QED BY <1>1, <2>3 DEF T, Text
<1>2. ASSUME NEW s \in Text PROVE KeyMap(TrimLeft(s, " ")) = KeyMap(s)
  <2>1. PICK p \in Text, r \in Text : Filled(p, " ") /\ r = TrimLeft(s, " ") /\ s = p \o r
    BY LeftParts
  <2>2. KeyMap(p) = <<>> /\ KeyMap(r) \in Text
    <3>1. KeyMap(p) = <<>>
      BY <1>1, <2>1
    <3> QED BY <3>1, KeyMapNext
  <2>3. KeyMap(s) = KeyMap(p) \o KeyMap(r)
    <3>1. KeyMap(p \o r) = KeyMap(p) \o KeyMap(r)
      BY KeyMapNext
    <3> QED BY <2>1, <3>1
  <2> QED BY <2>1, <2>2, <2>3, Join
<1>3. ASSUME NEW s \in Text PROVE KeyMap(TrimSpace(s)) = KeyMap(s)
  <2>1. PICK t \in Text : t = TrimLeft(s, " ")
    BY TrimLeftIs
  <2>2. PICK q \in Text, r \in Text : Filled(q, " ") /\ r = TrimRight(t, " ") /\ t = r \o q
    BY RightParts
  <2>3. KeyMap(q) = <<>> /\ KeyMap(r) \in Text
    <3>1. KeyMap(q) = <<>>
      BY <1>1, <2>2
    <3> QED BY <3>1, KeyMapNext
  <2>4. KeyMap(t) = KeyMap(r) \o KeyMap(q)
    <3>1. KeyMap(r \o q) = KeyMap(r) \o KeyMap(q)
      BY KeyMapNext
    <3> QED BY <2>2, <3>1
  <2>5. KeyMap(t) = KeyMap(r)
    BY <2>3, <2>4, Join
  <2>6. r = TrimSpace(s)
    BY <2>1, <2>2 DEF TrimSpace
  <2> QED BY <1>2, <2>1, <2>5, <2>6
<1> QED BY <1>1, <1>2, <1>3

LEMMA KeyMapWithout ==
  ASSUME NEW mark \in {"_", "*"}
  PROVE  \A s \in Text : KeyMap(Without(s, mark)) = KeyMap(s)
<1> DEFINE T == {s \in Text : KeyMap(Without(s, mark)) = KeyMap(s)}
<1>1. <<>> \in T
  BY WithoutNext, Join
<1>2. ASSUME NEW s \in Seq(Word), NEW x \in Word, s \in T PROVE Append(s, x) \in T
  <2>1. PICK u \in Text : u = <<x>>
    BY ShortTexts
  <2>2. s \in Text /\ Append(s, x) \in Text
    BY AppendProperties DEF Text
  <2>3. PICK wo \in Text : wo = Without(s, mark) /\ KeyMap(wo) = KeyMap(s)
    BY <1>2, <2>2, WithoutNext
  <2>4. KeyMap(Append(s, x)) = KeyMap(s) \o KeyItem[x] /\ KeyMap(s) \in Text
    BY <2>2, KeyMapNext
  <2>5. CASE x = mark
    <3>1. Without(Append(s, x), mark) = wo \o <<>> /\ wo \o <<>> = wo
      BY <2>2, <2>3, <2>5, WithoutNext, Join
    <3>2. KeyItem[x] = <<>>
      BY <2>5, KeyItemIs
    <3>3. KeyMap(s) \o <<>> = KeyMap(s)
      BY <2>4, Join
    <3> QED BY <2>2, <2>3, <2>4, <3>1, <3>2, <3>3
  <2>6. CASE x # mark
    <3>1. Without(Append(s, x), mark) = wo \o u
      BY <2>1, <2>2, <2>3, <2>6, WithoutNext
    <3>2. KeyMap(wo \o u) = KeyMap(wo) \o KeyMap(u) /\ KeyMap(u) = KeyItem[x]
      BY <2>1, KeyMapNext
    <3> QED BY <2>2, <2>3, <2>4, <3>1, <3>2
  <2> QED BY <2>5, <2>6
<1> HIDE DEF T
<1>3. Seq(Word) \subseteq T
  BY <1>1, <1>2, SeqInductive
<1> QED BY <1>3 DEF T, Text

LEMMA KeyMapUnstressed == \A s \in Text : KeyMap(Unstressed(s)) = KeyMap(s)
<1> SUFFICES ASSUME NEW s \in Text PROVE KeyMap(Unstressed(s)) = KeyMap(s)
  OBVIOUS
<1>1. PICK a \in Text : a = Without(s, "_")
  BY WithoutNext
<1>2. KeyMap(Without(a, "*")) = KeyMap(a) /\ KeyMap(a) = KeyMap(s)
  BY <1>1, KeyMapWithout
<1> QED BY <1>1, <1>2 DEF Unstressed

\* normalizeKey, after trimming.
Spelt(t) == ReplaceAll(ToLower(t), " ", "_")
SpeltWord(x) == IF Lower(x) = " " THEN "_" ELSE Lower(x)

LEMMA SpeltNext ==
  /\ Spelt(<<>>) = <<>>
  /\ \A t \in Text : Spelt(t) \in Text
  /\ \A t \in Text, x \in Word : SpeltWord(x) \in Word /\ Spelt(Append(t, x)) = Spelt(t) \o <<SpeltWord(x)>>
<1> DEFINE item == [x \in Word |-> IF x = " " THEN <<"_">> ELSE <<x>>]
<1>1. item \in [Word -> Text]
  <2>1. "_" \in Word /\ \A x \in Word : <<x>> \in Text
    BY ShortTexts, MarksAreWords
  <2> QED BY <2>1
<1>2. \A s \in Text : ReplaceAll(s, " ", "_") = MapFlat(item, s)
  <2>1. PICK un \in Word : un = "_"
    BY MarksAreWords
  <2> QED BY <2>1, ReplaceIsMapFlat
<1>3. ASSUME NEW x \in Word PROVE SpeltWord(x) \in Word /\ item[Lower(x)] = <<SpeltWord(x)>>
  <2>1. Lower(x) \in Word /\ "_" \in Word
    BY LowerIs, MarksAreWords
  <2> QED BY <2>1 DEF SpeltWord
<1>4. ASSUME NEW t \in Text
      PROVE  /\ ToLower(t) \in Text /\ Len(ToLower(t)) = Len(t)
             /\ \A i \in 1 .. Len(t) : ToLower(t)[i] = Lower(t[i])
  <2>1. DOMAIN t = 1 .. Len(t) /\ Len(t) \in Nat /\ \A i \in 1 .. Len(t) : t[i] \in Word
    BY DEF Text
  <2>2. ToLower(t) = [i \in 1 .. Len(t) |-> Lower(t[i])]
    BY <2>1 DEF ToLower, Lower
  <2>3. \A i \in 1 .. Len(t) : Lower(t[i]) \in Word
    BY <2>1, LowerIs
  <2> QED BY <2>1, <2>2, <2>3 DEF Text
<1>5. ASSUME NEW t \in Text, NEW x \in Word PROVE ToLower(Append(t, x)) = Append(ToLower(t), Lower(x))
  <2>1. PICK u \in Text : u = Append(t, x)
    BY AppendProperties DEF Text
  <2>2. Len(u) = Len(t) + 1 /\ u[Len(t) + 1] = x /\ Len(t) \in Nat /\ \A i \in 1 .. Len(t) : u[i] = t[i]
    BY <2>1, AppendProperties DEF Text
  <2>3. PICK a \in Text : a = ToLower(t) /\ Len(a) = Len(t) /\ \A i \in 1 .. Len(t) : a[i] = Lower(t[i])
    BY <1>4
  <2>4. PICK b \in Text : b = ToLower(u) /\ Len(b) = Len(u) /\ \A i \in 1 .. Len(u) : b[i] = Lower(u[i])
    BY <1>4
  <2>5. Lower(x) \in Word
    BY LowerIs
  <2>6. PICK c \in Text : /\ c = Append(a, Lower(x)) /\ Len(c) = Len(a) + 1 /\ c[Len(a) + 1] = Lower(x)
                          /\ \A i \in 1 .. Len(a) : c[i] = a[i]
    <3>1. PICK y \in Word : y = Lower(x)
      BY <2>5
    <3>2. /\ Append(a, y) \in Text /\ Len(Append(a, y)) = Len(a) + 1 /\ Append(a, y)[Len(a) + 1] = y
          /\ \A i \in 1 .. Len(a) : Append(a, y)[i] = a[i]
      BY AppendProperties DEF Text
    <3> QED BY <3>1, <3>2
  <2>7. \A i \in 1 .. Len(t) + 1 : b[i] = c[i]
    <3> SUFFICES ASSUME NEW i \in 1 .. Len(t) + 1 PROVE b[i] = c[i]
      OBVIOUS
    <3>1. CASE i = Len(t) + 1
      BY <2>2, <2>3, <2>4, <2>6, <3>1
    <3>2. CASE i # Len(t) + 1
      <4>1. i \in 1 .. Len(t)
        BY <2>2, <3>2
      <4> QED BY <2>2, <2>3, <2>4, <2>6, <4>1
    <3> QED BY <3>1, <3>2
  <2>8. b = c
    BY <2>2, <2>3, <2>4, <2>6, <2>7, SeqEqual DEF Text
  <2> QED BY <2>1, <2>3, <2>4, <2>6, <2>8
<1> HIDE DEF item
<1>6. Spelt(<<>>) = <<>>
  <2>1. PICK e \in Text : e = <<>>
    BY Join
  <2>2. ToLower(e) = e
    BY <2>1 DEF ToLower
  <2>3. MapFlat(item, e) = e
    BY <1>1, <2>1, MapFlatNext
  <2> QED BY <1>2, <2>1, <2>2, <2>3 DEF Spelt
<1>7. ASSUME NEW t \in Text PROVE Spelt(t) \in Text
  <2>1. PICK a \in Text : a = ToLower(t)
    BY <1>4
  <2>2. MapFlat(item, a) \in Text
    BY <1>1, MapFlatNext DEF Text
  <2> QED BY <1>2, <2>1, <2>2 DEF Spelt
<1>8. ASSUME NEW t \in Text, NEW x \in Word PROVE Spelt(Append(t, x)) = Spelt(t) \o <<SpeltWord(x)>>
  <2>1. PICK a \in Text, y \in Word : a = ToLower(t) /\ y = Lower(x)
    BY <1>4, LowerIs
  <2>2. Append(a, y) \in Text /\ ToLower(Append(t, x)) = Append(a, y)
    BY <1>5, <2>1, AppendProperties DEF Text
  <2>3. MapFlat(item, Append(a, y)) = MapFlat(item, a) \o item[y]
    BY <1>1, MapFlatNext DEF Text
  <2> QED BY <1>2, <1>3, <2>1, <2>2, <2>3 DEF Spelt
<1> QED BY <1>3, <1>6, <1>7, <1>8

\* The stored key says what the key says.
LEMMA SpeltSays ==
  \A t \in Text : Unstressed(Spelt(t)) = KeyMap(t) /\ KeyMap(Spelt(t)) = KeyMap(t)
<1> DEFINE T == {t \in Text : Unstressed(Spelt(t)) = KeyMap(t) /\ KeyMap(Spelt(t)) = KeyMap(t)}
<1>1. <<>> \in T
  BY SpeltNext, UnstressedIs, KeyMapNext, Join
<1>2. ASSUME NEW t \in Seq(Word), NEW x \in Word, t \in T PROVE Append(t, x) \in T
  <2>1. t \in Text /\ Append(t, x) \in Text
    BY AppendProperties DEF Text
  <2>2. PICK s \in Text, y \in Word : s = Spelt(t) /\ y = SpeltWord(x)
    BY <2>1, SpeltNext
  <2>3. PICK u \in Text : u = <<y>>
    BY ShortTexts
  <2>4. Spelt(Append(t, x)) = s \o u
    BY <2>1, <2>2, <2>3, SpeltNext
  <2>5. Unstressed(s \o u) = Unstressed(s) \o Unstressed(u) /\ KeyMap(s \o u) = KeyMap(s) \o KeyMap(u)
    BY UnstressedIs, KeyMapNext
  <2>6. KeyMap(Append(t, x)) = KeyMap(t) \o KeyItem[x]
    BY <2>1, KeyMapNext
  <2>7. KeyMap(u) = KeyItem[y]
    BY <2>3, KeyMapNext
  <2>8. Unstressed(u) = KeyItem[x] /\ KeyItem[y] = KeyItem[x]
    <3>1. PICK z \in Word : z = Lower(x) /\ Lower(z) = z
      BY LowerIs
    <3>2. CASE z \in {" ", "_", "*"}
      <4>1. y \in {"_", "*"}
        BY <2>2, <3>1, <3>2 DEF SpeltWord
      <4>2. KeyItem[x] = <<>> /\ KeyItem[y] = <<>>
        BY <3>1, <3>2, <4>1, KeyItemIs
      <4>3. Unstressed(u) = <<>>
        BY <2>3, <4>1, UnstressedOne
      <4> QED BY <4>2, <4>3
    <3>3. CASE z \notin {" ", "_", "*"}
      <4>1. y = z
        BY <2>2, <3>1, <3>3 DEF SpeltWord
      <4>2. KeyItem[x] = <<z>> /\ KeyItem[y] = <<z>>
        BY <3>1, <3>3, <4>1, KeyItemIs
      <4>3. y # "_" /\ y # "*"
        BY <3>3, <4>1
      <4>4. Unstressed(u) = u
        BY <2>3, <4>3, UnstressedOne
      <4> QED BY <2>3, <4>1, <4>2, <4>4
    <3> QED BY <3>2, <3>3
  <2> QED BY <1>2, <2>1, <2>2, <2>4, <2>5, <2>6, <2>7, <2>8
<1> HIDE DEF T
<1>3. Seq(Word) \subseteq T
  BY <1>1, <1>2, SeqInductive
<1> QED BY <1>3 DEF T, Text

\* A key whose words are in small letters.
Keyed(key) == key \in Text /\ KeyMap(key) = Unstressed(key)

LEMMA NormalizeKeySays ==
  ASSUME NEW s \in Text
  PROVE  /\ Keyed(normalizeKey(s)) /\ KeyMap(normalizeKey(s)) = KeyMap(s)
         /\ Bare(normalizeKey(s)) = TrimSpace(KeyMap(s))
<1>1. PICK t \in Text : t = TrimSpace(s) /\ KeyMap(t) = KeyMap(s)
  BY TrimSpaceIs, KeyMapBlanks
<1>2. normalizeKey(s) = Spelt(t)
  BY <1>1 DEF normalizeKey, Spelt
<1>3. Unstressed(Spelt(t)) = KeyMap(t) /\ KeyMap(Spelt(t)) = KeyMap(t) /\ Spelt(t) \in Text
  BY SpeltSays, SpeltNext
<1> QED BY <1>1, <1>2, <1>3 DEF Keyed, Bare

LEMMA KeyedBare ==
  /\ \A k : Keyed(k) => Bare(normalizeKey(k)) = Bare(k)
  /\ \A s \in Text : Bare(normalizeKey(normalizeKey(s))) = Bare(normalizeKey(s))
<1>1. ASSUME NEW k, Keyed(k) PROVE Bare(normalizeKey(k)) = Bare(k)
  <2>1. k \in Text /\ KeyMap(k) = Unstressed(k)
    BY <1>1 DEF Keyed
  <2>2. Bare(normalizeKey(k)) = TrimSpace(KeyMap(k))
    BY <2>1, NormalizeKeySays
  <2> QED BY <2>1, <2>2 DEF Bare
<1>2. \A s \in Text : Keyed(normalizeKey(s))
  BY NormalizeKeySays
<1> QED BY <1>1, <1>2

\* Keys that say the same before a colon are stored as the same.
LEMMA SameKey ==
  ASSUME NEW a \in Text, NEW k \in Text, TrimLeft(Unstressed(a), " ") = TrimLeft(Unstressed(k), " ")
  PROVE  Bare(normalizeKey(normalizeKey(a))) = Bare(normalizeKey(k))
<1>1. \A s \in Text : KeyMap(TrimLeft(Unstressed(s), " ")) = KeyMap(s)
  <2> SUFFICES ASSUME NEW s \in Text PROVE KeyMap(TrimLeft(Unstressed(s), " ")) = KeyMap(s)
    OBVIOUS
  <2>1. PICK u \in Text : u = Unstressed(s)
    BY UnstressedIs
  <2> QED BY <2>1, KeyMapBlanks, KeyMapUnstressed
<1>2. KeyMap(a) = KeyMap(k)
  BY <1>1
<1>3. Bare(normalizeKey(a)) = TrimSpace(KeyMap(a)) /\ Bare(normalizeKey(k)) = TrimSpace(KeyMap(k))
  BY NormalizeKeySays
<1> QED BY <1>2, <1>3, KeyedBare

LEMMA FlatKeyKeyed == \A path \in Seq(Text) : Keyed(FlatKey(path))
<1> SUFFICES ASSUME NEW path \in Seq(Text) PROVE Keyed(FlatKey(path))
  OBVIOUS
<1>1. PICK f : StagesOf(f, Len(path), Text, <<>>, KeyStep(path)) /\ FlatKey(path) = f[Len(path)]
  BY FlatKeyStages
<1>2. Keyed(<<>>)
  BY KeyMapNext, UnstressedIs, Join DEF Keyed
<1>3. ASSUME NEW key, Keyed(key), NEW part \in Text PROVE Keyed(Longer(key, part))
  <2>1. PICK n \in Text : n = normalizeKey(part) /\ KeyMap(n) = Unstressed(n)
    BY NormalizeKeySays DEF Keyed
  <2>2. PICK h \in Text : h = (IF key = <<>> THEN key ELSE Append(key, ".")) /\ KeyMap(h) = Unstressed(h)
    <3>1. key \in Text /\ KeyMap(key) = Unstressed(key)
      BY <1>3 DEF Keyed
    <3>2. PICK x \in Word, d \in Text : x = "." /\ d = <<x>>
      BY MarksAreWords, ShortTexts
    <3>3. Append(key, x) = key \o d /\ key \o d \in Text
      <4>1. Append(key, x) = key \o <<x>>
        BY <3>1, JoinOne DEF Text
      <4> QED BY <3>1, <3>2, <4>1, Join
    <3>4. KeyMap(d) = d /\ Unstressed(d) = d
      <4>1. KeyMap(d) = KeyItem[x] /\ KeyItem[x] = <<x>>
        BY <3>2, KeyMapNext, KeyItemIs
      <4>2. x # "_" /\ x # "*"
        BY <3>2
      <4> QED BY <3>2, <4>1, <4>2, UnstressedOne
    <3>5. KeyMap(key \o d) = KeyMap(key) \o KeyMap(d) /\ Unstressed(key \o d) = Unstressed(key) \o Unstressed(d)
      BY <3>1, KeyMapNext, UnstressedIs
    <3> QED BY <3>1, <3>2, <3>3, <3>4, <3>5
  <2>3. KeyMap(h \o n) = KeyMap(h) \o KeyMap(n) /\ Unstressed(h \o n) = Unstressed(h) \o Unstressed(n) /\ h \o n \in Text
    BY KeyMapNext, UnstressedIs, Join
  <2> QED BY <2>1, <2>2, <2>3 DEF Keyed, Longer
<1> DEFINE T == {k \in Nat : k <= Len(path) => Keyed(f[k])}
<1>4. 0 \in T
  BY <1>1, <1>2 DEF StagesOf
<1>5. ASSUME NEW n \in Nat, n \in T PROVE n + 1 \in T
  <2> SUFFICES ASSUME n + 1 <= Len(path) PROVE Keyed(f[n + 1])
    OBVIOUS
  <2>1. n + 1 \in 1 .. Len(path) /\ (n + 1) - 1 = n /\ n \in 0 .. Len(path)
    OBVIOUS
  <2>2. f[n + 1] = KeyStep(path)[n + 1][f[n]] /\ f[n] \in Text
    BY <1>1, <2>1 DEF StagesOf
  <2>3. f[n + 1] = Longer(f[n], path[n + 1]) /\ path[n + 1] \in Text
    BY <2>1, <2>2 DEF KeyStep
  <2>4. Keyed(f[n])
    BY <1>5, <2>1
  <2> QED BY <1>3, <2>3, <2>4
<1> HIDE DEF T
<1>6. Nat \subseteq T
  BY <1>4, <1>5, Inductive
<1>7. Len(path) \in Nat
  OBVIOUS
<1> QED BY <1>1, <1>6, <1>7 DEF T

(* What a line may be read as *)

\* A field under its key, whatever marks are in either.
Of(field, key, value) ==
  /\ Bare(normalizeKey(field.key)) = Bare(normalizeKey(key))
  /\ Bare(field.value) = Bare(value)

\* Stripped, the line says the key and the value and nothing before them.
Tells(raw, field) ==
  /\ raw \in Text
  /\ \E b \in Text : /\ Bare(stripMarkdownNoise(raw)) = Bare(Worded(field.key, b))
                     /\ Bare(b) = Bare(field.value)

LEMMA FirstIsFirst ==
  ASSUME NEW s \in Text, NEW mark, FirstIs(s, mark) # 0
  PROVE  /\ FirstIs(s, mark) \in 1 .. Len(s) /\ s[FirstIs(s, mark)] = mark
         /\ \A j \in 1 .. FirstIs(s, mark) - 1 : s[j] # mark
<1> DEFINE I == {j \in 1 .. Len(s) : s[j] = mark}
<1>0. PICK i : i = FirstIs(s, mark)
  OBVIOUS
<1>1. i = IF I # {} THEN Min(I) ELSE 0
  BY <1>0 DEF FirstIs, SelectInSeq
<1>2. Len(s) \in Nat
  BY DEF Text
<1>3. I # {} /\ I \in SUBSET Nat
  BY <1>0, <1>1
<1>4. i \in I /\ \A j \in I : i <= j
  <2> HIDE DEF I
  <2> QED BY <1>1, <1>3, MinOfNats
<1>5. \A j \in 1 .. i - 1 : j \in 1 .. Len(s) /\ ~ (i <= j)
  BY <1>2, <1>4
<1> QED BY <1>0, <1>4, <1>5

\* A line with a colon says what is before the first under what is after it.
LEMMA WordedAtColon ==
  ASSUME NEW s \in Text, NEW i, i = FirstIs(s, ":"), i # 0
  PROVE  /\ SubSeq(s, 1, i - 1) \in Text /\ SubSeq(s, i + 1, Len(s)) \in Text
         /\ s = Worded(SubSeq(s, 1, i - 1), SubSeq(s, i + 1, Len(s)))
         /\ Lacks(SubSeq(s, 1, i - 1), ":")
<1>1. PICK n \in Nat : n = Len(s)
  BY DEF Text
<1>2. i \in 1 .. n /\ s[i] = ":" /\ \A j \in 1 .. i - 1 : s[j] # ":"
  BY <1>1, FirstIsFirst
<1>3. PICK a \in Text, b \in Text : a = SubSeq(s, 1, i - 1) /\ b = SubSeq(s, i + 1, n)
  <2>1. i \in 0 .. Len(s)
    BY <1>1, <1>2
  <2> QED BY <1>1, <2>1, PartsOfText
<1>4. Len(a) = i - 1 /\ \A j \in 1 .. i - 1 : a[j] = s[j]
  <2>1. \A j \in 1 .. i - 1 : s[j] \in Word
    <3>1. \A j \in 1 .. i - 1 : j \in 1 .. Len(s)
      BY <1>1, <1>2
    <3> QED BY <3>1 DEF Text
  <2>2. PICK m \in Int : m = i - 1 /\ m >= 0
    BY <1>2
  <2>4. /\ Len(SubSeq(s, 1, m)) = IF 1 <= m THEN m - 1 + 1 ELSE 0
        /\ \A j \in 1 .. m - 1 + 1 : SubSeq(s, 1, m)[j] = s[1 + j - 1]
    BY <2>1, <2>2, SubSeqProperties
  <2>3. Len(SubSeq(s, 1, m)) = m /\ \A j \in 1 .. m : SubSeq(s, 1, m)[j] = s[j]
    BY <2>2, <2>4
  <2> QED BY <1>3, <2>2, <2>3
<1>5. Lacks(a, ":")
  BY <1>2, <1>4 DEF Lacks
<1>6. SubSeq(s, i, i) = Sign
  <2>1. SubSeq(s, i, i) = <<s[i]>>
    <3>1. PICK m \in Int : m = i
      BY <1>2
    <3>2. \A j \in m .. m : s[j] \in Word
      BY <1>1, <1>2, <3>1 DEF Text
    <3>3. PICK u : u = SubSeq(s, m, m)
      OBVIOUS
    <3>4. u \in Seq(Word) /\ Len(u) = m - m + 1 /\ \A j \in 1 .. m - m + 1 : u[j] = s[m + j - 1]
      BY <3>1, <3>2, <3>3, SubSeqProperties
    <3>5. m - m + 1 = 1 /\ 1 \in 1 .. 1 /\ m + 1 - 1 = m
      OBVIOUS
    <3>6. Len(u) = 1 /\ u[1] = s[m]
      BY <3>4, <3>5
    <3>7. u = <<u[1]>>
      BY <3>4, <3>6
    <3> QED BY <3>1, <3>3, <3>6, <3>7
  <2> QED BY <1>2, <2>1 DEF Sign
<1>7. SubSeq(s, 1, i - 1) \o SubSeq(s, i, i) = SubSeq(s, 1, i)
  <2>1. PICK l \in Nat, m \in Nat : l = i - 1 /\ m = i /\ l + 1 = i
    BY <1>2
  <2>2. 1 \in 1 .. Len(s) + 1 /\ l \in 1 - 1 .. Len(s) /\ m \in l .. Len(s)
    BY <1>1, <1>2, <2>1
  <2>3. SubSeq(s, 1, l) \o SubSeq(s, l + 1, m) = SubSeq(s, 1, m)
    BY <2>2, ConcatAdjacentSubSeq DEF Text
  <2> QED BY <2>1, <2>3
<1>8. SubSeq(s, 1, i) \o b = s
  <2>1. PICK m \in Nat : m = i /\ m <= n
    BY <1>2
  <2>2. 1 \in 1 .. Len(s) + 1 /\ m \in 1 - 1 .. Len(s) /\ n \in m .. Len(s)
    BY <1>1, <1>2, <2>1
  <2>3. SubSeq(s, 1, m) \o SubSeq(s, m + 1, n) = SubSeq(s, 1, n)
    BY <2>2, ConcatAdjacentSubSeq DEF Text
  <2>4. SubSeq(s, 1, n) = s
    BY <1>1, SubSeqFull DEF Text
  <2> QED BY <1>3, <2>1, <2>3, <2>4
<1> QED BY <1>1, <1>3, <1>5, <1>6, <1>7, <1>8 DEF Worded

LEMMA LacksKept ==
  ASSUME NEW mark
  PROVE  /\ \A s \in Text : Lacks(s, mark) => Lacks(TrimLeft(s, " "), mark)
         /\ \A s \in Text : Lacks(s, mark) => Lacks(Unstressed(s), mark)
<1>1. ASSUME NEW s \in Text, Lacks(s, mark) PROVE Lacks(TrimLeft(s, " "), mark)
  <2>1. PICK p \in Text, r \in Text : r = TrimLeft(s, " ") /\ s = p \o r
    BY LeftParts
  <2>2. Lacks(p \o r, mark) => Lacks(r, mark)
    BY JoinedEnds
  <2> QED BY <1>1, <2>1, <2>2
<1>2. ASSUME NEW other PROVE \A s \in Text : Lacks(s, mark) => Lacks(Without(s, other), mark)
  <2> DEFINE T == {s \in Text : Lacks(s, mark) => Lacks(Without(s, other), mark)}
  <2>1. <<>> \in T
    BY WithoutNext, Join
  <2>2. ASSUME NEW s \in Seq(Word), NEW x \in Word, s \in T PROVE Append(s, x) \in T
    <3>1. PICK u \in Text : u = <<x>>
      BY ShortTexts
    <3>2. s \in Text /\ Append(s, x) = s \o u /\ Append(s, x) \in Text
      <4>1. Append(s, x) = s \o <<x>>
        BY JoinOne
      <4> QED BY <3>1, <4>1, Join DEF Text
    <3>3. PICK wo \in Text : wo = Without(s, other)
      BY <3>2, WithoutNext
    <3>4. Without(Append(s, x), other) = wo \o (IF x = other THEN <<>> ELSE u)
      BY <3>1, <3>2, <3>3, WithoutNext
    <3>5. wo \o <<>> = wo
      BY Join
    <3>6. ASSUME Lacks(s \o u, mark) PROVE Lacks(Without(Append(s, x), other), mark)
      <4>1. Lacks(s, mark) /\ Lacks(u, mark)
        BY <3>2, <3>6, JoinedEnds
      <4>2. Lacks(wo, mark)
        BY <2>2, <3>3, <4>1
      <4>3. Lacks(wo \o u, mark)
        BY <4>1, <4>2, JoinedEnds
      <4> QED BY <3>4, <3>5, <4>2, <4>3
    <3> QED BY <3>2, <3>6
  <2> HIDE DEF T
  <2>3. Seq(Word) \subseteq T
    BY <2>1, <2>2, SeqInductive
  <2> QED BY <2>3 DEF T, Text
<1>3. ASSUME NEW s \in Text, Lacks(s, mark) PROVE Lacks(Unstressed(s), mark)
  <2>1. PICK a \in Text : a = Without(s, "_")
    BY WithoutNext
  <2>2. Lacks(a, mark)
    BY <1>2, <1>3, <2>1
  <2>3. Lacks(Without(a, "*"), mark)
    BY <1>2, <2>2
  <2> QED BY <2>1, <2>3 DEF Unstressed
<1> QED BY <1>1, <1>3

\* Such a line is left out or read as the field it tells.
LEMMA FieldTold ==
  ASSUME NEW raw, NEW field \in [key : Text, value : Text], Lacks(field.key, ":"), Tells(raw, field)
  PROVE  \A r : \/ TextField(r, raw) = r
                \/ \E key \in Text, value \in Text :
                     Of(field, key, value) /\ TextField(r, raw) = Put(r, key, value)
<1> SUFFICES ASSUME NEW r, TextField(r, raw) # r
             PROVE  \E key \in Text, value \in Text :
                      Of(field, key, value) /\ TextField(r, raw) = Put(r, key, value)
  OBVIOUS
<1>1. PICK k \in Text, v \in Text : k = field.key /\ v = field.value
  OBVIOUS
<1>2. PICK line \in Text : line = stripMarkdownNoise(raw)
  BY StripType DEF Tells
<1>3. PICK b \in Text : Bare(line) = Bare(Worded(k, b)) /\ Bare(b) = Bare(v)
  BY <1>1, <1>2 DEF Tells
<1>4. PICK i : i = FirstIs(line, ":")
  OBVIOUS
<1>5. i # 0
  BY <1>2, <1>4 DEF TextField, FirstIs
<1>6. PICK a \in Text, c \in Text :
        /\ a = SubSeq(line, 1, i - 1) /\ c = SubSeq(line, i + 1, Len(line))
        /\ line = Worded(a, c) /\ Lacks(a, ":")
  BY <1>4, <1>5, WordedAtColon
<1>7. PICK key \in Text, value \in Text : key = normalizeKey(a) /\ value = TrimSpace(c)
  BY NormalizeKeyIs, TrimSpaceIs
<1>8. TextField(r, raw) = Put(r, key, value)
  BY <1>2, <1>4, <1>5, <1>6, <1>7 DEF TextField, FirstIs
<1>9. PICK ta \in Text, tk \in Text, tb \in Text, tc \in Text :
        /\ ta = TrimLeft(Unstressed(a), " ") /\ tk = TrimLeft(Unstressed(k), " ")
        /\ tb = TrimRight(Unstressed(b), " ") /\ tc = TrimRight(Unstressed(c), " ")
  <2>1. /\ Unstressed(a) \in Text /\ Unstressed(k) \in Text
        /\ Unstressed(b) \in Text /\ Unstressed(c) \in Text
    BY UnstressedIs
  <2> QED BY <2>1, TrimLeftIs, TrimRightIs
<1>10. Lacks(ta, ":") /\ Lacks(tk, ":")
  <2>1. Lacks(k, ":")
    BY <1>1
  <2>2. /\ Unstressed(a) \in Text /\ Lacks(Unstressed(a), ":")
        /\ Unstressed(k) \in Text /\ Lacks(Unstressed(k), ":")
    BY <1>6, <2>1, UnstressedIs, LacksKept
  <2> QED BY <1>9, <2>2, LacksKept
<1>11. Worded(ta, tc) = Worded(tk, tb)
  <2>1. Bare(Worded(a, c)) = Worded(ta, tc) /\ Bare(Worded(k, b)) = Worded(tk, tb)
    BY <1>9, BareWorded
  <2> QED BY <1>3, <1>6, <2>1
<1>12. ta = tk /\ tc = tb
  BY <1>10, <1>11, WordedOnce
<1>13. \A s \in Text : TrimSpace(TrimRight(Unstressed(s), " ")) = Bare(s)
  <2> SUFFICES ASSUME NEW s \in Text PROVE TrimSpace(TrimRight(Unstressed(s), " ")) = Bare(s)
    OBVIOUS
  <2>1. PICK u \in Text : u = Unstressed(s)
    BY UnstressedIs
  <2>2. PICK q \in Text, t \in Text : Filled(q, " ") /\ t = TrimRight(u, " ") /\ u = t \o q
    BY RightParts
  <2>3. TrimSpace(t \o q) = TrimSpace(t)
    BY <2>2, TrimSpaceJoin
  <2> QED BY <2>1, <2>2, <2>3 DEF Bare
<1>14. Bare(c) = Bare(b)
  BY <1>9, <1>12, <1>13
<1>15. Bare(value) = Bare(c)
  BY <1>7, BareIs
<1>16. Bare(normalizeKey(key)) = Bare(normalizeKey(k))
  BY <1>7, <1>9, <1>12, SameKey
<1>17. Of(field, key, value)
  BY <1>1, <1>3, <1>14, <1>15, <1>16 DEF Of
<1> QED BY <1>8, <1>17

\* The lines that a field is written on.
LEMMA UnledWorded ==
  ASSUME NEW k \in Text, NEW b \in Text, Unled(k)
  PROVE  Unled(Worded(k, b))
<1>1. PICK tk \in Text, tb \in Text :
        tk = TrimLeft(Unstressed(k), " ") /\ tb = TrimRight(Unstressed(b), " ")
  BY UnstressedIs, TrimLeftIs, TrimRightIs
<1>2. Worded(k, b) \in Text /\ Bare(Worded(k, b)) = (tk \o Sign) \o tb
  BY <1>1, BareWorded DEF Worded
<1>3. Bare(k) = TrimRight(tk, " ")
  BY <1>1 DEF Bare, TrimSpace
<1>4. PICK g \in Text : g = Sign /\ g # <<>> /\ g[1] = ":"
  BY SignsAreText, MarksAreWords, ShortTexts DEF Sign
<1>5. PICK h \in Text : h = tk \o g /\ h # <<>>
  BY <1>4, JoinedEnds
<1>6. h \o tb # <<>> /\ (h \o tb)[1] = h[1]
  BY <1>5, JoinedEnds
<1>7. CASE tk = <<>>
  <2>1. h[1] = ":"
    BY <1>4, <1>5, <1>7, Join
  <2>2. ~ Starts(h \o tb, "-") /\ ~ Starts(h \o tb, "#")
    BY <1>6, <2>1 DEF Starts
  <2> QED BY <1>2, <1>4, <1>5, <2>2, UnledIs
<1>8. CASE tk # <<>>
  <2>1. tk[1] # " "
    BY <1>1, <1>8, UnstressedIs, TrimLeftIs
  <2>2. h[1] = tk[1]
    BY <1>5, <1>8, JoinedEnds
  <2>3. TrimRight(tk, " ") # <<>>
    <3>1. PICK q \in Text, t \in Text : Filled(q, " ") /\ t = TrimRight(tk, " ") /\ tk = t \o q
      BY RightParts
    <3>2. CASE t = <<>>
      <4>1. tk = q
        BY <3>1, <3>2, Join
      <4>2. Len(q) \in Nat /\ Len(q) # 0
        BY <1>8, <4>1, EmptySeq DEF Text
      <4>3. 1 \in 1 .. Len(q)
        BY <4>2
      <4> QED BY <2>1, <3>1, <4>1, <4>3 DEF Filled
    <3> QED BY <3>1, <3>2
  <2>4. TrimRight(tk, " ")[1] = tk[1]
    BY <2>3, TrimRightIs
  <2>5. Bare(k) # <<>> /\ Bare(k)[1] = tk[1]
    BY <1>3, <2>3, <2>4
  <2>6. ~ Starts(Bare(k), "-") /\ ~ Starts(Bare(k), "#")
    BY UnledIs
  <2>7. tk[1] # "-" /\ tk[1] # "#"
    BY <2>5, <2>6 DEF Starts
  <2>8. ~ Starts(h \o tb, "-") /\ ~ Starts(h \o tb, "#")
    BY <1>6, <2>2, <2>7 DEF Starts
  <2> QED BY <1>2, <1>4, <1>5, <2>8, UnledIs
<1> QED BY <1>7, <1>8

\* Every line that a field is written on tells it.
LEMMA FieldTells ==
  ASSUME NEW field \in Fields, Unled(field.key)
  PROVE  /\ Tells(Stated(field), field) /\ Tells(Close(field), field)
         /\ Tells(Bullet \o Stated(field), field) /\ Tells(Title \o Stated(field), field)
         /\ Tells(Starred(field), field)
<1>1. PICK k \in Text, v \in Text : k = field.key /\ v = field.value
  BY DEF Fields
<1>2. PICK blank \in Text : blank = <<" ">> /\ Filled(blank, " ")
  BY MarksAreWords, ShortTexts, FilledShort
<1>3. PICK b \in Text : b = blank \o v /\ Bare(b) = Bare(v)
  <2>1. blank \o v \in Text /\ Bare(blank \o v) = Bare(v)
    BY <1>2, Join, BareIs
  <2> QED BY <2>1
<1>4. PICK c \in Text : c = Close(field) /\ c = Worded(k, v)
  BY <1>1, BareWorded DEF Close, Worded
<1>5. PICK s \in Text : s = Stated(field) /\ s = Worded(k, b) /\ s = (k \o Gap) \o v
  <2>1. PICK g \in Text : g = Sign /\ Gap = g \o blank
    BY <1>2, SignsAreText
  <2>2. PICK kg \in Text : kg = k \o g
    BY Join
  <2>3. AssocOf(k, g, blank) /\ AssocOf(kg, blank, v)
    BY Assoc
  <2>4. (k \o Gap) \o v = (k \o g) \o (blank \o v)
    BY <2>1, <2>2, <2>3 DEF AssocOf
  <2>5. Worded(k, b) = (k \o Gap) \o v
    BY <1>3, <2>1, <2>4 DEF Worded
  <2> QED BY <1>1, <2>5, BareWorded DEF Stated
<1>6. Unled(s) /\ Unled(c)
  BY <1>1, <1>4, <1>5, UnledWorded
<1>7. Tells(s, field)
  <2>1. Bare(stripMarkdownNoise(s)) = Bare(Worded(k, b))
    BY <1>5, <1>6, StripKeeps
  <2> QED BY <1>1, <1>3, <2>1 DEF Tells
<1>8. Tells(c, field)
  <2>1. Bare(stripMarkdownNoise(c)) = Bare(Worded(k, v))
    BY <1>4, <1>6, StripKeeps
  <2> QED BY <1>1, <2>1 DEF Tells
<1>9. Tells(Bullet \o s, field) /\ Tells(Title \o s, field)
  <2>1. Bullet \o s \in Text /\ Title \o s \in Text
    BY BulletsAreText, Join
  <2>2. /\ Bare(stripMarkdownNoise(Bullet \o s)) = Bare(Worded(k, b))
        /\ Bare(stripMarkdownNoise(Title \o s)) = Bare(Worded(k, b))
    BY <1>5, <1>6, StripFronted
  <2> QED BY <1>1, <1>3, <2>1, <2>2 DEF Tells
<1>10. Tells(Starred(field), field)
  <2>1. PICK st \in Text, g \in Text, p \in Text, q \in Text :
          /\ st = Stars /\ g = Gap /\ p = <<"*", " ", "*", "*">> /\ q = <<"*", "*", ":", " ">>
          /\ p = Star \o st /\ q = st \o g
    <3>1. PICK x \in Word, sp \in Word, co \in Word : x = "*" /\ sp = " " /\ co = ":"
      BY MarksAreWords
    <3>2. FourOf(x, sp, x, x) /\ FourOf(x, x, co, sp)
      BY FourWords
    <3>3. PICK st \in Text, g \in Text, p \in Text, q \in Text :
            st = Stars /\ g = Gap /\ p = <<x, sp, x, x>> /\ q = <<x, x, co, sp>>
      BY <3>2, SignsAreText DEF FourOf
    <3>4. Star = <<x, sp>> /\ st = <<x, x>> /\ g = <<co, sp>>
      BY <3>1, <3>3 DEF Stars, Gap, Star
    <3>5. p = Star \o st /\ q = st \o g
      BY <3>2, <3>3, <3>4 DEF FourOf
    <3> QED BY <3>1, <3>3, <3>5
  <2>2. Unstressed(st) = <<>> /\ Unstressed(Star) = blank /\ Star \in Text
    <3>1. PICK x \in Word, sp \in Word, y \in Text : x = "*" /\ sp = " " /\ y = <<x>>
      BY MarksAreWords, ShortTexts
    <3>2. Stars = y \o y /\ Star = y \o blank
      <4>1. <<x, x>> = <<x>> \o <<x>> /\ <<x, sp>> = <<x>> \o <<sp>>
        BY ShortTexts
      <4> QED BY <1>2, <3>1, <4>1 DEF Stars, Star
    <3>3. Unstressed(y) = <<>> /\ Unstressed(blank) = blank
      BY <1>2, <3>1, UnstressedOne
    <3>4. Unstressed(y \o y) = Unstressed(y) \o Unstressed(y)
      BY UnstressedIs
    <3>5. Unstressed(y \o blank) = Unstressed(y) \o Unstressed(blank)
      BY UnstressedIs
    <3>6. <<>> \o <<>> = <<>> /\ <<>> \o blank = blank
      BY Join
    <3> QED BY <2>1, <3>2, <3>3, <3>4, <3>5, <3>6, BulletsAreText
  <2>3. Unstressed(p) = blank /\ Unstressed(q) = Unstressed(g)
    <3>1. Unstressed(Star \o st) = Unstressed(Star) \o Unstressed(st) /\ Unstressed(st \o g) = Unstressed(st) \o Unstressed(g)
      BY <2>2, UnstressedIs
    <3>2. blank \o <<>> = blank /\ <<>> \o Unstressed(g) = Unstressed(g)
      BY UnstressedIs, Join
    <3> QED BY <2>1, <2>2, <3>1, <3>2
  <2>4. PICK pk \in Text, pkq \in Text, raw \in Text :
          pk = p \o k /\ pkq = pk \o q /\ raw = pkq \o v
    BY Join
  <2>5. PICK uk \in Text, ug \in Text, uv \in Text :
          uk = Unstressed(k) /\ ug = Unstressed(g) /\ uv = Unstressed(v)
    BY UnstressedIs
  <2>6. Unstressed(raw) = ((blank \o uk) \o ug) \o uv
    <3>1. Unstressed(pkq \o v) = Unstressed(pkq) \o Unstressed(v)
      BY UnstressedIs
    <3>2. Unstressed(pk \o q) = Unstressed(pk) \o Unstressed(q)
      BY UnstressedIs
    <3>3. Unstressed(p \o k) = Unstressed(p) \o Unstressed(k)
      BY UnstressedIs
    <3> QED BY <2>3, <2>4, <2>5, <3>1, <3>2, <3>3
  <2>7. Unstressed(s) = (uk \o ug) \o uv
    <3>1. PICK kg \in Text : kg = k \o g
      BY Join
    <3>2. Unstressed(kg \o v) = Unstressed(kg) \o Unstressed(v)
      BY UnstressedIs
    <3>3. Unstressed(k \o g) = Unstressed(k) \o Unstressed(g)
      BY UnstressedIs
    <3> QED BY <1>5, <2>1, <2>5, <3>1, <3>2, <3>3
  <2>8. ((blank \o uk) \o ug) \o uv = blank \o ((uk \o ug) \o uv)
    <3>1. PICK ukg \in Text : ukg = uk \o ug
      BY Join
    <3>2. AssocOf(blank, uk, ug) /\ AssocOf(blank, ukg, uv)
      BY Assoc
    <3> QED BY <3>1, <3>2 DEF AssocOf
  <2>9. Bare(raw) = Bare(s)
    <3>1. PICK us \in Text : us = Unstressed(s)
      BY UnstressedIs
    <3>2. Unstressed(raw) = blank \o us
      BY <2>6, <2>7, <2>8, <3>1
    <3>3. TrimSpace(blank \o us) = TrimSpace(us)
      BY <1>2, TrimSpaceJoin
    <3> QED BY <3>1, <3>2, <3>3 DEF Bare
  <2>10. Unled(raw)
    BY <1>6, <2>9, UnledIs
  <2>11. Bare(stripMarkdownNoise(raw)) = Bare(Worded(k, b))
    BY <1>5, <2>9, <2>10, StripKeeps
  <2>12. Starred(field) = raw
    BY <1>1, <2>1, <2>4 DEF Starred
  <2> QED BY <1>1, <1>3, <2>11, <2>12 DEF Tells
<1> QED BY <1>4, <1>5, <1>7, <1>8, <1>9, <1>10

\* A record without a value under another field's key.
Tied(record, table) ==
  \A key \in DOMAIN record : \E i \in 1 .. Len(table) : Of(table[i], key, record[key])

LEMMA TiedPut ==
  /\ \A table : Tied(EmptyRecord, table)
  /\ \A table, record, key, value : \A i \in 1 .. Len(table) :
       Tied(record, table) /\ Of(table[i], key, value) => Tied(Put(record, key, value), table)
<1>1. ASSUME NEW table PROVE Tied(EmptyRecord, table)
  BY DEF Tied, EmptyRecord
<1>2. ASSUME NEW table, NEW record, NEW key, NEW value, NEW i \in 1 .. Len(table),
             Tied(record, table), Of(table[i], key, value)
      PROVE  Tied(Put(record, key, value), table)
  <2>1. DOMAIN Put(record, key, value) = DOMAIN record \cup {key}
    BY DEF Put
  <2>2. \A k \in DOMAIN record \cup {key} :
          Put(record, key, value)[k] = IF k = key THEN value ELSE record[k]
    BY DEF Put
  <2>3. ASSUME NEW k \in DOMAIN record \cup {key}
        PROVE  \E j \in 1 .. Len(table) : Of(table[j], k, Put(record, key, value)[k])
    <3>1. CASE k = key
      BY <1>2, <2>2, <3>1
    <3>2. CASE k # key
      <4>1. k \in DOMAIN record /\ Put(record, key, value)[k] = record[k]
        BY <2>2, <3>2
      <4> QED BY <1>2, <4>1 DEF Tied
    <3> QED BY <3>1, <3>2
  <2> QED BY <2>1, <2>3 DEF Tied
<1> QED BY <1>1, <1>2

\* Lines that tell the fields of a table are read as nothing else.
LEMMA LinesTied ==
  ASSUME NEW table \in Seq(Fields), NEW raws \in Seq(Text), Len(raws) = Len(table),
         \A i \in 1 .. Len(table) : Lacks(table[i].key, ":") /\ Tells(raws[i], table[i])
  PROVE  Tied(ReadLines(raws), table)
<1>1. PICK n \in Nat : n = Len(table) /\ n = Len(raws)
  OBVIOUS
<1>2. PICK f : StagesOf(f, n, Records, EmptyRecord, FieldStep(raws)) /\ ReadLines(raws) = f[n]
  BY <1>1, ReadLinesStages
<1> DEFINE T == {k \in Nat : k <= n => Tied(f[k], table)}
<1>3. 0 \in T
  BY <1>2, TiedPut DEF StagesOf
<1>4. ASSUME NEW k \in Nat, k \in T PROVE k + 1 \in T
  <2> SUFFICES ASSUME k + 1 <= n PROVE Tied(f[k + 1], table)
    OBVIOUS
  <2>1. k + 1 \in 1 .. n /\ (k + 1) - 1 = k /\ k \in 0 .. n /\ k <= n
    OBVIOUS
  <2>2. PICK j \in 1 .. n : j = k + 1
    BY <2>1
  <2>9. PICK r : r = f[k]
    OBVIOUS
  <2>3. r \in Records /\ f[j] = FieldStep(raws)[j][r]
    BY <1>2, <2>1, <2>2, <2>9 DEF StagesOf
  <2>4. f[j] = TextField(r, raws[j])
    BY <1>1, <2>3 DEF FieldStep
  <2>5. Tied(r, table)
    BY <1>4, <2>1, <2>9
  <2>6. PICK field \in Fields : field = table[j] /\ Lacks(field.key, ":") /\ Tells(raws[j], field)
    BY <1>1
  <2>7. \/ TextField(r, raws[j]) = r
        \/ \E key \in Text, value \in Text :
             Of(field, key, value) /\ TextField(r, raws[j]) = Put(r, key, value)
    BY <2>6, FieldTold DEF Fields
  <2>8. ASSUME NEW key \in Text, NEW value \in Text, Of(field, key, value),
               TextField(r, raws[j]) = Put(r, key, value)
        PROVE  Tied(f[j], table)
    <3>1. j \in 1 .. Len(table) /\ Of(table[j], key, value)
      BY <1>1, <2>6, <2>8
    <3>2. Tied(Put(r, key, value), table)
      BY <2>5, <3>1, TiedPut
    <3> QED BY <2>4, <2>8, <3>2
  <2> QED BY <2>2, <2>4, <2>5, <2>7, <2>8
<1> HIDE DEF T
<1>5. Nat \subseteq T
  BY <1>3, <1>4, Inductive
<1> QED BY <1>2, <1>5 DEF T
-----------------------------------------------------------------------------
(* Documents that are scanned line by line *)

AllLack(texts, mark) == \A i \in 1 .. Len(texts) : Lacks(texts[i], mark)

\* A part of a document that is read as one line, and has no marks but those of
\* the line and newlines.
Holds(part, raw) ==
  /\ part \in Text /\ ReadsAs(part, raw)
  /\ \A mark : mark # "\n" /\ Lacks(raw, mark) => Lacks(part, mark)

\* A text that is read as lines, and has no marks but theirs and newlines.
Lays(t, raws) ==
  /\ t \in Text /\ Read(t) = ReadLines(raws)
  /\ \A mark : mark # "\n" /\ AllLack(raws, mark) => Lacks(t, mark)

LEMMA PartsFlat == \A parts \in Seq(Text) : FlattenSeq(parts) \in Text
<1> SUFFICES ASSUME NEW parts \in Seq(Text) PROVE FlattenSeq(parts) \in Text
  OBVIOUS
<1>1. PICK f : /\ Accumulates(f, parts) /\ FlattenSeq(parts) = f[Len(parts)]
               /\ \A k \in 0 .. Len(parts) : f[k] \in Text
  BY Accumulation DEF Text
<1>2. Len(parts) \in 0 .. Len(parts)
  OBVIOUS
<1> QED BY <1>1, <1>2

LEMMA FunctionIsSeq ==
  ASSUME NEW A, NEW n \in Nat, NEW s \in [1 .. n -> A]
  PROVE  s \in Seq(A) /\ Len(s) = n
OBVIOUS

\* A document of d empty parts and a part to each line, after a blank lead.
LEMMA PartsLaid ==
  ASSUME NEW lead, Ends(lead), Read(lead) = EmptyRecord, \A mark : mark # "\n" => Lacks(lead, mark),
         NEW d \in Nat, NEW raws \in Seq(Text), NEW parts,
         parts = [j \in 1 .. d + Len(raws) |-> parts[j]],
         \A j \in 1 .. d : parts[j] = <<>>,
         \A i \in 1 .. Len(raws) : Holds(parts[d + i], raws[i])
  PROVE  /\ parts \in Seq(Text) /\ Len(parts) = d + Len(raws)
         /\ Lays(lead \o FlattenSeq(parts), raws)
<1>1. PICK n \in Nat : n = Len(raws)
  OBVIOUS
<1>2. <<>> \in Text /\ \A mark : Lacks(<<>>, mark)
  BY Join DEF Lacks
<1>3. ASSUME NEW j \in 1 .. d + n
      PROVE  /\ parts[j] \in Text
             /\ \A mark : mark # "\n" /\ AllLack(raws, mark) => Lacks(parts[j], mark)
  <2>1. CASE j <= d
    <3>1. j \in 1 .. d
      BY <2>1
    <3>2. parts[j] = <<>>
      BY <3>1
    <3> QED BY <1>2, <3>2
  <2>2. CASE ~ (j <= d)
    <3>1. PICK i \in 1 .. n : j = d + i
      <4>1. j - d \in 1 .. n /\ j = d + (j - d)
        BY <2>2
      <4> QED BY <4>1
    <3>2. Holds(parts[j], raws[i])
      BY <1>1, <3>1
    <3> QED BY <1>1, <3>2 DEF Holds, AllLack
  <2> QED BY <2>1, <2>2
<1>4. parts \in Seq(Text) /\ Len(parts) = d + n
  <2>1. parts = [j \in 1 .. d + n |-> parts[j]] /\ d + n \in Nat
    BY <1>1
  <2>2. parts \in [1 .. d + n -> Text]
    BY <1>3, <2>1
  <2> QED BY <2>1, <2>2, FunctionIsSeq
<1>5. ReadAsLines(parts, d, raws)
  <2>1. \A i \in 1 .. Len(raws) : ReadsAs(parts[d + i], raws[i])
    BY DEF Holds
  <2> QED BY <1>1, <1>4, <2>1 DEF ReadAsLines
<1>6. PICK t \in Text : t = FlattenSeq(parts)
  BY <1>4, PartsFlat
<1>7. Read(lead \o t) = ReadLines(raws)
  BY <1>5, <1>6, PartsRead
<1>8. lead \o t \in Text
  BY <1>6, Join DEF Ends
<1>9. ASSUME NEW mark, mark # "\n", AllLack(raws, mark) PROVE Lacks(lead \o t, mark)
  <2>1. \A j \in 1 .. Len(parts) : Lacks(parts[j], mark)
    BY <1>3, <1>4, <1>9
  <2>2. Lacks(t, mark)
    BY <1>4, <1>6, <2>1, FlattenLacks
  <2>3. lead \in Text /\ Lacks(lead, mark)
    BY <1>9 DEF Ends
  <2> QED BY <2>2, <2>3, JoinedEnds
<1> QED BY <1>1, <1>4, <1>6, <1>7, <1>8, <1>9 DEF Lays

\* The parser of text gives up on such a text, or reads its lines.
LEMMA LaidParsed ==
  ASSUME NEW raws, NEW t, Lays(t, raws)
  PROVE  /\ ParseText(t) = Failed \/ ParseText(t) = ReadLines(raws)
         /\ AllLack(raws, "64K") => ParseText(t) = ReadLines(raws)
<1>1. t \in Text /\ Read(t) = ReadLines(raws)
  BY DEF Lays
<1>2. ParseText(t) = IF "64K" \in ToSet(t) THEN Failed ELSE Read(t)
  BY DEF ParseText, Read, ReadLines
<1>3. ASSUME AllLack(raws, "64K") PROVE "64K" \notin ToSet(t)
  <2>1. Lacks(t, "64K")
    BY <1>3 DEF Lays
  <2>2. DOMAIN t = 1 .. Len(t)
    BY <1>1, TextDomain
  <2> QED BY <2>1, <2>2 DEF Lacks, ToSet
<1> QED BY <1>1, <1>2, <1>3

\* A line with its newline.
LEMMA EndedLine ==
  ASSUME NEW raw \in Text, Lacks(raw, "\n")
  PROVE  Append(raw, "\n") = raw \o <<"\n">> /\ Holds(Append(raw, "\n"), raw)
<1>1. PICK nl \in Word : nl = "\n" /\ <<nl>> \in Text /\ \A mark : nl # mark => Lacks(<<nl>>, mark)
  BY MarksAreWords, OneLacks, ShortTexts
<1>2. Append(raw, nl) = raw \o <<nl>>
  BY <1>1, JoinOne DEF Text
<1>3. raw \o <<nl>> \in Text /\ \A mark : nl # mark /\ Lacks(raw, mark) => Lacks(raw \o <<nl>>, mark)
  BY <1>1, JoinedEnds
<1>4. ReadsAs(Append(raw, "\n"), raw)
  BY LineReads
<1> QED BY <1>1, <1>2, <1>3, <1>4 DEF Holds

\* Blank lines around a part.
LEMMA BlankHolds ==
  ASSUME NEW part, NEW raw, Holds(part, raw)
  PROVE  Holds(<<"\n">> \o part, raw) /\ Holds(part \o <<"\n">>, raw)
<1>1. PICK nl \in Word : nl = "\n" /\ <<nl>> \in Text /\ \A mark : nl # mark => Lacks(<<nl>>, mark)
  BY MarksAreWords, OneLacks, ShortTexts
<1>2. part \in Text /\ ReadsAs(part, raw) /\ \A mark : nl # mark /\ Lacks(raw, mark) => Lacks(part, mark)
  BY <1>1 DEF Holds
<1>3. /\ <<nl>> \o part \in Text /\ part \o <<nl>> \in Text
      /\ \A mark : Lacks(<<nl>>, mark) /\ Lacks(part, mark)
                     => Lacks(<<nl>> \o part, mark) /\ Lacks(part \o <<nl>>, mark)
  BY <1>1, <1>2, JoinedEnds
<1>4. ReadsAs(<<"\n">> \o part, raw) /\ ReadsAs(part \o <<"\n">>, raw)
  BY <1>2, BlankReads
<1> QED BY <1>1, <1>2, <1>3, <1>4 DEF Holds

Ruled(raws) == raws \in Seq(Text) /\ AllLack(raws, "\n")

\* A text of lines that each end with a newline.
Ended(raws) == [i \in 1 .. Len(raws) |-> Append(raws[i], "\n")]

LEMMA EmptyLead ==
  Ends(<<>>) /\ Read(<<>>) = EmptyRecord /\ \A mark : mark # "\n" => Lacks(<<>>, mark)
BY StartReads DEF Lacks

LEMMA NewlineLead ==
  Ends(<<"\n">>) /\ Read(<<"\n">>) = EmptyRecord /\ \A mark : mark # "\n" => Lacks(<<"\n">>, mark)
<1>1. PICK nl \in Word : nl = "\n" /\ \A mark : nl # mark => Lacks(<<nl>>, mark)
  BY MarksAreWords, OneLacks
<1> QED BY <1>1, StartReads

LEMMA EndedLaid ==
  ASSUME NEW raws, Ruled(raws)
  PROVE  /\ Ended(raws) \in Seq(Text) /\ Len(Ended(raws)) = Len(raws)
         /\ Lays(FlattenSeq(Ended(raws)), raws)
<1>1. PICK n \in Nat : n = Len(raws) /\ \A i \in 1 .. n : raws[i] \in Text /\ Lacks(raws[i], "\n")
  BY DEF Ruled, AllLack
<1>2. PICK parts : parts = Ended(raws)
  OBVIOUS
<1>3. parts = [j \in 1 .. 0 + n |-> parts[j]] /\ \A i \in 1 .. n : parts[0 + i] = Append(raws[i], "\n")
  <2>1. 0 + n = n /\ \A i \in 1 .. n : 0 + i = i
    OBVIOUS
  <2> QED BY <1>1, <1>2, <2>1 DEF Ended
<1>4. \A i \in 1 .. n : Holds(parts[0 + i], raws[i])
  BY <1>1, <1>3, EndedLine
<1>5. PICK lead : lead = <<>> /\ Ends(lead) /\ Read(lead) = EmptyRecord /\ \A mark : mark # "\n" => Lacks(lead, mark)
  BY EmptyLead
<1>6. /\ parts \in Seq(Text) /\ Len(parts) = 0 + Len(raws)
      /\ Lays(lead \o FlattenSeq(parts), raws)
  <2>1. 0 \in Nat /\ raws \in Seq(Text) /\ \A j \in 1 .. 0 : parts[j] = <<>>
    <3>1. 1 .. 0 = {}
      OBVIOUS
    <3> QED BY <3>1 DEF Ruled
  <2> QED BY <1>1, <1>3, <1>4, <1>5, <2>1, PartsLaid
<1>7. lead \o FlattenSeq(parts) = FlattenSeq(parts)
  BY <1>5, <1>6, PartsFlat, Join
<1> QED BY <1>1, <1>2, <1>6, <1>7

-----------------------------------------------------------------------------
(* The lines of a table *)

WordLayouts == {"docx", "docx runs"}
ScannedLayouts == {"text", "list", "heading", "bold", "html", "pptx", "pdf"} \cup WordLayouts

\* The line that is scanned for a field.
LineOf(layout, field) ==
  CASE layout \in {"text", "pptx"} \cup WordLayouts -> Stated(field)
    [] layout = "list" -> Bullet \o Stated(field)
    [] layout = "heading" -> Title \o Stated(field)
    [] layout = "bold" -> Starred(field)
    [] layout \in {"html", "pdf"} -> Close(field)

LinesOf(layout, table) == [i \in 1 .. Len(table) |-> LineOf(layout, table[i])]

LEMMA LineOfIs ==
  ASSUME NEW layout, NEW field
  PROVE  /\ layout \in {"text", "pptx", "docx", "docx runs"} => LineOf(layout, field) = Stated(field)
         /\ layout = "list" => LineOf(layout, field) = Bullet \o Stated(field)
         /\ layout = "heading" => LineOf(layout, field) = Title \o Stated(field)
         /\ layout = "bold" => LineOf(layout, field) = Starred(field)
         /\ layout \in {"html", "pdf"} => LineOf(layout, field) = Close(field)
         /\ layout \in ScannedLayouts
              => LineOf(layout, field) \in {Stated(field), Close(field), Bullet \o Stated(field),
                                           Title \o Stated(field), Starred(field)}
<1> HIDE DEF Stated, Close, Starred, Bullet, Title
<1> QED BY DEF LineOf, ScannedLayouts, WordLayouts

\* In those layouts it is one of five.
LinesFor(field) ==
  {Stated(field), Close(field), Bullet \o Stated(field), Title \o Stated(field), Starred(field)}

LEMMA ScannedLine ==
  ASSUME NEW layout \in ScannedLayouts, NEW field
  PROVE  LineOf(layout, field) \in LinesFor(field)
<1> HIDE DEF Stated, Close, Starred, Bullet, Title
<1> QED BY LineOfIs DEF LinesFor

LineWords == {" ", ":", "-", "#", "*"}

LEMMA MarksLack ==
  ASSUME NEW mark, mark \notin LineWords
  PROVE  /\ Lacks(Gap, mark) /\ Lacks(Sign, mark) /\ Lacks(Bullet, mark) /\ Lacks(Title, mark)
         /\ Lacks(<<"*", " ", "*", "*">>, mark) /\ Lacks(<<"*", "*", ":", " ">>, mark)
<1>1. mark # " " /\ mark # ":" /\ mark # "-" /\ mark # "#" /\ mark # "*"
  BY DEF LineWords
<1>2. \A x \in Word : x # mark => <<x>> \in Text /\ Lacks(<<x>>, mark)
  BY ShortTexts, OneLacks
<1>3. \A s, t \in Text : Lacks(s, mark) /\ Lacks(t, mark) => s \o t \in Text /\ Lacks(s \o t, mark)
  BY JoinedEnds
<1>4. \A x, y \in Word : x # mark /\ y # mark => <<x, y>> \in Text /\ Lacks(<<x, y>>, mark)
  BY <1>2, <1>3, ShortTexts
<1>5. ASSUME NEW x \in Word, NEW y \in Word, NEW z \in Word, x # mark, y # mark, z # mark
      PROVE  Lacks(<<x, y, z>>, mark)
  <2>1. PICK s \in Text, t \in Text : s = <<x>> /\ t = <<y, z>> /\ Lacks(s, mark) /\ Lacks(t, mark)
    BY <1>2, <1>4, <1>5
  <2>2. <<x, y, z>> = s \o t
    BY <2>1, ShortTexts
  <2> QED BY <1>3, <2>1, <2>2
<1>6. \A a, b, c, d \in Word :
        a # mark /\ b # mark /\ c # mark /\ d # mark => Lacks(<<a, b, c, d>>, mark)
  <2> SUFFICES ASSUME NEW a \in Word, NEW b \in Word, NEW c \in Word, NEW d \in Word,
                      a # mark, b # mark, c # mark, d # mark
               PROVE  Lacks(<<a, b, c, d>>, mark)
    OBVIOUS
  <2>1. PICK s \in Text, t \in Text : s = <<a, b>> /\ t = <<c, d>> /\ Lacks(s, mark) /\ Lacks(t, mark)
    BY <1>4
  <2>2. <<a, b, c, d>> = s \o t
    <3>1. FourOf(a, b, c, d)
      BY FourWords
    <3> QED BY <2>1, <3>1 DEF FourOf
  <2> QED BY <1>3, <2>1, <2>2
<1> QED BY <1>1, <1>2, <1>4, <1>5, <1>6, MarksAreWords DEF Gap, Sign, Bullet, Title

\* A line has the marks of its key and value, and those around them.
LEMMA LineIs ==
  ASSUME NEW layout \in ScannedLayouts, NEW field \in Fields
  PROVE  /\ LineOf(layout, field) \in Text
         /\ \A mark : mark \notin LineWords /\ Lacks(field.key, mark) /\ Lacks(field.value, mark)
                        => Lacks(LineOf(layout, field), mark)
<1>1. PICK k \in Text, v \in Text : k = field.key /\ v = field.value
  BY DEF Fields
<1>2. PICK p \in Text, q \in Text : p = <<"*", " ", "*", "*">> /\ q = <<"*", "*", ":", " ">>
  <2>1. <<"*", " ", "*", "*">> \in Text /\ <<"*", "*", ":", " ">> \in Text
    BY MarksAreWords, ShortTexts
  <2> QED BY <2>1
<1>3. PICK s \in Text, c \in Text, st \in Text, b \in Text, h \in Text :
        /\ s = (k \o Gap) \o v /\ c = (k \o Sign) \o v /\ st = ((p \o k) \o q) \o v
        /\ b = Bullet \o s /\ h = Title \o s
  <2>1. (k \o Gap) \o v \in Text /\ (k \o Sign) \o v \in Text /\ ((p \o k) \o q) \o v \in Text
    BY SignsAreText, Join
  <2>2. \A s \in Text : Bullet \o s \in Text /\ Title \o s \in Text
    BY BulletsAreText, Join
  <2> QED BY <2>1, <2>2
<1>4. ASSUME NEW mark, mark \notin LineWords, Lacks(k, mark), Lacks(v, mark)
      PROVE  Lacks(s, mark) /\ Lacks(c, mark) /\ Lacks(st, mark) /\ Lacks(b, mark) /\ Lacks(h, mark)
  <2>1. /\ Lacks(Gap, mark) /\ Lacks(Sign, mark) /\ Lacks(Bullet, mark) /\ Lacks(Title, mark)
        /\ Lacks(p, mark) /\ Lacks(q, mark)
    BY <1>2, <1>4, MarksLack
  <2>2. \A x, y \in Text : Lacks(x, mark) /\ Lacks(y, mark) => x \o y \in Text /\ Lacks(x \o y, mark)
    BY JoinedEnds
  <2>3. Lacks(s, mark) /\ Lacks(c, mark) /\ Lacks(st, mark)
    <3>1. k \o Gap \in Text /\ Lacks(k \o Gap, mark) /\ k \o Sign \in Text /\ Lacks(k \o Sign, mark)
      BY <1>4, <2>1, <2>2, SignsAreText
    <3>2. p \o k \in Text /\ Lacks(p \o k, mark)
      BY <1>4, <2>1, <2>2
    <3>3. (p \o k) \o q \in Text /\ Lacks((p \o k) \o q, mark)
      BY <2>1, <2>2, <3>2
    <3> QED BY <1>3, <1>4, <2>2, <3>1, <3>3
  <2>4. Lacks(b, mark) /\ Lacks(h, mark)
    BY <1>3, <2>1, <2>2, <2>3, BulletsAreText
  <2> QED BY <2>3, <2>4
<1>5. LineOf(layout, field) \in {s, c, st, b, h}
  <2>1. Stated(field) = s /\ Close(field) = c /\ Starred(field) = st
    BY <1>1, <1>2, <1>3 DEF Stated, Close, Starred
  <2>2. LineOf(layout, field) \in {Stated(field), Close(field), Bullet \o Stated(field),
                                   Title \o Stated(field), Starred(field)}
    BY LineOfIs
  <2> QED BY <1>3, <2>1, <2>2
<1> QED BY <1>1, <1>3, <1>4, <1>5

\* A table whose keys and values each stay on a line.
Lined(table) ==
  \A i \in 1 .. Len(table) : \A mark \in {"\n", "&#58;"} :
    Lacks(table[i].key, mark) /\ Lacks(table[i].value, mark)

LEMMA LinesAre ==
  ASSUME NEW layout \in ScannedLayouts, NEW table \in Tables, Lined(table)
  PROVE  /\ Ruled(LinesOf(layout, table)) /\ AllLack(LinesOf(layout, table), "&#58;")
         /\ Len(LinesOf(layout, table)) = Len(table)
         /\ \A i \in 1 .. Len(table) :
              /\ LinesOf(layout, table)[i] = LineOf(layout, table[i]) /\ table[i] \in Fields
              /\ LineOf(layout, table[i]) \in Text /\ Lacks(LineOf(layout, table[i]), "\n")
<1>1. PICK n \in Nat : n = Len(table) /\ \A i \in 1 .. n : table[i] \in Fields
  BY TableIs
<1>2. PICK raws : raws = LinesOf(layout, table) /\ raws = [i \in 1 .. n |-> LineOf(layout, table[i])]
  BY <1>1 DEF LinesOf
<1>3. ASSUME NEW i \in 1 .. n
      PROVE  /\ raws[i] = LineOf(layout, table[i]) /\ raws[i] \in Text
             /\ Lacks(raws[i], "\n") /\ Lacks(raws[i], "&#58;")
  <2>1. raws[i] = LineOf(layout, table[i])
    BY <1>2
  <2>2. \A mark \in {"\n", "&#58;"} :
          mark \notin LineWords /\ Lacks(table[i].key, mark) /\ Lacks(table[i].value, mark)
    BY <1>1 DEF Lined, LineWords
  <2>3. \A mark \in {"\n", "&#58;"} : Lacks(raws[i], mark)
    BY <1>1, <2>1, <2>2, LineIs
  <2> QED BY <1>1, <2>1, <2>3, LineIs
<1>4. raws \in Seq(Text) /\ Len(raws) = n
  <2>1. raws = [i \in 1 .. n |-> raws[i]]
    BY <1>2
  <2>2. raws \in [1 .. n -> Text]
    BY <1>3, <2>1
  <2> QED BY <2>2, FunctionIsSeq
<1> QED BY <1>1, <1>2, <1>3, <1>4 DEF Ruled, AllLack

LEMMA TextBodyIs ==
  ASSUME NEW layout \in {"text", "list", "heading", "bold"}, NEW table \in Tables
  PROVE  TextBody(layout, table) = FlattenSeq([i \in 1 .. Len(table) |-> Append(LineOf(layout, table[i]), "\n")])
<1>1. PICK nl \in Word : nl = "\n"
  BY MarksAreWords
<1>2. ASSUME NEW s \in Text, NEW t \in Text PROVE s \o Append(t, "\n") = Append(s \o t, "\n")
  BY <1>1, JoinOne DEF Text
<1>3. PICK p, q : p = <<"*", " ", "*", "*">> /\ q = <<"*", "*", ":", " ">> /\ p \in Text /\ q \in Text
  <2>1. <<"*", " ", "*", "*">> \in Text /\ <<"*", "*", ":", " ">> \in Text
    BY MarksAreWords, ShortTexts
  <2> QED BY <2>1
<1>4. ASSUME NEW i \in DOMAIN table
      PROVE  /\ Stated(table[i]) = Line(table[i]) /\ Line(table[i]) \in Text
             /\ Bullet \o Append(Line(table[i]), "\n") = Append(Bullet \o Stated(table[i]), "\n")
             /\ Title \o Append(Line(table[i]), "\n") = Append(Title \o Stated(table[i]), "\n")
             /\ p \o table[i].key \o q \o Append(table[i].value, "\n") = Append(Starred(table[i]), "\n")
  <2>1. PICK k \in Text, v \in Text : k = table[i].key /\ v = table[i].value
    BY TableIs
  <2>2. Stated(table[i]) = Line(table[i]) 
    BY DEF Stated, Line, Gap
  <2>3. Line(table[i]) \in Text
    <3>1. PICK a \in Text : a = k \o Gap
      BY SignsAreText, Join
    <3>2. Stated(table[i]) = a \o v
      BY <2>1, <3>1 DEF Stated
    <3>3. a \o v \in Text
      BY Join
    <3> QED BY <2>2, <3>2, <3>3
  <2>4. p \o k \o q \o Append(v, "\n") = Append(Starred(table[i]), "\n")
    <3>1. PICK a \in Text : a = p \o k
      BY <1>3, Join
    <3>2. PICK b \in Text : b = a \o q
      BY <1>3, Join
    <3>3. b \o Append(v, "\n") = Append(b \o v, "\n")
      BY <1>2
    <3>4. Starred(table[i]) = b \o v
      BY <1>3, <2>1, <3>1, <3>2 DEF Starred
    <3> QED BY <3>1, <3>2, <3>3, <3>4
  <2>5. PICK line \in Text : line = Line(table[i]) /\ line = Stated(table[i])
    BY <2>2, <2>3
  <2>6. Bullet \o Append(line, "\n") = Append(Bullet \o line, "\n")
    BY <1>2, BulletsAreText
  <2>7. Title \o Append(line, "\n") = Append(Title \o line, "\n")
    BY <1>2, BulletsAreText
  <2> QED BY <2>1, <2>3, <2>4, <2>5, <2>6, <2>7
<1>5. DOMAIN table = 1 .. Len(table)
  BY TableIs
<1> DEFINE parts == [i \in 1 .. Len(table) |-> Append(LineOf(layout, table[i]), "\n")]
<1> HIDE DEF Stated, Starred
<1>6. CASE layout = "text"
  <2>1. TextBody(layout, table) = FlattenSeq([i \in DOMAIN table |-> Append(Line(table[i]), "\n")])
    BY <1>6 DEF TextBody, PerField
  <2>2. [i \in DOMAIN table |-> Append(Line(table[i]), "\n")] = parts
    <3>1. \A field : LineOf(layout, field) = Stated(field)
      BY <1>6, LineOfIs
    <3> QED BY <1>4, <1>5, <3>1
  <2> QED BY <2>1, <2>2
<1>7. CASE layout = "list"
  <2>1. TextBody(layout, table)
          = FlattenSeq([i \in DOMAIN table |-> <<"-", " ">> \o Append(Line(table[i]), "\n")])
    BY <1>7 DEF TextBody, PerField
  <2>2. [i \in DOMAIN table |-> <<"-", " ">> \o Append(Line(table[i]), "\n")]
          = [i \in DOMAIN table |-> Bullet \o Append(Line(table[i]), "\n")]
    BY DEF Bullet
  <2>3. [i \in DOMAIN table |-> Bullet \o Append(Line(table[i]), "\n")] = parts
    <3>1. \A field : LineOf(layout, field) = Bullet \o Stated(field)
      BY <1>7, LineOfIs
    <3> QED BY <1>4, <1>5, <3>1
  <2> QED BY <2>1, <2>2, <2>3
<1>8. CASE layout = "heading"
  <2>1. TextBody(layout, table)
          = FlattenSeq([i \in DOMAIN table |-> <<"#", "#", " ">> \o Append(Line(table[i]), "\n")])
    BY <1>8 DEF TextBody, PerField
  <2>2. [i \in DOMAIN table |-> <<"#", "#", " ">> \o Append(Line(table[i]), "\n")]
          = [i \in DOMAIN table |-> Title \o Append(Line(table[i]), "\n")]
    BY DEF Title
  <2>3. [i \in DOMAIN table |-> Title \o Append(Line(table[i]), "\n")] = parts
    <3>1. \A field : LineOf(layout, field) = Title \o Stated(field)
      BY <1>8, LineOfIs
    <3> QED BY <1>4, <1>5, <3>1
  <2> QED BY <2>1, <2>2, <2>3
<1>9. CASE layout = "bold"
  <2>1. TextBody(layout, table)
          = FlattenSeq([i \in DOMAIN table |-> p \o table[i].key \o q \o Append(table[i].value, "\n")])
    BY <1>3, <1>9 DEF TextBody, PerField
  <2>3. [i \in DOMAIN table |-> p \o table[i].key \o q \o Append(table[i].value, "\n")] = parts
    <3>1. \A field : LineOf(layout, field) = Starred(field)
      BY <1>9, LineOfIs
    <3> QED BY <1>4, <1>5, <3>1
  <2> QED BY <2>1, <2>3
<1> QED BY <1>6, <1>7, <1>8, <1>9

\* The lines of a text are those of its fields.
LEMMA TextLaid ==
  ASSUME NEW layout \in {"text", "list", "heading", "bold"}, NEW table \in Tables, Lined(table)
  PROVE  Lays(TextBody(layout, table), LinesOf(layout, table))
<1>1. PICK raws : raws = LinesOf(layout, table)
  OBVIOUS
<1>2. /\ Ruled(raws) /\ Len(raws) = Len(table)
      /\ \A i \in 1 .. Len(table) : raws[i] = LineOf(layout, table[i])
  <2>1. layout \in ScannedLayouts
    BY DEF ScannedLayouts
  <2> QED BY <1>1, <2>1, LinesAre
<1>3. [i \in 1 .. Len(table) |-> Append(LineOf(layout, table[i]), "\n")] = Ended(raws)
  BY <1>2 DEF Ended
<1> QED BY <1>1, <1>2, <1>3, TextBodyIs, EndedLaid

-----------------------------------------------------------------------------
(* Office files *)

OOXMLItem ==
  [piece \in Snippets |->
    CASE piece.kind = "t" -> piece.text
      [] piece.kind = "/p" -> <<"\n">>
      [] OTHER -> <<>>]

LEMMA OOXMLTextIs ==
  /\ OOXMLItem \in [Snippets -> Text]
  /\ \A pieces \in Seq(Snippets) : OOXMLText(pieces) = MapFlat(OOXMLItem, pieces)
<1>1. PICK nl \in Text, e \in Text : nl = <<"\n">> /\ e = <<>>
  BY MarksAreWords, ShortTexts, Join
<1>2. ASSUME NEW piece \in Snippets PROVE OOXMLItem[piece] \in Text
  <2>1. piece.text \in Text
    BY DEF Snippets
  <2>2. OOXMLItem[piece] = piece.text \/ OOXMLItem[piece] = nl \/ OOXMLItem[piece] = e
    BY <1>1 DEF OOXMLItem
  <2> QED BY <1>1, <2>1, <2>2
<1>3. OOXMLItem = [piece \in Snippets |-> OOXMLItem[piece]]
  BY DEF OOXMLItem
<1>4. ASSUME NEW pieces \in Seq(Snippets) PROVE OOXMLText(pieces) = MapFlat(OOXMLItem, pieces)
  <2>1. \A i \in DOMAIN pieces : pieces[i] \in Snippets
    OBVIOUS
  <2>2. \A i \in DOMAIN pieces :
          OOXMLItem[pieces[i]] = CASE pieces[i].kind = "t" -> pieces[i].text
                                   [] pieces[i].kind = "/p" -> <<"\n">>
                                   [] OTHER -> <<>>
    BY <2>1 DEF OOXMLItem
  <2>3. [i \in DOMAIN pieces |-> OOXMLItem[pieces[i]]]
          = [i \in DOMAIN pieces |-> CASE pieces[i].kind = "t" -> pieces[i].text
                                       [] pieces[i].kind = "/p" -> <<"\n">>
                                       [] OTHER -> <<>>]
    BY <2>2
  <2> QED BY <2>3 DEF OOXMLText, MapFlat
<1> QED BY <1>2, <1>3, <1>4

LEMMA PieceIs ==
  \A kind \in {"t", "/p", "other", "tag", "text", "script", "string", "show"}, text \in Text :
    /\ Piece(kind, text) \in Snippets
    /\ Piece(kind, text).kind = kind /\ Piece(kind, text).text = text
BY DEF Piece, Snippets

LEMMA PiecesAre ==
  \A a, b, c, d \in Snippets :
    /\ <<a>> \in Seq(Snippets) /\ <<a, b>> \in Seq(Snippets)
    /\ <<a, b, c>> \in Seq(Snippets) /\ <<a, b, c, d>> \in Seq(Snippets)
OBVIOUS

MapsThree(item, a, b, c) == MapFlat(item, <<a, b, c>>) = (item[a] \o item[b]) \o item[c]
MapsFour(item, a, b, c, d) ==
  MapFlat(item, <<a, b, c, d>>) = ((item[a] \o item[b]) \o item[c]) \o item[d]

LEMMA MapFlatOne ==
  ASSUME NEW A, NEW item \in [A -> Text], NEW a \in A
  PROVE  MapFlat(item, <<a>>) = item[a]
<1>1. PICK s \in Seq(A) : s = <<>>
  BY EmptySeq
<1>2. <<a>> = Append(s, a)
  BY <1>1
<1>3. MapFlat(item, <<a>>) = MapFlat(item, s) \o item[a] /\ MapFlat(item, s) = <<>>
  BY <1>1, <1>2, MapFlatNext
<1>4. PICK t \in Text : t = item[a]
  OBVIOUS
<1>5. <<>> \o t = t
  BY Join
<1> QED BY <1>3, <1>4, <1>5

LEMMA MapFlatTwo ==
  ASSUME NEW A, NEW item \in [A -> Text], NEW a \in A, NEW b \in A
  PROVE  MapFlat(item, <<a, b>>) = item[a] \o item[b]
<1>1. PICK s : s = <<a>>
  OBVIOUS
<1>3. s \in Seq(A)
  BY <1>1
<1>4. <<a, b>> = Append(s, b)
  BY <1>1
<1>2. MapFlat(item, Append(s, b)) = MapFlat(item, s) \o item[b]
  BY <1>3, MapFlatNext
<1> QED BY <1>1, <1>2, <1>4, MapFlatOne

LEMMA MapFlatThree ==
  ASSUME NEW A, NEW item \in [A -> Text], NEW a \in A, NEW b \in A, NEW c \in A
  PROVE  MapsThree(item, a, b, c)
<1>1. PICK s : s = <<a, b>>
  OBVIOUS
<1>3. s \in Seq(A)
  BY <1>1
<1>4. <<a, b, c>> = Append(s, c)
  BY <1>1
<1>2. MapFlat(item, Append(s, c)) = MapFlat(item, s) \o item[c]
  BY <1>3, MapFlatNext
<1>5. MapFlat(item, <<a, b>>) = item[a] \o item[b]
  BY MapFlatTwo
<1> QED BY <1>1, <1>2, <1>4, <1>5 DEF MapsThree

LEMMA MapFlatFour ==
  ASSUME NEW A, NEW item \in [A -> Text], NEW a \in A, NEW b \in A, NEW c \in A, NEW d \in A
  PROVE  MapsFour(item, a, b, c, d)
<1>1. PICK s : s = <<a, b, c>>
  OBVIOUS
<1>3. s \in Seq(A)
  BY <1>1
<1>4. <<a, b, c, d>> = Append(s, d)
  BY <1>1
<1>2. MapFlat(item, Append(s, d)) = MapFlat(item, s) \o item[d]
  BY <1>3, MapFlatNext
<1>5. MapsThree(item, a, b, c)
  BY MapFlatThree
<1> QED BY <1>1, <1>2, <1>4, <1>5 DEF MapsThree, MapsFour

\* A paragraph and a line cut into runs say the same.
\* A paragraph and a line cut into runs say the same.
LEMMA ParagraphIs ==
  ASSUME NEW field \in Fields, Lacks(Stated(field), "\n"), Stated(field) \in Text
  PROVE  /\ Paragraph(field) \in Seq(Snippets) /\ Runs(field) \in Seq(Snippets)
         /\ MapFlat(OOXMLItem, Paragraph(field)) = Append(Stated(field), "\n")
         /\ MapFlat(OOXMLItem, Runs(field)) = Append(Stated(field), "\n")
<1>1. PICK k \in Text, v \in Text, g \in Text : k = field.key /\ v = field.value /\ g = Gap
  BY SignsAreText DEF Fields
<1>2. PICK nl \in Text, e \in Text, ha \in Text : nl = <<"\n">> /\ e = <<>> /\ ha = <<"-">>
  BY MarksAreWords, ShortTexts, Join
<1>3. PICK s \in Text : s = Stated(field) /\ s = (k \o g) \o v /\ Append(s, "\n") = s \o nl
  BY <1>1, <1>2, EndedLine DEF Stated
<1>4. PICK word \in Text : word = g \o v
  BY Join
<1>5. Line(field) = s
  BY <1>1, <1>3 DEF Line, Gap
<1>6. PICK a \in Snippets, b \in Snippets, c \in Snippets, d \in Snippets, p \in Snippets :
        /\ a = Piece("t", s) /\ b = Piece("t", k) /\ c = Piece("other", ha) /\ d = Piece("t", word)
        /\ p = Piece("/p", e)
  BY PieceIs
<1>7. /\ OOXMLItem[a] = s /\ OOXMLItem[b] = k /\ OOXMLItem[c] = e /\ OOXMLItem[d] = word
      /\ OOXMLItem[p] = nl
  <2>1. a.kind = "t" /\ a.text = s /\ b.kind = "t" /\ b.text = k /\ d.kind = "t" /\ d.text = word
    BY <1>6, PieceIs
  <2>2. c.kind = "other" /\ p.kind = "/p"
    BY <1>6, PieceIs
  <2> QED BY <1>2, <1>6, <2>1, <2>2 DEF OOXMLItem
<1>8. Paragraph(field) = <<a, p>>
  BY <1>2, <1>5, <1>6 DEF Paragraph
<1>9. Runs(field) = <<b, c, d, p>>
  BY <1>1, <1>2, <1>4, <1>6 DEF Runs, Gap
<1>10. MapFlat(OOXMLItem, <<a, p>>) = s \o nl
  <2>1. OOXMLItem \in [Snippets -> Text]
    BY OOXMLTextIs
  <2>2. MapFlat(OOXMLItem, <<a, p>>) = OOXMLItem[a] \o OOXMLItem[p]
    BY <2>1, MapFlatTwo
  <2> QED BY <1>7, <2>2
<1>11. MapFlat(OOXMLItem, <<b, c, d, p>>) = ((k \o e) \o word) \o nl
  <2>1. MapFlat(OOXMLItem, <<b, c, d, p>>)
          = ((OOXMLItem[b] \o OOXMLItem[c]) \o OOXMLItem[d]) \o OOXMLItem[p]
    <3>1. PICK item \in [Snippets -> Text] : item = OOXMLItem
      BY OOXMLTextIs
    <3>2. MapsFour(item, b, c, d, p)
      BY MapFlatFour
    <3> QED BY <3>1, <3>2 DEF MapsFour
  <2> QED BY <1>7, <2>1
<1>12. (k \o e) \o word = s
  <2>1. k \o e = k
    BY <1>2, Join
  <2>2. AssocOf(k, g, v)
    BY Assoc
  <2>3. (k \o g) \o v = k \o (g \o v)
    BY <2>2 DEF AssocOf
  <2> QED BY <1>3, <1>4, <2>1, <2>3
<1>13. \A x, y, z, u \in Snippets : <<x, u>> \in Seq(Snippets) /\ <<x, y, z, u>> \in Seq(Snippets)
  OBVIOUS
<1> QED BY <1>3, <1>8, <1>9, <1>10, <1>11, <1>12, <1>13
LEMMA OOXMLEnded ==
  ASSUME NEW ss \in Seq(Seq(Snippets)), NEW raws, Ended(raws) \in Seq(Text),
         Len(ss) = Len(Ended(raws)),
         \A i \in 1 .. Len(ss) : Ended(raws)[i] = MapFlat(OOXMLItem, ss[i])
  PROVE  OOXMLText(FlattenSeq(ss)) = FlattenSeq(Ended(raws))
<1>1. FlattenSeq(ss) \in Seq(Snippets)
  BY Flatten
<1>2. PICK item \in [Snippets -> Text] : item = OOXMLItem
  BY OOXMLTextIs
<1>3. PICK parts \in Seq(Text) : parts = Ended(raws)
  OBVIOUS
<1>4. MapFlat(item, FlattenSeq(ss)) = FlattenSeq(parts)
  <2>1. PartsOf(item, ss, parts)
    BY <1>2, <1>3 DEF PartsOf
  <2> QED BY <2>1, MapFlatFlatten
<1> QED BY <1>1, <1>2, <1>3, <1>4, OOXMLTextIs

Paragraphs(table) == [i \in 1 .. Len(table) |-> Paragraph(table[i])]
RunsOf(table) == [i \in 1 .. Len(table) |-> Runs(table[i])]

\* The lines of a Word file are those of its fields.
LEMMA DOCXLaid ==
  ASSUME NEW layout \in WordLayouts, NEW table \in Tables, Lined(table)
  PROVE  \E t : /\ Lays(t, LinesOf(layout, table))
                /\ ParseDOCX(Written(layout, table).body) = ParseText(t)
<1>1. Format(layout) = "docx" /\ layout \in ScannedLayouts
  BY DEF Format, WordLayouts, ScannedLayouts
<1>2. PICK raws : raws = LinesOf(layout, table)
  OBVIOUS
<1>3. /\ Ruled(raws) /\ Len(raws) = Len(table)
      /\ \A i \in 1 .. Len(table) :
           /\ raws[i] = Stated(table[i]) /\ table[i] \in Fields
           /\ Stated(table[i]) \in Text /\ Lacks(Stated(table[i]), "\n")
  <2>1. \A field : LineOf(layout, field) = Stated(field)
    BY LineOfIs DEF WordLayouts
  <2> QED BY <1>1, <1>2, <2>1, LinesAre
<1>4. /\ Ended(raws) \in Seq(Text) /\ Len(Ended(raws)) = Len(table)
      /\ Lays(FlattenSeq(Ended(raws)), raws)
  BY <1>3, EndedLaid
<1>5. PICK ss : ss = IF layout = "docx" THEN Paragraphs(table) ELSE RunsOf(table)
  OBVIOUS
<1>6. PICK n \in Nat : n = Len(table) /\ DOMAIN table = 1 .. n
  BY TableIs
<1>7. /\ DOMAIN ss = 1 .. n
      /\ \A i \in 1 .. n : ss[i] = Paragraph(table[i]) \/ ss[i] = Runs(table[i])
      /\ ss = [i \in 1 .. n |-> ss[i]]
  BY <1>5, <1>6 DEF Paragraphs, RunsOf
<1>8. \A i \in 1 .. n : ss[i] \in Seq(Snippets) /\ MapFlat(OOXMLItem, ss[i]) = Append(raws[i], "\n")
  BY <1>3, <1>6, <1>7, ParagraphIs
<1>9. ss \in Seq(Seq(Snippets)) /\ Len(ss) = n
  <2>1. ss \in [1 .. n -> Seq(Snippets)]
    BY <1>7, <1>8
  <2> QED BY <1>6, <2>1, FunctionIsSeq
<1>10. \A i \in 1 .. n : Ended(raws)[i] = Append(raws[i], "\n")
  BY <1>3, <1>6 DEF Ended
<1>11. OOXMLText(FlattenSeq(ss)) = FlattenSeq(Ended(raws))
  BY <1>4, <1>6, <1>8, <1>9, <1>10, OOXMLEnded
<1>12. Written(layout, table).body = [part \in {"word/document"} |-> FlattenSeq(ss)]
  <2>1. CASE layout = "docx"
    <3>1. Written(layout, table).body = [part \in {"word/document"} |-> PerField(table, Paragraph)]
      BY <1>1, <2>1 DEF Written
    <3>2. PerField(table, Paragraph) = FlattenSeq(ss)
      BY <1>5, <1>6, <2>1 DEF PerField, Paragraphs
    <3> QED BY <3>1, <3>2
  <2>2. CASE layout = "docx runs"
    <3>1. Written(layout, table).body = [part \in {"word/document"} |-> PerField(table, Runs)]
      BY <1>1, <2>2 DEF Written
    <3>2. PerField(table, Runs) = FlattenSeq(ss)
      BY <1>5, <1>6, <2>2 DEF PerField, RunsOf
    <3> QED BY <3>1, <3>2
  <2> QED BY <2>1, <2>2 DEF WordLayouts
<1>13. ParseDOCX(Written(layout, table).body) = ParseText(OOXMLText(FlattenSeq(ss)))
  BY <1>12 DEF ParseDOCX
<1> QED BY <1>2, <1>4, <1>11, <1>13

Slides(table) == [n \in {8 + i : i \in DOMAIN table} |-> Paragraph(table[n - 8])]
SlideTexts(raws) ==
  [j \in 1 .. Len(raws) + 9 |-> IF j <= 9 THEN <<>> ELSE Append(Append(raws[j - 9], "\n"), "\n")]

LEMMA SlidesAre ==
  ASSUME NEW table \in Tables, NEW raws, Len(raws) = Len(table),
         \A i \in 1 .. Len(table) : OOXMLText(Paragraph(table[i])) = Append(raws[i], "\n")
  PROVE  ParsePPTX(Slides(table)) = ParseText(FlattenSeq(SlideTexts(raws)))
<1>1. PICK n \in Nat \ {0} : n = Len(table) /\ n = Len(raws) /\ DOMAIN table = 1 .. n
  BY TableIs
<1>2. PICK slides : slides = Slides(table)
  OBVIOUS
<1>3. PICK D : D = {8 + i : i \in 1 .. n}
  OBVIOUS
<1>4. DOMAIN slides = D /\ \A i \in 1 .. n : slides[8 + i] = Paragraph(table[i])
  <2>1. DOMAIN slides = D /\ \A m \in D : slides[m] = Paragraph(table[m - 8])
    BY <1>1, <1>2, <1>3 DEF Slides
  <2>2. \A i \in 1 .. n : 8 + i \in D /\ (8 + i) - 8 = i
    BY <1>3
  <2> QED BY <2>1, <2>2
<1>5. Max(D) = n + 8 /\ D # {}
  <2>1. n + 8 \in D /\ \A y \in D : y <= n + 8
    BY <1>1, <1>3
  <2>2. D \in SUBSET Nat
    BY <1>3
  <2>3. Max(D) = n + 8
    BY <2>1, <2>2, MaxIs
  <2> QED BY <2>1, <2>3
<1>6. ASSUME NEW j \in 1 .. n + 9
      PROVE  (IF j - 1 \in D THEN Append(OOXMLText(slides[j - 1]), "\n") ELSE <<>>)
               = SlideTexts(raws)[j]
  <2>1. CASE j <= 9
    <3>1. j - 1 \notin D
      BY <1>3, <2>1
    <3>2. SlideTexts(raws)[j] = <<>>
      BY <1>1, <2>1 DEF SlideTexts
    <3> QED BY <3>1, <3>2
  <2>2. CASE ~ (j <= 9)
    <3>1. PICK i \in 1 .. n : j = i + 9 /\ j - 1 = 8 + i /\ j - 9 = i
      <4>1. j - 9 \in 1 .. n /\ j = (j - 9) + 9 /\ j - 1 = 8 + (j - 9)
        BY <1>1, <2>2
      <4> QED BY <4>1
    <3>2. j - 1 \in D /\ slides[j - 1] = Paragraph(table[i])
      BY <1>3, <1>4, <3>1
    <3>3. OOXMLText(slides[j - 1]) = Append(raws[i], "\n")
      BY <1>1, <3>2
    <3>4. SlideTexts(raws)[j] = Append(Append(raws[j - 9], "\n"), "\n")
      BY <1>1, <2>2 DEF SlideTexts
    <3> QED BY <3>1, <3>2, <3>3, <3>4
  <2> QED BY <2>1, <2>2
<1>7. ParsePPTX(slides)
        = ParseText(FlattenSeq([j \in 1 .. Max(D) + 1 |->
            IF j - 1 \in D THEN Append(OOXMLText(slides[j - 1]), "\n") ELSE <<>>]))
  BY <1>4, <1>5 DEF ParsePPTX
<1>8. [j \in 1 .. Max(D) + 1 |-> IF j - 1 \in D THEN Append(OOXMLText(slides[j - 1]), "\n") ELSE <<>>]
        = SlideTexts(raws)
  <2>1. Max(D) + 1 = n + 9
    BY <1>1, <1>5
  <2>2. SlideTexts(raws) = [j \in 1 .. n + 9 |-> SlideTexts(raws)[j]]
    BY <1>1 DEF SlideTexts
  <2> HIDE DEF SlideTexts
  <2> QED BY <1>6, <2>1, <2>2
<1> QED BY <1>2, <1>7, <1>8

LEMMA SlideTextsLaid ==
  ASSUME NEW raws, Ruled(raws)
  PROVE  Lays(FlattenSeq(SlideTexts(raws)), raws)
<1>1. PICK n \in Nat : n = Len(raws) /\ \A i \in 1 .. n : raws[i] \in Text /\ Lacks(raws[i], "\n")
  BY DEF Ruled, AllLack
<1>2. PICK parts : parts = SlideTexts(raws)
  OBVIOUS
<1>3. ASSUME NEW i \in 1 .. n PROVE Holds(parts[9 + i], raws[i])
  <2>1. 9 + i \in 1 .. n + 9 /\ ~ (9 + i <= 9) /\ (9 + i) - 9 = i
    OBVIOUS
  <2>2. parts[9 + i] = Append(Append(raws[i], "\n"), "\n")
    BY <1>1, <1>2, <2>1 DEF SlideTexts
  <2>3. PICK once : once = Append(raws[i], "\n") /\ Holds(once, raws[i])
    BY <1>1, EndedLine
  <2>4. Holds(once \o <<"\n">>, raws[i]) /\ once \in Text
    BY <2>3, BlankHolds DEF Holds
  <2>5. Append(once, "\n") = once \o <<"\n">>
    <3>1. PICK nl \in Word : nl = "\n"
      BY MarksAreWords
    <3> QED BY <2>4, <3>1, JoinOne DEF Text
  <2> QED BY <2>2, <2>3, <2>4, <2>5
<1>4. \A j \in 1 .. 9 : parts[j] = <<>>
  BY <1>1, <1>2 DEF SlideTexts
<1>5. parts = [j \in 1 .. 9 + n |-> parts[j]]
  <2>1. n + 9 = 9 + n
    OBVIOUS
  <2> QED BY <1>1, <1>2, <2>1 DEF SlideTexts
<1>6. PICK lead : lead = <<>> /\ Ends(lead) /\ Read(lead) = EmptyRecord /\ \A mark : mark # "\n" => Lacks(lead, mark)
  BY EmptyLead
<1>7. parts \in Seq(Text) /\ Lays(lead \o FlattenSeq(parts), raws)
  <2>1. 9 \in Nat /\ raws \in Seq(Text)
    BY DEF Ruled
  <2> QED BY <1>1, <1>3, <1>4, <1>5, <1>6, <2>1, PartsLaid
<1>8. lead \o FlattenSeq(parts) = FlattenSeq(parts)
  BY <1>6, <1>7, PartsFlat, Join
<1> QED BY <1>2, <1>7, <1>8

\* The lines of slides are those of the fields, wherever their numbers start.
LEMMA PPTXLaid ==
  ASSUME NEW table \in Tables, Lined(table)
  PROVE  \E t : /\ Lays(t, LinesOf("pptx", table))
                /\ ParsePPTX(Written("pptx", table).body) = ParseText(t)
<1>1. PICK layout \in ScannedLayouts : layout = "pptx"
  BY DEF ScannedLayouts
<1>2. PICK raws : raws = LinesOf(layout, table)
  OBVIOUS
<1>3. /\ Ruled(raws) /\ Len(raws) = Len(table)
      /\ \A i \in 1 .. Len(table) :
           /\ raws[i] = Stated(table[i]) /\ table[i] \in Fields
           /\ Stated(table[i]) \in Text /\ Lacks(Stated(table[i]), "\n")
  <2>1. \A field : LineOf(layout, field) = Stated(field)
    BY <1>1, LineOfIs
  <2> QED BY <1>2, <2>1, LinesAre
<1>4. \A i \in 1 .. Len(table) : OOXMLText(Paragraph(table[i])) = Append(raws[i], "\n")
  BY <1>3, ParagraphIs, OOXMLTextIs
<1>5. ParsePPTX(Slides(table)) = ParseText(FlattenSeq(SlideTexts(raws)))
  BY <1>3, <1>4, SlidesAre
<1>6. Lays(FlattenSeq(SlideTexts(raws)), raws)
  BY <1>3, SlideTextsLaid
<1>7. Written("pptx", table).body = Slides(table)
  BY DEF Written, Slides, Format
<1> QED BY <1>1, <1>2, <1>5, <1>6, <1>7

-----------------------------------------------------------------------------
(* PDF *)

Strings(field) ==
  <<Piece("string", field.key), Piece("string", <<":">> \o field.value), Piece("show", <<>>)>>
Silent(out) == [out |-> out, pending |-> <<>>]

\* The strings of a field, shown, are its line.
LEMMA StringsShown ==
  ASSUME NEW s \in Seq(Snippets), NEW o \in Text, ShownAll(s) = Silent(o),
         NEW field \in Fields, Close(field) \in Text, Lacks(Close(field), "\n")
  PROVE  ShownAll(s \o Strings(field)) = Silent(o \o Append(Close(field), "\n"))
<1>1. PICK k \in Text, v \in Text, g \in Text : k = field.key /\ v = field.value /\ g = Sign
  BY SignsAreText DEF Fields
<1>2. PICK gv \in Text, e \in Text : gv = g \o v /\ e = <<>>
  BY Join
<1>3. PICK a \in Snippets, b \in Snippets, c \in Snippets :
        a = Piece("string", k) /\ b = Piece("string", gv) /\ c = Piece("show", e)
  BY PieceIs
<1>4. Strings(field) = <<a, b, c>>
  BY <1>1, <1>2, <1>3 DEF Strings, Sign
<1>5. /\ a.kind = "string" /\ a.text = k /\ b.kind = "string" /\ b.text = gv /\ c.kind = "show"
  BY <1>3, PieceIs
<1>6. PICK l \in Text : l = Close(field) /\ l = (k \o g) \o v
  BY <1>1 DEF Close
<1>7. k \o gv = l
  <2>1. AssocOf(k, g, v)
    BY Assoc
  <2> QED BY <1>2, <1>6, <2>1 DEF AssocOf
<1>8. PICK sa \in Seq(Snippets), sb \in Seq(Snippets), sc \in Seq(Snippets) :
        sa = Append(s, a) /\ sb = Append(sa, b) /\ sc = Append(sb, c)
  <2>1. PICK sa \in Seq(Snippets) : sa = Append(s, a)
    BY AppendProperties
  <2>2. PICK sb \in Seq(Snippets) : sb = Append(sa, b)
    BY AppendProperties
  <2>3. PICK sc \in Seq(Snippets) : sc = Append(sb, c)
    BY AppendProperties
  <2> QED BY <2>1, <2>2, <2>3
<1>9. s \o Strings(field) = sc
  <2> HIDE DEF Snippets
  <2> QED BY <1>4, <1>8
<1>10. ShownAll(sa) = [out |-> o, pending |-> k]
  <2>1. ShownAll(sa) = Show(Silent(o), a)
    BY <1>8, ShownNext
  <2>2. <<>> \o k = k
    BY Join
  <2> QED BY <1>5, <2>1, <2>2 DEF Show, Silent
<1>11. ShownAll(sb) = [out |-> o, pending |-> l]
  <2>1. ShownAll(sb) = Show([out |-> o, pending |-> k], b)
    BY <1>8, <1>10, ShownNext
  <2> QED BY <1>5, <1>7, <2>1 DEF Show
<1>12. ShownAll(sc) = [out |-> (o \o l) \o <<"\n">>, pending |-> <<>>]
  <2>1. ShownAll(sc) = Show([out |-> o, pending |-> l], c)
    BY <1>8, <1>11, ShownNext
  <2>2. l # <<>>
    <3>1. g # <<>>
      BY <1>1 DEF Sign
    <3>2. k \o g \in Text /\ k \o g # <<>>
      BY <3>1, JoinedEnds
    <3> QED BY <1>6, <3>2, JoinedEnds
  <2> QED BY <1>5, <2>1, <2>2 DEF Show
<1>13. (o \o l) \o <<"\n">> = o \o Append(l, "\n")
  <2>1. PICK nl \in Text : nl = <<"\n">>
    BY MarksAreWords, ShortTexts
  <2>2. Append(l, "\n") = l \o nl
    BY <1>6, <2>1, EndedLine
  <2>3. AssocOf(o, l, nl)
    BY Assoc
  <2> QED BY <2>1, <2>2, <2>3 DEF AssocOf
<1> QED BY <1>6, <1>9, <1>12, <1>13 DEF Silent

StringsOf(table) == [i \in 1 .. Len(table) |-> Strings(table[i])]

LEMMA StringsShownAll ==
  ASSUME NEW table \in Tables, NEW raws, Len(raws) = Len(table),
         \A i \in 1 .. Len(table) : /\ raws[i] = Close(table[i]) /\ table[i] \in Fields
                                    /\ Close(table[i]) \in Text /\ Lacks(Close(table[i]), "\n"),
         Ended(raws) \in Seq(Text)
  PROVE  /\ StringsOf(table) \in Seq(Seq(Snippets))
         /\ ShownAll(FlattenSeq(StringsOf(table))) = Silent(FlattenSeq(Ended(raws)))
<1>1. PICK n \in Nat : n = Len(table) /\ n = Len(raws)
  BY TableIs
<1>2. PICK ss : ss = StringsOf(table)
  OBVIOUS
<1>3. PICK parts \in Seq(Text) : parts = Ended(raws)
  OBVIOUS
<1>4. Len(parts) = n /\ \A i \in 1 .. n : parts[i] = Append(Close(table[i]), "\n")
  BY <1>1, <1>3 DEF Ended
<1>5. \A i \in 1 .. n : ss[i] = Strings(table[i])
  BY <1>1, <1>2 DEF StringsOf
<1>6. ASSUME NEW field \in Fields PROVE Strings(field) \in Seq(Snippets)
  <2>1. PICK k \in Text, v \in Text, g \in Text : k = field.key /\ v = field.value /\ g = Sign
    BY SignsAreText DEF Fields
  <2>2. PICK gv \in Text, e \in Text : gv = g \o v /\ e = <<>>
    BY Join
  <2>3. PICK a \in Snippets, b \in Snippets, c \in Snippets :
          a = Piece("string", k) /\ b = Piece("string", gv) /\ c = Piece("show", e)
    BY PieceIs
  <2>4. Strings(field) = <<a, b, c>>
    BY <2>1, <2>2, <2>3 DEF Strings, Sign
  <2>5. <<a, b, c>> \in Seq(Snippets)
    OBVIOUS
  <2> QED BY <2>4, <2>5
<1>7. ss \in Seq(Seq(Snippets)) /\ Len(ss) = n
  <2>1. \A i \in 1 .. n : ss[i] \in Seq(Snippets)
    BY <1>1, <1>5, <1>6
  <2>2. DOMAIN ss = 1 .. n /\ ss = [i \in 1 .. n |-> ss[i]]
    BY <1>1, <1>2 DEF StringsOf
  <2>3. ss \in [1 .. n -> Seq(Snippets)]
    BY <2>1, <2>2
  <2> QED BY <1>1, <2>3, FunctionIsSeq
<1>8. PICK f : /\ Accumulates(f, ss) /\ FlattenSeq(ss) = f[Len(ss)]
               /\ \A k \in 0 .. Len(ss) : f[k] \in Seq(Snippets)
  BY <1>7, Accumulation
<1>9. PICK g : /\ Accumulates(g, parts) /\ FlattenSeq(parts) = g[Len(parts)]
               /\ \A k \in 0 .. Len(parts) : g[k] \in Text
  BY Accumulation DEF Text
<1> DEFINE T == {k \in Nat : k <= n => ShownAll(f[k]) = Silent(g[k])}
<1>10. 0 \in T
  <2>1. f[0] = <<>> /\ g[0] = <<>>
    BY <1>8, <1>9 DEF Accumulates
  <2> QED BY <2>1, ShownNext DEF Silent, NothingShown
<1>11. ASSUME NEW k \in Nat, k \in T PROVE k + 1 \in T
  <2>1. SUFFICES ASSUME k + 1 <= n PROVE ShownAll(f[k + 1]) = Silent(g[k + 1])
    OBVIOUS
  <2>2. /\ k + 1 \in 1 .. n /\ (k + 1) - 1 = k /\ k <= n /\ k \in 0 .. n
    BY <1>1, <2>1
  <2>3. f[k + 1] = f[k] \o ss[k + 1] /\ f[k] \in Seq(Snippets)
    BY <1>7, <1>8, <2>2 DEF Accumulates
  <2>4. g[k + 1] = g[k] \o parts[k + 1] /\ g[k] \in Text
    BY <1>4, <1>9, <2>2 DEF Accumulates
  <2>5. PICK field \in Fields :
          field = table[k + 1] /\ Close(field) \in Text /\ Lacks(Close(field), "\n")
    BY <1>1, <2>2
  <2>6. ss[k + 1] = Strings(field) /\ parts[k + 1] = Append(Close(field), "\n")
    BY <1>4, <1>5, <2>2, <2>5
  <2>7. PICK s \in Seq(Snippets), o \in Text : s = f[k] /\ o = g[k] /\ ShownAll(s) = Silent(o)
    BY <1>11, <2>2, <2>3, <2>4
  <2>8. ShownAll(s \o Strings(field)) = Silent(o \o Append(Close(field), "\n"))
    BY <2>5, <2>7, StringsShown
  <2> QED BY <2>3, <2>4, <2>6, <2>7, <2>8
<1> HIDE DEF T
<1>12. n \in T
  BY <1>10, <1>11, Inductive
<1>13. ShownAll(f[n]) = Silent(g[n])
  BY <1>12 DEF T
<1> QED BY <1>2, <1>3, <1>4, <1>7, <1>8, <1>9, <1>13

\* The lines of a PDF are those of the fields.
LEMMA PDFLaid ==
  ASSUME NEW table \in Tables, Lined(table)
  PROVE  \E t : /\ Lays(t, LinesOf("pdf", table))
                /\ ParsePDF(PDFBody("pdf", table)) = ParseText(t)
<1>1. PICK layout \in ScannedLayouts : layout = "pdf"
  BY DEF ScannedLayouts
<1>2. PICK raws : raws = LinesOf(layout, table)
  OBVIOUS
<1>3. /\ Ruled(raws) /\ Len(raws) = Len(table)
      /\ \A i \in 1 .. Len(table) :
           /\ raws[i] = Close(table[i]) /\ table[i] \in Fields
           /\ Close(table[i]) \in Text /\ Lacks(Close(table[i]), "\n")
  <2>1. \A field : LineOf(layout, field) = Close(field)
    BY <1>1, LineOfIs
  <2> QED BY <1>2, <2>1, LinesAre
<1>4. Ended(raws) \in Seq(Text) /\ Lays(FlattenSeq(Ended(raws)), raws)
  BY <1>3, EndedLaid
<1>5. /\ StringsOf(table) \in Seq(Seq(Snippets))
      /\ ShownAll(FlattenSeq(StringsOf(table))) = Silent(FlattenSeq(Ended(raws)))
  BY <1>3, <1>4, StringsShownAll
<1>6. PICK stream, t : stream = FlattenSeq(StringsOf(table)) /\ t = FlattenSeq(Ended(raws))
  OBVIOUS
<1>7. PDFBody("pdf", table) = <<stream>>
  <2>1. PDFBody("pdf", table) = <<FlattenSeq([i \in DOMAIN table |-> Strings(table[i])])>>
    BY DEF PDFBody, PerField, Strings
  <2> QED BY <1>6, <2>1, TableIs DEF StringsOf
<1>8. ShownText(stream) = t
  BY <1>5, <1>6 DEF ShownText, ShownAll, NothingShown, Silent
<1>9. FlattenSeq(<<t>>) = t
  <2>1. t \in Text
    BY <1>4, <1>6, PartsFlat
  <2>2. PICK es \in Seq(Text) : es = <<>>
    BY EmptySeq
  <2>3. FlattenSeq(Append(es, t)) = FlattenSeq(es) \o t /\ FlattenSeq(es) = <<>>
    BY <2>1, <2>2, Flatten DEF Text
  <2>4. Append(es, t) = <<t>>
    BY <2>2
  <2> QED BY <2>1, <2>3, <2>4, Join
<1>10. ParsePDF(<<stream>>) = ParseText(FlattenSeq(<<ShownText(stream)>>))
  <2>1. [i \in DOMAIN <<stream>> |-> ShownText(<<stream>>[i])] = <<ShownText(stream)>>
    OBVIOUS
  <2> QED BY <2>1 DEF ParsePDF
<1> QED BY <1>1, <1>2, <1>4, <1>6, <1>7, <1>8, <1>9, <1>10

-----------------------------------------------------------------------------
(* Web pages *)

Entity == <<"&#58;">>
Unescape == [x \in Word |-> IF x = "&#58;" THEN <<":">> ELSE <<x>>]
MarkupItem == [piece \in Snippets |-> IF piece.kind = "text" THEN piece.text ELSE <<"\n">>]

LEMMA UnescapeIs ==
  /\ Unescape \in [Word -> Text]
  /\ \A s \in Text : ReplaceAll(s, "&#58;", ":") = MapFlat(Unescape, s)
  /\ \A s \in Text : Lacks(s, "&#58;") => MapFlat(Unescape, s) = s
<1>1. PICK old \in Word, new \in Word : old = "&#58;" /\ new = ":"
  BY MarksAreWords
<1>2. PICK item : item = [x \in Word |-> IF x = old THEN <<new>> ELSE <<x>>]
  OBVIOUS
<1>3. item = Unescape
  BY <1>1, <1>2 DEF Unescape
<1>4. item \in [Word -> Text]
  BY <1>2, ShortTexts
<1>5. ASSUME NEW s \in Text PROVE ReplaceAll(s, "&#58;", ":") = MapFlat(item, s)
  <2>1. ReplaceAll(s, old, new) = MapFlat([x \in Word |-> IF x = old THEN <<new>> ELSE <<x>>], s)
    BY ReplaceIsMapFlat
  <2> QED BY <1>1, <1>2, <2>1
<1> DEFINE T == {s \in Text : Lacks(s, old) => MapFlat(item, s) = s}
<1>6. <<>> \in T
  BY <1>4, MapFlatNext, EmptySeq DEF Text
<1>7. ASSUME NEW s \in Text, NEW x \in Word, s \in T PROVE Append(s, x) \in T
  <2>1. Append(s, x) \in Text /\ Len(Append(s, x)) = Len(s) + 1 /\ Append(s, x)[Len(s) + 1] = x
        /\ \A i \in 1 .. Len(s) : Append(s, x)[i] = s[i]
    BY AppendProperties DEF Text
  <2>2. SUFFICES ASSUME Lacks(Append(s, x), old) PROVE MapFlat(item, Append(s, x)) = Append(s, x)
    BY <2>1
  <2>3. Len(s) \in Nat
    BY DEF Text
  <2>4. Lacks(s, old) /\ x # old
    <3>1. \A i \in 1 .. Len(s) + 1 : Append(s, x)[i] # old
      BY <2>1, <2>2 DEF Lacks
    <3> QED BY <2>1, <2>3, <3>1 DEF Lacks
  <2>5. MapFlat(item, Append(s, x)) = s \o item[x]
    BY <1>4, <1>7, <2>4, MapFlatNext DEF Text
  <2>6. item[x] = <<x>>
    BY <1>2, <2>4
  <2> QED BY <2>5, <2>6, JoinOne DEF Text
<1> HIDE DEF T
<1>8. Text \subseteq T
  BY <1>6, <1>7, SeqInductive DEF Text
<1>9. ASSUME NEW s \in Text, Lacks(s, "&#58;") PROVE MapFlat(item, s) = s
  BY <1>1, <1>8, <1>9 DEF T
<1> QED BY <1>3, <1>4, <1>5, <1>9

LEMMA MarkupItemIs ==
  /\ MarkupItem \in [Snippets -> Text]
  /\ \A pieces \in Seq(Snippets) :
       /\ MapFlat(MarkupItem, pieces) \in Text
       /\ ParseMarkup(pieces) = ParseText(MapFlat(Unescape, MapFlat(MarkupItem, pieces)))
<1>1. PICK nl \in Text : nl = <<"\n">>
  BY MarksAreWords, ShortTexts
<1>2. ASSUME NEW piece \in Snippets PROVE MarkupItem[piece] \in Text
  <2>1. piece.text \in Text
    BY DEF Snippets
  <2>2. MarkupItem[piece] = piece.text \/ MarkupItem[piece] = nl
    BY <1>1 DEF MarkupItem
  <2> QED BY <1>1, <2>1, <2>2
<1>3. MarkupItem = [piece \in Snippets |-> MarkupItem[piece]]
  BY DEF MarkupItem
<1>4. MarkupItem \in [Snippets -> Text]
  <2> HIDE DEF MarkupItem
  <2> QED BY <1>2, <1>3
<1>5. ASSUME NEW pieces \in Seq(Snippets)
      PROVE  /\ MapFlat(MarkupItem, pieces) \in Text
             /\ ParseMarkup(pieces) = ParseText(MapFlat(Unescape, MapFlat(MarkupItem, pieces)))
  <2>1. MapFlat(MarkupItem, pieces) \in Text
    BY <1>4, MapFlatNext
  <2>2. \A i \in DOMAIN pieces : pieces[i] \in Snippets
    OBVIOUS
  <2>3. \A i \in DOMAIN pieces :
          MarkupItem[pieces[i]] = IF pieces[i].kind = "text" THEN pieces[i].text ELSE <<"\n">>
    BY <2>2 DEF MarkupItem
  <2>4. [i \in DOMAIN pieces |-> MarkupItem[pieces[i]]]
          = [i \in DOMAIN pieces |-> IF pieces[i].kind = "text" THEN pieces[i].text ELSE <<"\n">>]
    BY <2>3
  <2>5. PICK text : text = MapFlat(MarkupItem, pieces)
    OBVIOUS
  <2>6. ParseMarkup(pieces) = ParseText(ReplaceAll(text, "&#58;", ":"))
    BY <2>4, <2>5 DEF ParseMarkup, MapFlat
  <2>7. ReplaceAll(text, "&#58;", ":") = MapFlat(Unescape, text)
    BY <2>1, <2>5, UnescapeIs
  <2> QED BY <2>1, <2>5, <2>6, <2>7
<1> QED BY <1>4, <1>5

Element(field) ==
  <<Piece("tag", <<>>), Piece("text", field.key \o <<"&#58;">> \o field.value), Piece("tag", <<>>)>>
Between(line) == (<<"\n">> \o line) \o <<"\n">>

UnescapesOf(s, t) == MapFlat(Unescape, s \o t) = MapFlat(Unescape, s) \o MapFlat(Unescape, t)

\* The element of a field is its line, with the colon escaped, between newlines.
LEMMA ElementIs ==
  ASSUME NEW field \in Fields,
         Lacks(field.key, "&#58;"), Lacks(field.value, "&#58;"),
         Close(field) \in Text, Lacks(Close(field), "\n")
  PROVE  /\ Element(field) \in Seq(Snippets)
         /\ MapFlat(MarkupItem, Element(field)) \in Text
         /\ MapFlat(Unescape, MapFlat(MarkupItem, Element(field))) = Between(Close(field))
         /\ Holds(Between(Close(field)), Close(field))
<1>1. PICK k \in Text, v \in Text, g \in Text : k = field.key /\ v = field.value /\ g = Sign
  BY SignsAreText DEF Fields
<1>2. PICK nl \in Text, e \in Text, en \in Text : nl = <<"\n">> /\ e = <<>> /\ en = Entity
  BY MarksAreWords, ShortTexts, Join DEF Entity
<1>3. PICK c \in Text : c = Close(field) /\ c = (k \o g) \o v /\ Lacks(c, "\n")
  BY <1>1 DEF Close
<1>4. PICK ke \in Text, x \in Text : ke = k \o en /\ x = ke \o v
  <2>1. PICK ke \in Text : ke = k \o en
    BY Join
  <2> QED BY <2>1, Join
<1>5. PICK a \in Snippets, b \in Snippets : a = Piece("tag", e) /\ b = Piece("text", x)
  BY PieceIs
<1>6. Element(field) = <<a, b, a>>
  BY <1>1, <1>2, <1>4, <1>5 DEF Element, Entity
<1>7. MarkupItem[a] = nl /\ MarkupItem[b] = x
  <2>1. a.kind = "tag" /\ b.kind = "text" /\ b.text = x
    BY <1>5, PieceIs
  <2> QED BY <1>2, <1>5, <2>1 DEF MarkupItem
<1>8. MapFlat(MarkupItem, <<a, b, a>>) = (nl \o x) \o nl
  <2>1. PICK item \in [Snippets -> Text] : item = MarkupItem
    BY MarkupItemIs
  <2>2. MapsThree(item, a, b, a)
    BY MapFlatThree
  <2> QED BY <1>7, <2>1, <2>2 DEF MapsThree
<1>9. PICK nx \in Text, nxn \in Text : nx = nl \o x /\ nxn = nx \o nl
  <2>1. PICK nx \in Text : nx = nl \o x
    BY Join
  <2> QED BY <2>1, Join
<1>10. /\ MapFlat(Unescape, k) = k /\ MapFlat(Unescape, v) = v /\ MapFlat(Unescape, nl) = nl
       /\ MapFlat(Unescape, en) = g
  <2>1. Lacks(k, "&#58;") /\ Lacks(v, "&#58;")
    BY <1>1
  <2>2. Lacks(nl, "&#58;")
    BY <1>2, MarksAreWords, OneLacks
  <2>3. MapFlat(Unescape, en) = g
    <3>1. PICK en1 \in Word : en1 = "&#58;"
      BY MarksAreWords
    <3>2. PICK item \in [Word -> Text] : item = Unescape
      BY UnescapeIs
    <3>3. MapFlat(item, <<en1>>) = item[en1]
      BY MapFlatOne
    <3>4. item[en1] = g
      BY <1>1, <3>1, <3>2 DEF Unescape, Sign
    <3> QED BY <1>2, <3>1, <3>2, <3>3, <3>4 DEF Entity
  <2> QED BY <2>1, <2>2, <2>3, UnescapeIs
<1>11. ASSUME NEW s \in Text, NEW t \in Text
       PROVE  UnescapesOf(s, t)
  <2>1. PICK item \in [Word -> Text] : item = Unescape
    BY UnescapeIs
  <2>2. s \in Seq(Word) /\ t \in Seq(Word)
    BY DEF Text
  <2> QED BY <2>1, <2>2, MapFlatJoined DEF UnescapesOf
<1>12. MapFlat(Unescape, nxn) = (nl \o c) \o nl
  <2>1. UnescapesOf(k, en) /\ UnescapesOf(ke, v) /\ UnescapesOf(nl, x) /\ UnescapesOf(nx, nl)
    BY <1>11
  <2>2. MapFlat(Unescape, ke) = k \o g
    BY <1>4, <1>10, <2>1 DEF UnescapesOf
  <2>3. MapFlat(Unescape, x) = c
    BY <1>3, <1>4, <1>10, <2>1, <2>2 DEF UnescapesOf
  <2>4. MapFlat(Unescape, nx) = nl \o c
    BY <1>9, <1>10, <2>1, <2>3 DEF UnescapesOf
  <2> QED BY <1>9, <1>10, <2>1, <2>4 DEF UnescapesOf
<1>13. PICK cn \in Text : cn = c \o nl /\ Holds(cn, c)
  <2>1. Append(c, "\n") = c \o <<"\n">> /\ Holds(Append(c, "\n"), c)
    BY <1>3, EndedLine
  <2> QED BY <1>2, <2>1 DEF Holds
<1>14. (nl \o c) \o nl = nl \o cn
  <2>1. AssocOf(nl, c, nl)
    BY Assoc
  <2> QED BY <1>13, <2>1 DEF AssocOf
<1>15. Holds(nl \o cn, c)
  BY <1>2, <1>13, BlankHolds
<1>16. <<a, b, a>> \in Seq(Snippets)
  BY PiecesAre
<1>17. Between(Close(field)) = nl \o cn
  BY <1>2, <1>3, <1>14 DEF Between
<1> QED BY <1>3, <1>6, <1>8, <1>9, <1>12, <1>14, <1>15, <1>16, <1>17

Elements(table) == [i \in 1 .. Len(table) |-> Element(table[i])]
Betweens(raws) == [i \in 1 .. Len(raws) |-> Between(raws[i])]

LEMMA MarkupFlatten ==
  ASSUME NEW ss \in Seq(Seq(Snippets)), NEW parts \in Seq(Text),
         Len(parts) = Len(ss), \A i \in 1 .. Len(ss) : parts[i] = MapFlat(MarkupItem, ss[i])
  PROVE  MapFlat(MarkupItem, FlattenSeq(ss)) = FlattenSeq(parts)
<1>1. PICK item \in [Snippets -> Text] : item = MarkupItem
  BY MarkupItemIs
<1>2. PartsOf(item, ss, parts)
  BY <1>1 DEF PartsOf
<1> QED BY <1>1, <1>2, MapFlatFlatten

LEMMA UnescapeFlatten ==
  ASSUME NEW ss \in Seq(Text), NEW parts \in Seq(Text),
         Len(parts) = Len(ss), \A i \in 1 .. Len(ss) : parts[i] = MapFlat(Unescape, ss[i])
  PROVE  MapFlat(Unescape, FlattenSeq(ss)) = FlattenSeq(parts)
<1>1. PICK item \in [Word -> Text] : item = Unescape
  BY UnescapeIs
<1>2. ss \in Seq(Seq(Word))
  BY DEF Text
<1>3. PartsOf(item, ss, parts)
  BY <1>1 DEF PartsOf
<1> QED BY <1>1, <1>2, <1>3, MapFlatFlatten

LEMMA ElementsAre ==
  ASSUME NEW table \in Tables, NEW raws, Len(raws) = Len(table),
         \A i \in 1 .. Len(table) :
           /\ table[i] \in Fields /\ Lacks(table[i].key, "&#58;") /\ Lacks(table[i].value, "&#58;")
           /\ raws[i] = Close(table[i]) /\ Close(table[i]) \in Text /\ Lacks(Close(table[i]), "\n")
  PROVE  /\ Elements(table) \in Seq(Seq(Snippets))
         /\ MapFlat(Unescape, MapFlat(MarkupItem, FlattenSeq(Elements(table))))
              = FlattenSeq(Betweens(raws))
         /\ MapFlat(MarkupItem, FlattenSeq(Elements(table))) \in Text
         /\ \A i \in 1 .. Len(raws) : Holds(Betweens(raws)[i], raws[i])
<1>1. PICK n \in Nat : n = Len(table) /\ n = Len(raws)
  BY TableIs
<1>2. PICK ss, parts, mid :
        /\ ss = Elements(table) /\ parts = Betweens(raws)
        /\ mid = [i \in 1 .. n |-> MapFlat(MarkupItem, ss[i])]
  OBVIOUS
<1>3. ASSUME NEW i \in 1 .. n
      PROVE  /\ ss[i] \in Seq(Snippets) /\ mid[i] \in Text /\ mid[i] = MapFlat(MarkupItem, ss[i])
             /\ parts[i] = MapFlat(Unescape, mid[i]) /\ Holds(parts[i], raws[i]) /\ parts[i] \in Text
  <2>1. PICK field \in Fields :
          /\ field = table[i] /\ Lacks(field.key, "&#58;") /\ Lacks(field.value, "&#58;")
          /\ raws[i] = Close(field) /\ Close(field) \in Text /\ Lacks(Close(field), "\n")
    BY <1>1
  <2>2. ss[i] = Element(field) /\ parts[i] = Between(Close(field)) /\ mid[i] = MapFlat(MarkupItem, ss[i])
    BY <1>1, <1>2, <2>1 DEF Elements, Betweens
  <2>3. /\ Element(field) \in Seq(Snippets)
        /\ MapFlat(MarkupItem, Element(field)) \in Text
        /\ MapFlat(Unescape, MapFlat(MarkupItem, Element(field))) = Between(Close(field))
        /\ Holds(Between(Close(field)), Close(field))
    BY <2>1, ElementIs
  <2> QED BY <2>1, <2>2, <2>3 DEF Holds
<1>4. ss \in Seq(Seq(Snippets)) /\ Len(ss) = n
  <2>1. ss = [i \in 1 .. n |-> Element(table[i])]
    BY <1>1, <1>2 DEF Elements
  <2>2. DOMAIN ss = 1 .. n /\ ss = [i \in 1 .. n |-> ss[i]]
    BY <2>1
  <2>3. ss \in [1 .. n -> Seq(Snippets)]
    BY <1>3, <2>2
  <2> QED BY <1>1, <2>3, FunctionIsSeq
<1>5. mid \in Seq(Text) /\ Len(mid) = n
  <2>1. DOMAIN mid = 1 .. n /\ mid = [i \in 1 .. n |-> mid[i]]
    BY <1>2
  <2>2. mid \in [1 .. n -> Text]
    BY <1>3, <2>1
  <2> QED BY <1>1, <2>2, FunctionIsSeq
<1>6. parts \in Seq(Text) /\ Len(parts) = n
  <2>1. parts = [i \in 1 .. n |-> Between(raws[i])]
    BY <1>1, <1>2 DEF Betweens
  <2>2. DOMAIN parts = 1 .. n /\ parts = [i \in 1 .. n |-> parts[i]]
    BY <2>1
  <2>3. parts \in [1 .. n -> Text]
    BY <1>3, <2>2
  <2> QED BY <1>1, <2>3, FunctionIsSeq
<1>7. MapFlat(MarkupItem, FlattenSeq(ss)) = FlattenSeq(mid)
  BY <1>3, <1>4, <1>5, MarkupFlatten
<1>8. MapFlat(Unescape, FlattenSeq(mid)) = FlattenSeq(parts)
  BY <1>3, <1>5, <1>6, UnescapeFlatten
<1>9. FlattenSeq(mid) \in Text
  BY <1>5, PartsFlat
<1> QED BY <1>1, <1>2, <1>3, <1>4, <1>7, <1>8, <1>9

\* The lines of a web page are those of the fields.
LEMMA HTMLLaid ==
  ASSUME NEW table \in Tables, Lined(table)
  PROVE  \E t : /\ Lays(t, LinesOf("html", table))
                /\ ParseMarkup(HTMLBody("html", table)) = ParseText(t)
<1>1. PICK layout \in ScannedLayouts : layout = "html"
  BY DEF ScannedLayouts
<1>2. PICK n \in Nat : n = Len(table)
  BY TableIs
<1>3. PICK raws : raws = LinesOf(layout, table)
  OBVIOUS
<1>4. /\ Ruled(raws) /\ Len(raws) = n
      /\ \A i \in 1 .. n :
           /\ raws[i] = Close(table[i]) /\ table[i] \in Fields
           /\ Close(table[i]) \in Text /\ Lacks(Close(table[i]), "\n")
           /\ Lacks(table[i].key, "&#58;") /\ Lacks(table[i].value, "&#58;")
  <2>1. \A field : LineOf(layout, field) = Close(field)
    BY <1>1, LineOfIs
  <2>2. \A i \in 1 .. n : Lacks(table[i].key, "&#58;") /\ Lacks(table[i].value, "&#58;")
    BY <1>2 DEF Lined
  <2> QED BY <1>2, <1>3, <2>1, <2>2, LinesAre
<1>5. PICK ss, parts : ss = Elements(table) /\ parts = Betweens(raws)
  OBVIOUS
<1>6. /\ ss \in Seq(Seq(Snippets))
      /\ MapFlat(Unescape, MapFlat(MarkupItem, FlattenSeq(ss))) = FlattenSeq(parts)
      /\ MapFlat(MarkupItem, FlattenSeq(ss)) \in Text
      /\ \A i \in 1 .. n : Holds(parts[i], raws[i])
  BY <1>2, <1>4, <1>5, ElementsAre
<1>7. PICK first \in Snippets : first = Piece("script", <<>>) /\ first.kind = "script"
  <2>1. <<>> \in Text
    BY Join
  <2> QED BY <2>1, PieceIs
<1>8. PICK nl \in Text : nl = <<"\n">>
  BY MarksAreWords, ShortTexts
<1>9. HTMLBody("html", table) = <<first>> \o FlattenSeq(ss)
  <2>1. HTMLBody("html", table)
          = <<Piece("script", <<>>)>> \o FlattenSeq([i \in DOMAIN table |-> Element(table[i])])
    BY DEF HTMLBody, PerField, Element
  <2> QED BY <1>5, <1>7, <2>1, TableIs DEF Elements
<1>10. MapFlat(MarkupItem, <<first>> \o FlattenSeq(ss)) = nl \o MapFlat(MarkupItem, FlattenSeq(ss))
  <2>1. PICK item \in [Snippets -> Text] : item = MarkupItem
    BY MarkupItemIs
  <2>2. <<first>> \in Seq(Snippets) /\ FlattenSeq(ss) \in Seq(Snippets)
    BY <1>6, Flatten
  <2>3. MapFlat(item, <<first>> \o FlattenSeq(ss)) = MapFlat(item, <<first>>) \o MapFlat(item, FlattenSeq(ss))
    BY <2>2, MapFlatJoined
  <2>4. MapFlat(item, <<first>>) = item[first]
    BY MapFlatOne
  <2>5. item[first] = nl
    BY <1>7, <1>8, <2>1 DEF MarkupItem
  <2> QED BY <2>1, <2>3, <2>4, <2>5
<1>11. PICK rest \in Text : rest = MapFlat(MarkupItem, FlattenSeq(ss))
  BY <1>6
<1>12. MapFlat(Unescape, nl \o rest) = nl \o FlattenSeq(parts)
  <2>1. PICK item \in [Word -> Text] : item = Unescape
    BY UnescapeIs
  <2>2. nl \in Seq(Word) /\ rest \in Seq(Word)
    BY DEF Text
  <2>3. MapFlat(item, nl \o rest) = MapFlat(item, nl) \o MapFlat(item, rest)
    BY <2>2, MapFlatJoined
  <2>4. Lacks(nl, "&#58;")
    <3>1. PICK new \in Word : new = "\n" /\ Lacks(<<new>>, "&#58;")
      BY MarksAreWords, OneLacks
    <3> QED BY <1>8, <3>1
  <2>5. MapFlat(item, nl) = nl
    BY <2>1, <2>4, UnescapeIs
  <2> QED BY <1>6, <1>11, <2>1, <2>3, <2>5
<1>13. ParseMarkup(HTMLBody("html", table)) = ParseText(nl \o FlattenSeq(parts))
  <2>1. <<first>> \o FlattenSeq(ss) \in Seq(Snippets)
    <3>1. <<first>> \in Seq(Snippets) /\ FlattenSeq(ss) \in Seq(Snippets)
      BY <1>6, Flatten
    <3> QED BY <3>1
  <2> QED BY <1>9, <1>10, <1>11, <1>12, <2>1, MarkupItemIs
<1>14. Lays(nl \o FlattenSeq(parts), raws)
  <2>1. Ends(nl) /\ Read(nl) = EmptyRecord /\ \A mark : mark # "\n" => Lacks(nl, mark)
    BY <1>8, NewlineLead
  <2>2. 0 \in Nat /\ raws \in Seq(Text) /\ \A j \in 1 .. 0 : parts[j] = <<>>
    <3>1. 1 .. 0 = {}
      OBVIOUS
    <3> QED BY <1>4, <3>1 DEF Ruled
  <2>3. parts = [j \in 1 .. 0 + n |-> parts[j]] /\ \A i \in 1 .. n : Holds(parts[0 + i], raws[i])
    <3>1. 0 + n = n /\ \A i \in 1 .. n : 0 + i = i
      OBVIOUS
    <3>2. parts = [j \in 1 .. n |-> parts[j]]
      BY <1>4, <1>5 DEF Betweens
    <3> QED BY <1>6, <3>1, <3>2
  <2> QED BY <1>4, <2>1, <2>2, <2>3, PartsLaid
<1> QED BY <1>1, <1>3, <1>13, <1>14

-----------------------------------------------------------------------------
(* CSV *)

\* Layouts that write a key as it is.
Flat(layout) == layout # "json nested"

LEMMA KeysAndValues ==
  ASSUME NEW table \in Tables
  PROVE  /\ Keys(table) \in Seq(Text) /\ Len(Keys(table)) = Len(table)
         /\ Values(table) \in Seq(Text) /\ Len(Values(table)) = Len(table)
         /\ \A i \in 1 .. Len(table) : /\ Keys(table)[i] = table[i].key
                                       /\ Values(table)[i] = table[i].value
<1>1. PICK n \in Nat : n = Len(table) /\ DOMAIN table = 1 .. n
  BY TableIs
<1>2. \A i \in 1 .. n : table[i].key \in Text /\ table[i].value \in Text
  BY <1>1, TableIs
<1>3. PICK ks, vs : ks = Keys(table) /\ vs = Values(table)
  OBVIOUS
<1>4. ks = [i \in 1 .. n |-> table[i].key] /\ vs = [i \in 1 .. n |-> table[i].value]
  BY <1>1, <1>3 DEF Keys, Values
<1>5. ks \in [1 .. n -> Text] /\ vs \in [1 .. n -> Text]
  BY <1>2, <1>4
<1>6. ks \in Seq(Text) /\ Len(ks) = n
  BY <1>5, FunctionIsSeq
<1>7. vs \in Seq(Text) /\ Len(vs) = n
  BY <1>5, FunctionIsSeq
<1>8. \A i \in 1 .. n : ks[i] = table[i].key /\ vs[i] = table[i].value
  BY <1>4
<1> QED BY <1>1, <1>3, <1>6, <1>7, <1>8

\* A row under the keys of a table is read as the table's meaning.
LEMMA RowMeans ==
  ASSUME NEW layout, NEW table \in Tables, NEW keys \in Seq(Text), NEW data \in Seq(Text),
         Len(keys) = Len(table), Len(data) = Len(table),
         \A i \in 1 .. Len(table) :
           keys[i] = KeyAt(layout, table, i) /\ data[i] = table[i].value
  PROVE  RowRecord(keys, data) = Meaning(layout, table)
<1>1. PICK n \in Nat : n = Len(table) /\ n = Len(keys) /\ n = Len(data)
  BY TableIs
<1>2. PICK f : StagesOf(f, n, Records, EmptyRecord, RowStep(keys, data)) /\ RowRecord(keys, data) = f[n]
  BY <1>1, RowRecordStages
<1>3. PICK g : /\ StagesOf(g, n, Records, EmptyRecord, MeaningStep(layout, table))
               /\ Meaning(layout, table) = g[n]
  BY <1>1, MeaningStages
<1>4. SameSteps(RowStep(keys, data), MeaningStep(layout, table), n)
  <2>1. ASSUME NEW i \in 1 .. n PROVE RowStep(keys, data)[i] = MeaningStep(layout, table)[i]
    <3>1. ~ (i > n) /\ keys[i] = KeyAt(layout, table, i) /\ data[i] = table[i].value
      BY <1>1
    <3>2. RowStep(keys, data)[i] = [r \in Records |-> Put(r, keys[i], data[i])]
      BY <1>1, <3>1 DEF RowStep
    <3> QED BY <1>1, <3>1, <3>2 DEF MeaningStep
  <2> QED BY <2>1 DEF SameSteps
<1>5. f[n] = g[n]
  <2>1. n <= n
    OBVIOUS
  <2> QED BY <1>2, <1>3, <1>4, <2>1, StagesAgree
<1> QED BY <1>2, <1>3, <1>5

\* Every value of a row's record is in the row, in a column of its key.
LEMMA RowHolds ==
  ASSUME NEW keys \in Seq(Text), NEW data \in Seq(Text)
  PROVE  \A key \in DOMAIN RowRecord(keys, data) : \E j \in 1 .. Len(keys) :
           j <= Len(data) /\ keys[j] = key /\ RowRecord(keys, data)[key] = data[j]
<1>1. PICK n \in Nat, m \in Nat : n = Len(keys) /\ m = Len(data)
  OBVIOUS
<1>2. PICK f : StagesOf(f, n, Records, EmptyRecord, RowStep(keys, data)) /\ RowRecord(keys, data) = f[n]
  BY <1>1, RowRecordStages
<1> DEFINE From(r) == \A key \in DOMAIN r : \E j \in 1 .. n : j <= m /\ keys[j] = key /\ r[key] = data[j]
           T == {k \in Nat : k <= n => From(f[k])}
<1>3. 0 \in T
  BY <1>2 DEF StagesOf, EmptyRecord
<1>4. ASSUME NEW k \in Nat, k \in T PROVE k + 1 \in T
  <2>1. SUFFICES ASSUME k + 1 <= n PROVE From(f[k + 1])
    OBVIOUS
  <2>2. k \in 0 .. n /\ k <= n /\ (k + 1) - 1 = k /\ k + 1 \in 1 .. n
    BY <2>1
  <2>3. PICK i \in 1 .. n, r \in Records : i = k + 1 /\ r = f[k] /\ f[i] = RowStep(keys, data)[i][r]
    BY <1>2, <2>2 DEF StagesOf
  <2>4. f[i] = IF i > m THEN r ELSE Put(r, keys[i], data[i])
    BY <1>1, <2>3 DEF RowStep
  <2>5. From(r)
    BY <1>4, <2>2, <2>3
  <2>6. ASSUME ~ (i > m) PROVE From(Put(r, keys[i], data[i]))
    <3>1. DOMAIN Put(r, keys[i], data[i]) = DOMAIN r \cup {keys[i]}
      BY DEF Put
    <3>2. \A key \in DOMAIN r \cup {keys[i]} :
            Put(r, keys[i], data[i])[key] = IF key = keys[i] THEN data[i] ELSE r[key]
      BY DEF Put
    <3>3. i <= m
      BY <1>1, <2>6
    <3>4. \A key \in DOMAIN r \cup {keys[i]} : key # keys[i] => key \in DOMAIN r
      OBVIOUS
    <3> QED BY <2>5, <3>1, <3>2, <3>3, <3>4
  <2> HIDE DEF From
  <2> QED BY <2>3, <2>4, <2>5, <2>6
<1> HIDE DEF T
<1>5. n \in T
  BY <1>3, <1>4, Inductive
<1>6. From(f[n])
  BY <1>5 DEF T
<1> QED BY <1>1, <1>2, <1>6

\* A record without a value under another field's key, as a reader of the
\* layout looks keys up.
Apart(layout, record, table) ==
  \A key \in DOMAIN record : \E i \in 1 .. Len(table) :
    /\ Bare(KeyAt(layout, table, i)) = Bare(normalizeKey(key))
    /\ Bare(table[i].value) = Bare(record[key])

LEMMA TiedApart ==
  ASSUME NEW layout, Flat(layout), NEW table \in Tables, NEW record, Tied(record, table)
  PROVE  Apart(layout, record, table)
<1>1. \A i \in 1 .. Len(table) : KeyAt(layout, table, i) = normalizeKey(table[i].key)
  BY PathIs DEF Flat
<1> QED BY <1>1 DEF Tied, Of, Apart

CSVLayouts == {"csv", "csv rows"}

\* A CSV file is read as what its table means, more rows or not.
LEMMA CSVUnderstood ==
  ASSUME NEW layout \in CSVLayouts, NEW table \in Tables, Suits(layout, table)
  PROVE  ParseCSV(Written(layout, table).body) = Meaning(layout, table)
<1>1. Format(layout) = "csv" /\ Flat(layout)
  BY DEF Format, Flat, CSVLayouts
<1>2. PICK n \in Nat : n = Len(table) /\ DOMAIN table = 1 .. n
  BY TableIs
<1>3. \A i \in 1 .. n : normalizeKey(table[i].key) = table[i].key
  BY <1>1, <1>2 DEF Suits
<1>4. PICK keys \in Seq(Text), data \in Seq(Text) :
        /\ keys = Keys(table) /\ data = Values(table) /\ Len(keys) = n /\ Len(data) = n
        /\ \A i \in 1 .. n : keys[i] = table[i].key /\ data[i] = table[i].value
  BY <1>2, KeysAndValues
<1>5. RowRecord(keys, data) = Meaning(layout, table)
  <2>1. ASSUME NEW i \in 1 .. n PROVE keys[i] = KeyAt(layout, table, i) /\ data[i] = table[i].value
    <3>1. KeyAt(layout, table, i) = normalizeKey(table[i].key)
      BY <1>1, <1>2, PathIs DEF Flat
    <3> QED BY <1>3, <1>4, <3>1
  <2> QED BY <1>2, <1>4, <2>1, RowMeans
<1>6. \/ Written(layout, table).body = <<keys, data>>
      \/ Written(layout, table).body = <<keys, data, keys>>
  <2>1. layout = "csv" \/ layout = "csv rows"
    BY DEF CSVLayouts
  <2> QED BY <1>1, <1>4, <2>1 DEF Written
<1>7. ParseCSV(<<keys, data>>) = RowRecord(keys, data)
  BY <1>4 DEF ParseCSV
<1>8. ParseCSV(<<keys, data, keys>>) = RowRecord(keys, data)
  BY <1>4 DEF ParseCSV
<1> QED BY <1>5, <1>6, <1>7, <1>8

\* The record of any table is apart, or the file is refused.
LEMMA CSVApart ==
  ASSUME NEW layout \in CSVLayouts, NEW table \in Tables,
         ParseCSV(Written(layout, table).body) # Failed
  PROVE  Apart(layout, ParseCSV(Written(layout, table).body), table)
<1>1. Format(layout) = "csv" /\ Flat(layout)
  BY DEF Format, Flat, CSVLayouts
<1>2. PICK keys \in Seq(Text), data \in Seq(Text) :
        /\ keys = Keys(table) /\ data = Values(table) /\ Len(keys) = Len(table)
        /\ \A i \in 1 .. Len(table) : keys[i] = table[i].key /\ data[i] = table[i].value
  BY KeysAndValues
<1>3. PICK rows : rows = Written(layout, table).body
  OBVIOUS
<1>4. rows = <<keys, data>> \/ rows = <<keys, data, keys>>
  <2>1. layout = "csv" \/ layout = "csv rows"
    BY DEF CSVLayouts
  <2> QED BY <1>1, <1>2, <1>3, <2>1 DEF Written
<1>5. rows[1] = keys /\ rows[2] = data
  BY <1>4
<1>6. ParseCSV(rows) = RowRecord(keys, data)
  BY <1>3, <1>5 DEF ParseCSV
<1>7. Tied(RowRecord(keys, data), table)
  <2>1. ASSUME NEW key \in DOMAIN RowRecord(keys, data)
        PROVE  \E i \in 1 .. Len(table) : Of(table[i], key, RowRecord(keys, data)[key])
    <3>1. PICK j \in 1 .. Len(keys) : keys[j] = key /\ RowRecord(keys, data)[key] = data[j]
      BY RowHolds
    <3>2. j \in 1 .. Len(table) /\ table[j].key = key /\ table[j].value = RowRecord(keys, data)[key]
      BY <1>2, <3>1
    <3> QED BY <3>2 DEF Of
  <2> QED BY <2>1 DEF Tied
<1> QED BY <1>1, <1>3, <1>6, <1>7, TiedApart

-----------------------------------------------------------------------------
(* JSON *)

\* Of the fields with one key the last one counts.
LEMMA LatestCounts ==
  ASSUME NEW layout, NEW table \in Tables
  PROVE  /\ Meaning(layout, table) \in Records
         /\ DOMAIN Meaning(layout, table) = {KeyAt(layout, table, i) : i \in 1 .. Len(table)}
         /\ \A i \in 1 .. Len(table) :
              (\A j \in 1 .. Len(table) : KeyAt(layout, table, j) = KeyAt(layout, table, i) => j <= i)
                => Meaning(layout, table)[KeyAt(layout, table, i)] = table[i].value
<1>1. PICK n \in Nat : n = Len(table)
  BY TableIs
<1>2. PICK g : /\ StagesOf(g, n, Records, EmptyRecord, MeaningStep(layout, table))
               /\ Meaning(layout, table) = g[n]
  BY <1>1, MeaningStages
<1>3. PICK key, value : /\ key = [i \in 1 .. n |-> KeyAt(layout, table, i)]
                        /\ value = [i \in 1 .. n |-> table[i].value]
  OBVIOUS
<1>4. ASSUME NEW k \in 1 .. n
      PROVE  g[k] = Put(g[k - 1], key[k], value[k]) /\ g[k - 1] \in Records
  <2>1. k - 1 \in 0 .. n
    BY <1>1
  <2>2. g[k] = MeaningStep(layout, table)[k][g[k - 1]] /\ g[k - 1] \in Records
    BY <1>2, <2>1 DEF StagesOf
  <2> QED BY <1>1, <1>3, <2>2 DEF MeaningStep
<1> DEFINE Counts(k) == /\ DOMAIN g[k] = {key[i] : i \in 1 .. k}
                       /\ \A i \in 1 .. k :
                            (\A j \in 1 .. k : key[j] = key[i] => j <= i) => g[k][key[i]] = value[i]
           T == {k \in Nat : k <= n => Counts(k)}
<1>5. 0 \in T
  <2>1. g[0] = EmptyRecord /\ 1 .. 0 = {}
    BY <1>2 DEF StagesOf
  <2> QED BY <2>1 DEF EmptyRecord
<1>6. ASSUME NEW k \in Nat, k \in T PROVE k + 1 \in T
  <2>1. SUFFICES ASSUME k + 1 <= n PROVE Counts(k + 1)
    OBVIOUS
  <2>2. k + 1 \in 1 .. n /\ (k + 1) - 1 = k /\ k <= n /\ 1 .. k + 1 = (1 .. k) \cup {k + 1}
    BY <1>1, <2>1
  <2>3. g[k + 1] = Put(g[k], key[k + 1], value[k + 1])
    BY <1>4, <2>2
  <2>4. Counts(k)
    BY <1>6, <2>2
  <2>5. DOMAIN g[k + 1] = DOMAIN g[k] \cup {key[k + 1]}
    BY <2>3 DEF Put
  <2>6. DOMAIN g[k + 1] = {key[i] : i \in 1 .. k + 1}
    BY <2>2, <2>4, <2>5
  <2>7. ASSUME NEW i \in 1 .. k + 1, \A j \in 1 .. k + 1 : key[j] = key[i] => j <= i
        PROVE  g[k + 1][key[i]] = value[i]
    <3>1. CASE i = k + 1
      BY <2>3, <3>1 DEF Put
    <3>2. CASE i # k + 1
      <4>1. i \in 1 .. k /\ key[k + 1] # key[i]
        BY <2>2, <2>7, <3>2
      <4>2. g[k][key[i]] = value[i]
        BY <2>2, <2>4, <2>7, <4>1
      <4>3. key[i] \in DOMAIN g[k]
        BY <2>4, <4>1
      <4> QED BY <2>3, <4>1, <4>2, <4>3 DEF Put
    <3> QED BY <3>1, <3>2
  <2> QED BY <2>6, <2>7
<1> HIDE DEF T
<1>7. n \in T
  BY <1>5, <1>6, Inductive
<1>8. Counts(n)
  BY <1>7 DEF T
<1>9. g[n] \in Records
  <2>1. n \in 0 .. n
    BY <1>1
  <2> QED BY <1>2, <2>1 DEF StagesOf
<1> QED BY <1>1, <1>2, <1>3, <1>8, <1>9

JSONLayouts == {"json", "json nested"}
PathsOf(layout, table) == {Path(layout, table, i) : i \in 1 .. Len(table)}
Latest(layout, table, l) ==
  \A j \in 1 .. Len(table) : Path(layout, table, j) = Path(layout, table, l) => j <= l
ValueAt(layout, table, i) ==
  IF layout = "json nested" /\ table[i].value = <<>> THEN Null ELSE table[i].value

LEMMA MembersAre ==
  ASSUME NEW layout, NEW table \in Tables
  PROVE  /\ DOMAIN Members(layout, table) = PathsOf(layout, table)
         /\ \A path \in PathsOf(layout, table) : \E l \in 1 .. Len(table) :
              /\ Path(layout, table, l) = path /\ Latest(layout, table, l)
              /\ Members(layout, table)[path] = ValueAt(layout, table, l)
<1>1. PICK n \in Nat : n = Len(table) /\ DOMAIN table = 1 .. n
  BY TableIs
<1>2. PICK p : p = [i \in 1 .. n |-> Path(layout, table, i)]
  OBVIOUS
<1>3. PICK v : v = [i \in 1 .. n |-> ValueAt(layout, table, i)]
  OBVIOUS
<1>4. Members(layout, table)
        = [path \in {Path(layout, table, i) : i \in DOMAIN table} |->
             ValueAt(layout, table, CHOOSE i \in DOMAIN table :
               /\ Path(layout, table, i) = path
               /\ \A j \in DOMAIN table : Path(layout, table, j) = path => j <= i)]
  BY DEF Members, ValueAt
<1>5. DOMAIN Members(layout, table) = PathsOf(layout, table)
  BY <1>1, <1>4 DEF PathsOf
<1>6. ASSUME NEW path \in PathsOf(layout, table)
      PROVE  \E l \in 1 .. n : /\ Path(layout, table, l) = path /\ Latest(layout, table, l)
                               /\ Members(layout, table)[path] = ValueAt(layout, table, l)
  <2> DEFINE S == {i \in 1 .. n : p[i] = path}
             Good(i) == p[i] = path /\ \A j \in 1 .. n : p[j] = path => j <= i
  <2>1. S \in SUBSET (1 .. n) /\ S # {}
    BY <1>1, <1>2 DEF PathsOf
  <2>2. Max(S) \in S /\ \A y \in S : Max(S) >= y
    <3> HIDE DEF S
    <3> QED BY <2>1, MaxOf
  <2>3. \E i \in 1 .. n : Good(i)
    <3>1. PICK m : m = Max(S)
      OBVIOUS
    <3>2. m \in S /\ \A y \in S : m >= y
      BY <2>2, <3>1
    <3>3. m \in 1 .. n /\ Good(m)
      BY <3>2
    <3> QED BY <3>3
  <2>4. PICK l : l = CHOOSE i \in 1 .. n : Good(i)
    OBVIOUS
  <2>5. l \in 1 .. n /\ Good(l)
    <3> HIDE DEF Good
    <3> QED BY <2>3, <2>4
  <2>6. Path(layout, table, l) = path /\ Latest(layout, table, l)
    BY <1>1, <1>2, <2>5 DEF Latest
  <2>7. Members(layout, table)[path] = ValueAt(layout, table, l)
    <3>1. (CHOOSE i \in DOMAIN table :
               /\ Path(layout, table, i) = path
               /\ \A j \in DOMAIN table : Path(layout, table, j) = path => j <= i)
            = (CHOOSE i \in 1 .. n : Good(i))
      BY <1>1, <1>2
    <3>2. path \in {Path(layout, table, i) : i \in DOMAIN table}
      BY <1>1 DEF PathsOf
    <3> HIDE DEF Good
    <3> QED BY <1>4, <2>4, <3>1, <3>2
  <2> QED BY <2>5, <2>6, <2>7
<1> QED BY <1>1, <1>5, <1>6

Kept(members) == {path \in DOMAIN members : members[path] # Null}

KeptIn(record, members, kept) ==
  /\ DOMAIN record = {FlatKey(path) : path \in kept}
  /\ record = [key \in DOMAIN record |-> record[key]]
  /\ \A key \in DOMAIN record : \E path \in kept :
       FlatKey(path) = key /\ record[key] = members[path]

LEMMA JSONRecordsAre ==
  ASSUME NEW members, NEW record \in JSONRecords(members)
  PROVE  KeptIn(record, members, Kept(members))
BY DEF JSONRecords, Kept, KeptIn

\* A record read from JSON has the flat keys for its keys.
LEMMA JSONType ==
  ASSUME NEW layout, NEW table \in Tables, NEW record \in JSONRecords(Members(layout, table))
  PROVE  DOMAIN record \subseteq Text
<1>1. ASSUME NEW path \in DOMAIN Members(layout, table) PROVE FlatKey(path) \in Text
  <2>1. path \in PathsOf(layout, table)
    <3>1. DOMAIN Members(layout, table) = PathsOf(layout, table)
      BY MembersAre
    <3> QED BY <3>1
  <2>2. PICK i \in 1 .. Len(table) : path = Path(layout, table, i)
    BY <2>1 DEF PathsOf
  <2> QED BY <2>2, PathIs DEF KeyAt
<1>2. PICK members : members = Members(layout, table)
  OBVIOUS
<1>3. DOMAIN record = {FlatKey(path) : path \in Kept(members)}
  BY <1>2, JSONRecordsAre DEF KeptIn
<1>4. Kept(members) \subseteq DOMAIN members
  BY DEF Kept
<1> QED BY <1>1, <1>2, <1>3, <1>4

\* JSON is read as what its table means, nested or not, whatever order Go
\* walks the members in.
LEMMA JSONUnderstood ==
  ASSUME NEW layout \in JSONLayouts, NEW table \in Tables, Suits(layout, table),
         NEW record \in JSONRecords(Members(layout, table))
  PROVE  record = Meaning(layout, table)
<1>1. Format(layout) = "json"
  BY DEF Format, JSONLayouts
<1>2. PICK n \in Nat : n = Len(table) /\ DOMAIN table = 1 .. n
  BY TableIs
<1>3. PICK members, paths : members = Members(layout, table) /\ paths = PathsOf(layout, table)
  OBVIOUS
<1>4. \A p, q \in paths : FlatKey(p) = FlatKey(q) => p = q
  BY <1>1, <1>2, <1>3 DEF Suits, PathsOf
<1>5. ASSUME NEW i \in 1 .. n PROVE ValueAt(layout, table, i) = table[i].value /\ table[i].value # Null
  <2>1. layout = "json nested" => table[i].value # <<>>
    BY <1>1, <1>2 DEF Suits
  <2> QED BY <1>2, <2>1, TableIs DEF ValueAt
<1>6. DOMAIN members = paths /\ \A path \in paths : \E l \in 1 .. n :
        /\ Path(layout, table, l) = path /\ Latest(layout, table, l)
        /\ members[path] = table[l].value /\ members[path] # Null
  BY <1>2, <1>3, <1>5, MembersAre
<1>7. Kept(members) = paths
  BY <1>6 DEF Kept
<1>8. KeptIn(record, members, paths)
  <2>1. KeptIn(record, members, Kept(members))
    BY <1>3, JSONRecordsAre
  <2> QED BY <1>7, <2>1
<1>9. PICK meant : meant = Meaning(layout, table)
  OBVIOUS
<1>10. /\ meant \in Records
       /\ DOMAIN meant = {KeyAt(layout, table, i) : i \in 1 .. n}
       /\ \A i \in 1 .. n :
            (\A j \in 1 .. n : KeyAt(layout, table, j) = KeyAt(layout, table, i) => j <= i)
              => meant[KeyAt(layout, table, i)] = table[i].value
  BY <1>2, <1>9, LatestCounts
<1>11. DOMAIN record = DOMAIN meant
  BY <1>2, <1>3, <1>8, <1>10 DEF PathsOf, KeyAt, KeptIn
<1>12. ASSUME NEW key \in DOMAIN record PROVE record[key] = meant[key]
  <2>1. PICK path \in paths : FlatKey(path) = key /\ record[key] = members[path]
    BY <1>8 DEF KeptIn
  <2>2. PICK l \in 1 .. n : /\ Path(layout, table, l) = path /\ Latest(layout, table, l)
                            /\ members[path] = table[l].value
    BY <1>6
  <2>3. KeyAt(layout, table, l) = key
    BY <2>1, <2>2 DEF KeyAt
  <2>4. ASSUME NEW j \in 1 .. n, KeyAt(layout, table, j) = KeyAt(layout, table, l) PROVE j <= l
    <3>1. Path(layout, table, j) \in paths /\ Path(layout, table, l) \in paths
      BY <1>2, <1>3 DEF PathsOf
    <3>2. Path(layout, table, j) = Path(layout, table, l)
      BY <1>4, <2>4, <3>1 DEF KeyAt
    <3> QED BY <1>2, <2>2, <3>2 DEF Latest
  <2> QED BY <1>10, <2>1, <2>2, <2>3, <2>4
<1>14. record = [key \in DOMAIN record |-> record[key]]
  BY <1>8 DEF KeptIn
<1>13. meant = [key \in DOMAIN meant |-> meant[key]]
  <2>1. PICK D \in SUBSET Text : meant \in [D -> Text]
    BY <1>10 DEF Records
  <2> QED BY <2>1
<1> QED BY <1>9, <1>11, <1>12, <1>13, <1>14

\* Of any table: a member's value is kept under the member's own key.
LEMMA JSONApart ==
  ASSUME NEW layout, NEW table \in Tables, NEW record \in JSONRecords(Members(layout, table))
  PROVE  Apart(layout, record, table)
<1>1. PICK members : members = Members(layout, table)
  OBVIOUS
<1>2. KeptIn(record, members, Kept(members))
  BY <1>1, JSONRecordsAre
<1>3. ASSUME NEW key \in DOMAIN record
      PROVE  \E i \in 1 .. Len(table) : /\ Bare(KeyAt(layout, table, i)) = Bare(normalizeKey(key))
                                       /\ Bare(table[i].value) = Bare(record[key])
  <2>1. PICK path \in Kept(members) : FlatKey(path) = key /\ record[key] = members[path]
    BY <1>2 DEF KeptIn
  <2>2. path \in PathsOf(layout, table) /\ members[path] # Null
    BY <1>1, MembersAre DEF Kept
  <2>3. PICK l \in 1 .. Len(table) : Path(layout, table, l) = path /\ members[path] = ValueAt(layout, table, l)
    BY <1>1, <2>2, MembersAre
  <2>4. record[key] = table[l].value
    BY <2>1, <2>2, <2>3 DEF ValueAt
  <2>5. KeyAt(layout, table, l) = key
    BY <2>1, <2>3 DEF KeyAt
  <2>6. Keyed(key)
    BY <2>1, <2>3, PathIs, FlatKeyKeyed
  <2>7. Bare(normalizeKey(key)) = Bare(key)
    BY <2>6, KeyedBare
  <2> QED BY <2>4, <2>5, <2>7
<1> QED BY <1>3 DEF Apart

-----------------------------------------------------------------------------
(* Workbooks *)

\* A line of a sheet as far as it is read, and the cells that can be placed.
RowsRead == [next : Nat \ {0}, cells : Seq(Text)]
Left(cell) == cell.type # "s" /\ cell.texts = <<>>
Placeable(strings) ==
  {cell \in [column : Nat, type : {"s", "inline"}, index : Nat, texts : Seq(Text)] :
     Left(cell) \/ CellValue(cell, strings) \in Text}

\* What is in a column; columns that are not there are blank.
In(cells, j) == IF j \in 1 .. Len(cells) THEN cells[j] ELSE <<>>
ShownIn(cell, strings) == IF Left(cell) THEN <<>> ELSE CellValue(cell, strings)

LEMMA ColumnIs ==
  ASSUME NEW strings, NEW line \in RowsRead, NEW cell \in Placeable(strings)
  PROVE  /\ Column(line, cell) \in Nat \ {0}
         /\ cell.column # 0 => Column(line, cell) = cell.column
         /\ cell.column = 0 => Column(line, cell) = line.next
<1>1. cell.column \in Nat
  BY DEF Placeable
<1>2. line.next \in Nat \ {0}
  BY DEF RowsRead
<1> QED BY <1>1, <1>2 DEF Column

\* What a cell does to a line: its line before and after.
Placed(line, cell, c, new, strings) ==
  /\ new \in RowsRead /\ new.next = c + 1
  /\ Len(new.cells) <= Len(line.cells) \/ Len(new.cells) <= c
  /\ Len(line.cells) <= Len(new.cells)
  /\ ~Left(cell) => c <= Len(new.cells)
  /\ In(line.cells, c) = <<>> => In(new.cells, c) = ShownIn(cell, strings)
  /\ \A j \in Nat \ {0} : j # c => In(new.cells, j) = In(line.cells, j)

\* Where nothing is yet, a cell goes to its column and leaves the others.
LEMMA PlaceCellIs ==
  ASSUME NEW strings, NEW line \in RowsRead, NEW cell \in Placeable(strings),
         NEW c, c = Column(line, cell), NEW new, new = PlaceCell(line, cell, strings)
  PROVE  Placed(line, cell, c, new, strings)
<1>1. PICK old \in Seq(Text) : old = line.cells
  BY DEF RowsRead
<1>2. PICK l \in Nat : l = Len(old) /\ \A j \in 1 .. l : old[j] \in Text
  OBVIOUS
<1>3. c \in Nat \ {0}
  BY ColumnIs
<1>4. CASE Left(cell)
  <2>1. new = [next |-> c + 1, cells |-> old]
    BY <1>1, <1>4 DEF PlaceCell, Left
  <2>2. new \in RowsRead /\ new.next = c + 1 /\ new.cells = old
    BY <1>3, <2>1 DEF RowsRead
  <2> QED BY <1>1, <1>2, <1>4, <2>2 DEF ShownIn, Placed
<1>5. CASE ~Left(cell)
  <2>1. PICK value \in Text : value = CellValue(cell, strings)
    BY <1>5 DEF Placeable
  <2>2. PICK width \in Nat : width = IF c > l THEN c ELSE l
    BY <1>3
  <2>3. PICK cells : cells = [i \in 1 .. width |-> IF i = c THEN value
                                                   ELSE IF i <= l THEN old[i] ELSE <<>>]
    OBVIOUS
  <2>4. new = [next |-> c + 1, cells |-> cells]
    BY <1>1, <1>2, <1>5, <2>1, <2>2, <2>3 DEF PlaceCell, Left
  <2>5. cells \in Seq(Text) /\ Len(cells) = width
    <3>1. PICK e \in Text : e = <<>>
      BY Join
    <3>2. \A i \in 1 .. width : (IF i = c THEN value ELSE IF i <= l THEN old[i] ELSE <<>>) \in Text
      BY <1>2, <3>1
    <3>3. cells \in [1 .. width -> Text]
      BY <2>3, <3>2
    <3> QED BY <2>2, <3>3, FunctionIsSeq
  <2>6. new \in RowsRead /\ new.next = c + 1 /\ new.cells = cells
    BY <1>3, <2>4, <2>5 DEF RowsRead
  <2>7. width <= l \/ width <= c
    BY <1>3, <2>2
  <2>8. l <= width /\ c <= width
    BY <1>3, <2>2
  <2>9. In(cells, c) = value
    BY <1>3, <2>2, <2>3, <2>5, <2>8 DEF In
  <2>10. ASSUME NEW j \in Nat \ {0}, j # c PROVE In(cells, j) = In(old, j)
    <3>1. CASE j <= l
      BY <1>2, <2>2, <2>3, <2>5, <2>8, <2>10, <3>1 DEF In
    <3>2. CASE ~ (j <= l)
      BY <1>2, <2>2, <2>3, <2>5, <2>10, <3>2 DEF In
    <3> QED BY <3>1, <3>2
  <2> QED BY <1>1, <1>2, <1>5, <2>1, <2>5, <2>6, <2>7, <2>8, <2>9, <2>10 DEF ShownIn, Placed
<1> QED BY <1>4, <1>5

FirstLine == [next |-> 1, cells |-> <<>>]
RowLine(row, strings) == FoldLeft(LAMBDA line, cell : PlaceCell(line, cell, strings), FirstLine, row)
PlaceStep(row, strings) ==
  [i \in 1 .. Len(row) |-> [line \in RowsRead |-> PlaceCell(line, row[i], strings)]]

LEMMA PlaceCellType ==
  \A strings : /\ FirstLine \in RowsRead
               /\ \A line \in RowsRead, cell \in Placeable(strings) :
                    PlaceCell(line, cell, strings) \in RowsRead
<1>1. FirstLine \in RowsRead
  <2>1. 1 \in Nat \ {0} /\ <<>> \in Seq(Text)
    OBVIOUS
  <2> QED BY <2>1 DEF FirstLine, RowsRead
<1>2. ASSUME NEW strings, NEW line \in RowsRead, NEW cell \in Placeable(strings)
      PROVE  PlaceCell(line, cell, strings) \in RowsRead
  <2>1. PICK c, new : c = Column(line, cell) /\ new = PlaceCell(line, cell, strings)
    OBVIOUS
  <2> QED BY <2>1, PlaceCellIs DEF Placed
<1> QED BY <1>1, <1>2

LEMMA PlaceStages ==
  ASSUME NEW strings, NEW row \in Seq(Placeable(strings))
  PROVE  \E f : /\ StagesOf(f, Len(row), RowsRead, FirstLine, PlaceStep(row, strings))
                /\ RowLine(row, strings) = f[Len(row)]
<1> DEFINE n == Len(row)
           G == PlaceStep(row, strings)
           s == row
           Op(x, e) == PlaceCell(x, e, strings)
           E(h) == [S \in SUBSET (DOMAIN s) |->
                      IF S = {} THEN FirstLine ELSE Op(h[S \ {Max(S)}], s[Max(S)])]
<1>1. n \in Nat /\ DOMAIN s = 1 .. n /\ FirstLine \in RowsRead
  BY PlaceCellType
<1>2. G \in [1 .. n -> [RowsRead -> RowsRead]] /\ \A i \in 1 .. n, x \in RowsRead : G[i][x] = Op(x, s[i])
  <2>1. \A i \in 1 .. n, x \in RowsRead : Op(x, s[i]) \in RowsRead
    <3>1. \A i \in 1 .. n : s[i] \in Placeable(strings)
      OBVIOUS
    <3> QED BY <3>1, PlaceCellType
  <2> QED BY <2>1 DEF PlaceStep
<1>3. PICK h : IterOf(h, n, RowsRead, FirstLine, G)
  <2> HIDE DEF G, n, s, Op
  <2> QED BY <1>1, <1>2, IterExists
<1>4. h = E(h)
  <2>1. ASSUME NEW S \in SUBSET (1 .. n), S # {} PROVE h[S] = Op(h[S \ {Max(S)}], s[Max(S)])
    <3> HIDE DEF Op, s, G
    <3>1. Max(S) \in 1 .. n
      BY <1>1, <2>1, MaxOf
    <3>2. h[S \ {Max(S)}] \in RowsRead /\ h[S] = G[Max(S)][h[S \ {Max(S)}]]
      BY <1>3, <2>1 DEF IterOf
    <3> QED BY <1>2, <3>1, <3>2
  <2>2. h \in [SUBSET (1 .. n) -> RowsRead] /\ h[{}] = FirstLine
    BY <1>3 DEF IterOf
  <2> HIDE DEF Op, s, n, G
  <2> QED BY <1>1, <2>1, <2>2
<1>5. PICK iter : iter = E(iter) /\ RowLine(row, strings) = iter[DOMAIN s]
  <2>1. RowLine(row, strings) = (CHOOSE iter : iter = E(iter))[DOMAIN s]
    BY DEF RowLine, FoldLeft, MapThenFoldSet
  <2> HIDE DEF E
  <2> QED BY <1>4, <2>1
<1>6. iter[{}] = FirstLine
  BY <1>5
<1>7. ASSUME NEW S \in SUBSET (1 .. n), S # {}, iter[S \ {Max(S)}] = h[S \ {Max(S)}]
      PROVE  iter[S] = h[S]
  <2> HIDE DEF Op, s, n, G
  <2>1. iter[S] = Op(iter[S \ {Max(S)}], s[Max(S)])
    BY <1>1, <1>5, <1>7
  <2>2. h[S] = Op(h[S \ {Max(S)}], s[Max(S)])
    BY <1>1, <1>4, <1>7
  <2> QED BY <2>1, <2>2, <1>7
<1> HIDE DEF Op, s, n, G, E
<1>8. \E f : StagesOf(f, n, RowsRead, FirstLine, G) /\ iter[1 .. n] = f[n]
  <2>1. Follows(iter, h, n)
    BY <1>7 DEF Follows
  <2> QED BY <1>1, <1>2, <1>3, <1>6, <2>1, FoldIsLastStage
<1> QED BY <1>1, <1>5, <1>8 DEF n, G

\* The columns that the cells of a row go to, all different.
Laid(row, col) ==
  /\ col \in [1 .. Len(row) -> Nat \ {0}]
  /\ \A i, j \in 1 .. Len(row) : col[i] = col[j] => i = j
  /\ \A i \in 1 .. Len(row) :
       \/ row[i].column = col[i]
       \/ row[i].column = 0 /\ col[i] = IF i = 1 THEN 1 ELSE col[i - 1] + 1

\* After k cells.
LaidOut(row, strings, col, k, line) ==
  /\ line.next = IF k = 0 THEN 1 ELSE col[k] + 1
  /\ \A i \in 1 .. k : /\ In(line.cells, col[i]) = ShownIn(row[i], strings)
                       /\ ~Left(row[i]) => col[i] <= Len(line.cells)
  /\ \A j \in Nat \ {0} : (\A i \in 1 .. k : col[i] # j) => In(line.cells, j) = <<>>

LEMMA LaidOutNext ==
  ASSUME NEW strings, NEW row \in Seq(Placeable(strings)), NEW col, Laid(row, col),
         NEW k \in Nat, k + 1 <= Len(row), NEW line \in RowsRead,
         LaidOut(row, strings, col, k, line),
         NEW new, new = PlaceCell(line, row[k + 1], strings)
  PROVE  /\ LaidOut(row, strings, col, k + 1, new)
         /\ Len(new.cells) <= Len(line.cells) \/ Len(new.cells) <= col[k + 1]
<1>1. PICK n \in Nat : n = Len(row)
  OBVIOUS
<1>2. k + 1 \in 1 .. n /\ k \in 0 .. n /\ 1 .. k + 1 = (1 .. k) \cup {k + 1} /\ (k + 1) - 1 = k
  BY <1>1
<1>3. PICK cell \in Placeable(strings) : cell = row[k + 1]
  BY <1>1, <1>2
<1>4. PICK c \in Nat \ {0} : c = col[k + 1]
  BY <1>1, <1>2 DEF Laid
<1>5. c = Column(line, cell)
  <2>1. \/ cell.column = c
        \/ cell.column = 0 /\ c = IF k + 1 = 1 THEN 1 ELSE col[k] + 1
    BY <1>1, <1>2, <1>3, <1>4 DEF Laid
  <2>2. CASE cell.column = c
    BY <1>4, <2>2, ColumnIs
  <2>3. CASE cell.column = 0 /\ c = IF k + 1 = 1 THEN 1 ELSE col[k] + 1
    <3>1. k + 1 = 1 <=> k = 0
      OBVIOUS
    <3>2. c = line.next
      BY <2>3, <3>1 DEF LaidOut
    <3> QED BY <2>3, <3>2, ColumnIs
  <2> QED BY <2>1, <2>2, <2>3
<1>6. /\ new \in RowsRead /\ new.next = c + 1
      /\ Len(new.cells) <= Len(line.cells) \/ Len(new.cells) <= c
      /\ Len(line.cells) <= Len(new.cells)
      /\ ~Left(cell) => c <= Len(new.cells)
      /\ In(line.cells, c) = <<>> => In(new.cells, c) = ShownIn(cell, strings)
      /\ \A j \in Nat \ {0} : j # c => In(new.cells, j) = In(line.cells, j)
  <2>2. Placed(line, cell, c, new, strings)
    BY <1>3, <1>5, PlaceCellIs
  <2> QED BY <2>2 DEF Placed
<1>7. PICK a \in Nat, b \in Nat : a = Len(line.cells) /\ b = Len(new.cells)
  BY <1>6 DEF RowsRead
<1>8. \A i \in 1 .. k : col[i] # c /\ col[i] \in Nat \ {0}
  <2>1. ASSUME NEW i \in 1 .. k PROVE col[i] # c /\ col[i] \in Nat \ {0}
    <3>1. i \in 1 .. n /\ i # k + 1
      BY <1>1, <1>2
    <3> QED BY <1>1, <1>2, <1>4, <3>1 DEF Laid
  <2> QED BY <2>1
<1>9. In(line.cells, c) = <<>>
  BY <1>8 DEF LaidOut
<1>10. new.next = IF k + 1 = 0 THEN 1 ELSE col[k + 1] + 1
  BY <1>4, <1>6
<1>11. ASSUME NEW i \in 1 .. k + 1
       PROVE  /\ In(new.cells, col[i]) = ShownIn(row[i], strings)
              /\ ~Left(row[i]) => col[i] <= Len(new.cells)
  <2>1. CASE i = k + 1
    BY <1>3, <1>4, <1>6, <1>9, <2>1
  <2>2. CASE i # k + 1
    <3>1. i \in 1 .. k
      BY <1>2, <2>2
    <3>2. /\ In(line.cells, col[i]) = ShownIn(row[i], strings)
          /\ ~Left(row[i]) => col[i] <= Len(line.cells)
      BY <3>1 DEF LaidOut
    <3>3. In(new.cells, col[i]) = In(line.cells, col[i])
      BY <1>6, <1>8, <3>1
    <3>4. ~Left(row[i]) => col[i] <= Len(new.cells)
      <4>1. PICK ci \in Nat : ci = col[i]
        BY <1>8, <3>1
      <4>2. ci <= a /\ a <= b => ci <= b
        BY <1>7
      <4> QED BY <1>6, <1>7, <3>2, <4>1, <4>2
    <3> QED BY <3>2, <3>3, <3>4
  <2> QED BY <2>1, <2>2
<1>12. ASSUME NEW j \in Nat \ {0}, \A i \in 1 .. k + 1 : col[i] # j PROVE In(new.cells, j) = <<>>
  <2>1. j # c /\ \A i \in 1 .. k : col[i] # j
    BY <1>2, <1>4, <1>12
  <2>2. In(line.cells, j) = <<>>
    BY <2>1 DEF LaidOut
  <2> QED BY <1>6, <2>1, <2>2
<1> QED BY <1>4, <1>6, <1>10, <1>11, <1>12 DEF LaidOut

LEMMA RowCellsAre ==
  ASSUME NEW strings, NEW row \in Seq(Placeable(strings)), NEW col, Laid(row, col),
         NEW bound \in Nat, \A i \in 1 .. Len(row) : col[i] <= bound
  PROVE  \E line \in RowsRead :
           /\ RowCells(row, strings) = line.cells /\ Len(line.cells) <= bound
           /\ LaidOut(row, strings, col, Len(row), line)
<1>1. PICK n \in Nat : n = Len(row)
  OBVIOUS
<1>2. PICK f : /\ StagesOf(f, n, RowsRead, FirstLine, PlaceStep(row, strings))
               /\ RowLine(row, strings) = f[n]
  BY <1>1, PlaceStages
<1> DEFINE Counts(k) == Len(f[k].cells) <= bound /\ LaidOut(row, strings, col, k, f[k])
           T == {k \in Nat : k <= n => Counts(k)}
<1>3. 0 \in T
  <2>1. f[0] = FirstLine
    BY <1>2 DEF StagesOf
  <2>2. FirstLine.next = 1 /\ FirstLine.cells = <<>>
    BY DEF FirstLine
  <2>3. Len(<<>>) = 0 /\ 1 .. 0 = {}
    OBVIOUS
  <2>4. \A j \in Nat \ {0} : In(<<>>, j) = <<>>
    BY <2>3 DEF In
  <2>5. 0 <= bound
    OBVIOUS
  <2> QED BY <2>1, <2>2, <2>3, <2>4, <2>5 DEF LaidOut
<1>4. ASSUME NEW k \in Nat, k \in T PROVE k + 1 \in T
  <2>1. SUFFICES ASSUME k + 1 <= n PROVE Counts(k + 1)
    OBVIOUS
  <2>2. k + 1 \in 1 .. n /\ (k + 1) - 1 = k /\ k <= n /\ k \in 0 .. n /\ k + 1 \in 0 .. n
    BY <1>1, <2>1
  <2>3. f[k] \in RowsRead /\ f[k + 1] \in RowsRead /\ f[k + 1] = PlaceStep(row, strings)[k + 1][f[k]]
    BY <1>2, <2>2 DEF StagesOf
  <2>4. PICK line \in RowsRead, new \in RowsRead : line = f[k] /\ new = f[k + 1]
    BY <2>3
  <2>5. new = PlaceCell(line, row[k + 1], strings)
    BY <1>1, <2>2, <2>3, <2>4 DEF PlaceStep
  <2>6. Counts(k)
    BY <1>4, <2>2
  <2>7. LaidOut(row, strings, col, k, line)
    BY <2>4, <2>6
  <2>8. /\ LaidOut(row, strings, col, k + 1, new)
        /\ Len(new.cells) <= Len(line.cells) \/ Len(new.cells) <= col[k + 1]
    BY <1>1, <2>1, <2>5, <2>7, LaidOutNext
  <2>9. Len(new.cells) <= bound
    <3>3. PICK c \in Nat : c = col[k + 1]
      BY <1>1, <2>2 DEF Laid
    <3>4. PICK one \in Seq(Text), two \in Seq(Text) : one = line.cells /\ two = new.cells
      BY DEF RowsRead
    <3>1. PICK a \in Nat, b \in Nat : a = Len(line.cells) /\ b = Len(new.cells)
      BY <3>4
    <3>2. a <= bound /\ c <= bound /\ (b <= a \/ b <= c)
      BY <1>1, <2>2, <2>4, <2>6, <2>8, <3>1, <3>3
    <3> QED BY <3>1, <3>2
  <2> QED BY <2>4, <2>8, <2>9
<1> HIDE DEF T
<1>5. n \in T
  BY <1>3, <1>4, Inductive
<1>6. Counts(n)
  BY <1>5 DEF T
<1>7. PICK line \in RowsRead : line = f[n]
  <2>1. n \in 0 .. n
    BY <1>1
  <2> QED BY <1>2, <2>1 DEF StagesOf
<1>8. RowCells(row, strings) = line.cells
  BY <1>2, <1>7 DEF RowCells, RowLine, FirstLine
<1> QED BY <1>1, <1>6, <1>7, <1>8

\* What a program does with a sheet that the layouts differ in.
SheetLayouts == {"xlsx", "xlsx shared", "xlsx gap", "xlsx runs"}
Reversed(layout) == layout = "xlsx shared"
Gapped(layout) == layout = "xlsx gap"
Broken(layout) == layout = "xlsx runs"

LEMMA LayoutsDiffer == \A layout : ~(Reversed(layout) /\ Gapped(layout)) /\ ~(Reversed(layout) /\ Broken(layout))
BY DEF Reversed, Gapped, Broken

Inlined(layout, text) ==
  IF text = <<>> THEN <<>>
  ELSE IF Broken(layout) THEN [i \in DOMAIN text |-> <<text[i]>>] ELSE <<text>>

LEMMA InlinedIs ==
  ASSUME NEW layout, NEW text \in Text
  PROVE  /\ Inline(layout, text) = Inlined(layout, text)
         /\ Inlined(layout, text) \in Seq(Text)
         /\ (Inlined(layout, text) = <<>>) <=> (text = <<>>)
         /\ text # <<>> => Last(Inlined(layout, text)) \in Text
         /\ text # <<>> /\ ~Broken(layout) => Last(Inlined(layout, text)) = text
<1>1. Inline(layout, text) = Inlined(layout, text)
  BY DEF Inline, Inlined, Broken
<1>2. CASE text = <<>>
  BY <1>1, <1>2 DEF Inlined
<1>3. CASE text # <<>> /\ ~Broken(layout)
  <2>1. PICK one : one = <<text>>
    OBVIOUS
  <2>2. one \in Seq(Text) /\ Len(one) = 1 /\ one[1] = text
    BY <2>1
  <2>3. Last(one) = text /\ one # <<>>
    BY <2>2 DEF Last
  <2>4. Inlined(layout, text) = one
    BY <1>3, <2>1 DEF Inlined
  <2> QED BY <1>1, <1>3, <2>2, <2>3, <2>4
<1>4. CASE text # <<>> /\ Broken(layout)
  <2>1. PICK n \in Nat \ {0} : n = Len(text) /\ DOMAIN text = 1 .. n /\ \A i \in 1 .. n : text[i] \in Word
    BY <1>4 DEF Text
  <2>2. PICK runs : runs = [i \in 1 .. n |-> <<text[i]>>]
    OBVIOUS
  <2>3. runs \in [1 .. n -> Text]
    <3>1. \A i \in 1 .. n : <<text[i]>> \in Text
      BY <2>1, ShortTexts
    <3> QED BY <2>2, <3>1
  <2>4. runs \in Seq(Text) /\ Len(runs) = n /\ runs[n] \in Text
    BY <2>1, <2>3, FunctionIsSeq
  <2>5. Inlined(layout, text) = runs
    BY <1>4, <2>1, <2>2 DEF Inlined
  <2>6. runs # <<>> /\ Last(runs) \in Text
    BY <2>1, <2>4 DEF Last
  <2> QED BY <1>1, <1>4, <2>4, <2>5, <2>6
<1> QED BY <1>2, <1>3, <1>4

\* Where the i-th text of a row goes, and how many texts j columns hold.
Spot(layout, i) == IF Gapped(layout) /\ i > 1 THEN i + 1 ELSE i
Upto(layout, j) == IF Gapped(layout) /\ j > 1 THEN j - 1 ELSE j

\* The number of the text in the i-th cell, and its column.
Nth(layout, n, i) == IF Reversed(layout) THEN (n + 1) - i ELSE i
ColumnsOf(layout, n) == [i \in 1 .. n |-> Spot(layout, Nth(layout, n, i))]

\* The texts of a row are to be found among the shared strings.
Lists(strings, offset, texts) ==
  \A c \in 1 .. Len(texts) : offset + c \in DOMAIN strings /\ strings[offset + c] = texts[c]

\* What a row's i-th cell shows and where it goes.
CellFits(cell, i, layout, texts, strings) ==
  /\ cell \in Placeable(strings)
  /\ ~Broken(layout) => ShownIn(cell, strings) = texts[Nth(layout, Len(texts), i)]
  /\ Reversed(layout) => ~Left(cell) /\ cell.column = (Len(texts) + 1) - i
  /\ ~Reversed(layout) => /\ cell.column = IF Gapped(layout) /\ i = 2 THEN 3 ELSE 0
                          /\ Left(cell) <=> (texts[i] = <<>>)

LEMMA CellIs ==
  ASSUME NEW layout, NEW strings, NEW texts \in Seq(Text), NEW offset \in Nat,
         Lists(strings, offset, texts), NEW i \in 1 .. Len(texts), NEW cell,
         cell = Row(layout, texts, offset)[i]
  PROVE  CellFits(cell, i, layout, texts, strings)
<1>1. PICK n \in Nat : n = Len(texts) /\ DOMAIN texts = 1 .. n /\ \A j \in 1 .. n : texts[j] \in Text
  OBVIOUS
<1>2. PICK kinds : kinds = {"s", "inline"}
  OBVIOUS
<1>3. PICK s, inline : s = "s" /\ inline = "inline" /\ s \in kinds /\ inline \in kinds /\ s # inline
  BY <1>2
<1>4. CASE Reversed(layout)
  <2>11. i \in 1 .. n
    BY <1>1
  <2>1. PICK c \in 1 .. n : c = (n + 1) - i
    BY <2>11
  <2>2. PICK index \in Nat : index = offset + c
    BY <1>1
  <2>3. PICK hash : hash = <<<<"#">>>> /\ hash \in Seq(Text)
    <3>1. PICK one \in Text : one = <<"#">>
      BY MarksAreWords, ShortTexts
    <3>2. PICK all : all = <<one>>
      OBVIOUS
    <3>3. all \in Seq(Text)
      BY <3>2
    <3>4. all = <<<<"#">>>>
      BY <3>1, <3>2
    <3> QED BY <3>3, <3>4
  <2>4. cell = [column |-> c, type |-> s, index |-> index, texts |-> hash]
    <3>1. Row(layout, texts, offset)[i] =
            Cell(Len(texts) + 1 - i, "s", offset + (Len(texts) + 1 - i), <<<<"#">>>>)
      BY <1>1, <1>4 DEF Row, Reversed
    <3>2. cell = Cell(c, s, index, hash)
      BY <1>1, <1>3, <2>1, <2>2, <2>3, <3>1
    <3> QED BY <3>2 DEF Cell
  <2>5. index \in DOMAIN strings /\ strings[index] = texts[c] /\ texts[c] \in Text
    BY <1>1, <2>1, <2>2 DEF Lists
  <2>6. CellValue(cell, strings) = texts[c]
    BY <1>3, <2>4, <2>5 DEF CellValue
  <2>7. ~Left(cell)
    BY <1>3, <2>4 DEF Left
  <2>8. cell \in Placeable(strings)
    <3>1. c \in Nat
      BY <2>1
    <3> QED BY <1>2, <1>3, <2>2, <2>3, <2>4, <2>5, <2>6, <3>1 DEF Placeable
  <2>9. Nth(layout, Len(texts), i) = c
    BY <1>1, <1>4, <2>1 DEF Nth
  <2> QED BY <1>1, <1>4, <2>1, <2>4, <2>6, <2>7, <2>8, <2>9 DEF ShownIn, CellFits
<1>5. CASE ~Reversed(layout)
  <2>1. PICK text \in Text : text = texts[i]
    BY <1>1
  <2>2. PICK c \in Nat : c = IF Gapped(layout) /\ i = 2 THEN 3 ELSE 0
    OBVIOUS
  <2>3. PICK in : in = Inlined(layout, text)
    OBVIOUS
  <2>4. cell = [column |-> c, type |-> inline, index |-> 0, texts |-> in]
    BY <1>1, <1>3, <1>5, <2>1, <2>2, <2>3, InlinedIs DEF Row, Cell, Reversed, Gapped
  <2>5. /\ in \in Seq(Text) /\ ((in = <<>>) <=> (text = <<>>))
        /\ text # <<>> => Last(in) \in Text
        /\ text # <<>> /\ ~Broken(layout) => Last(in) = text
    BY <2>3, InlinedIs
  <2>6. (Left(cell) <=> text = <<>>) /\ CellValue(cell, strings) = Last(in)
    <3>1. cell.type # "s"
      BY <1>3, <2>4
    <3>2. cell.texts = in
      BY <2>4
    <3>3. CellValue(cell, strings) = Last(in)
      BY <3>1, <3>2 DEF CellValue
    <3>4. Left(cell) <=> in = <<>>
      BY <3>1, <3>2 DEF Left
    <3> QED BY <2>5, <3>3, <3>4
  <2>7. cell \in Placeable(strings)
    <3>1. cell \in [column : Nat, type : {"s", "inline"}, index : Nat, texts : Seq(Text)]
      BY <1>2, <1>3, <2>4, <2>5
    <3>2. Left(cell) \/ CellValue(cell, strings) \in Text
      BY <2>5, <2>6
    <3> QED BY <3>1, <3>2 DEF Placeable
  <2>8. ~Broken(layout) => ShownIn(cell, strings) = text
    BY <2>5, <2>6 DEF ShownIn
  <2> QED BY <1>5, <2>1, <2>2, <2>4, <2>6, <2>7, <2>8 DEF Nth, CellFits
<1> QED BY <1>4, <1>5

LEMMA NthIs ==
  ASSUME NEW layout, NEW n \in Nat, NEW i \in 1 .. n
  PROVE  /\ Nth(layout, n, i) \in 1 .. n /\ Nth(layout, n, Nth(layout, n, i)) = i
         /\ \A j \in 1 .. n : Nth(layout, n, i) = Nth(layout, n, j) => i = j
BY DEF Nth

LEMMA SpotIs ==
  ASSUME NEW layout, NEW n \in Nat, NEW i \in 1 .. n
  PROVE  /\ Spot(layout, i) \in Nat \ {0} /\ Spot(layout, i) <= Spot(layout, n)
         /\ Spot(layout, n) \in Nat
         /\ \A j \in 1 .. n : Spot(layout, i) = Spot(layout, j) => i = j
BY DEF Spot

LaidBy(row, layout, n, strings) ==
  /\ row \in Seq(Placeable(strings)) /\ Len(row) = n
  /\ Laid(row, ColumnsOf(layout, n))
  /\ \A i \in 1 .. n : ColumnsOf(layout, n)[i] <= Spot(layout, n)

LEMMA RowLaid ==
  ASSUME NEW layout, NEW strings, NEW texts \in Seq(Text), NEW offset \in Nat,
         Lists(strings, offset, texts), NEW row, row = Row(layout, texts, offset),
         NEW n, n = Len(texts)
  PROVE  LaidBy(row, layout, n, strings)
<1>1. n \in Nat /\ DOMAIN texts = 1 .. n
  OBVIOUS
<1>11. \A i \in 1 .. n : CellFits(row[i], i, layout, texts, strings)
  BY CellIs
<1>2. \A i \in 1 .. n : row[i] \in Placeable(strings)
  BY <1>11 DEF CellFits
<1>3. row \in [1 .. n -> Placeable(strings)]
  BY <1>1, <1>2 DEF Row
<1>4. row \in Seq(Placeable(strings)) /\ Len(row) = n
  BY <1>1, <1>3, FunctionIsSeq
<1>5. PICK col : col = ColumnsOf(layout, n)
  OBVIOUS
<1>6. \A i \in 1 .. n : col[i] = Spot(layout, Nth(layout, n, i)) /\ col[i] \in Nat \ {0} /\ col[i] <= Spot(layout, n)
  <2>1. ASSUME NEW i \in 1 .. n
        PROVE col[i] = Spot(layout, Nth(layout, n, i)) /\ col[i] \in Nat \ {0} /\ col[i] <= Spot(layout, n)
    <3>1. col[i] = Spot(layout, Nth(layout, n, i))
      BY <1>5 DEF ColumnsOf
    <3>2. PICK k \in 1 .. n : k = Nth(layout, n, i)
      BY <1>1, NthIs
    <3> QED BY <1>1, <3>1, <3>2, SpotIs
  <2> QED BY <2>1
<1>7. col \in [1 .. n -> Nat \ {0}]
  BY <1>5, <1>6 DEF ColumnsOf
<1>8. ASSUME NEW i \in 1 .. n, NEW j \in 1 .. n, col[i] = col[j] PROVE i = j
  <2>1. PICK k \in 1 .. n, l \in 1 .. n : k = Nth(layout, n, i) /\ l = Nth(layout, n, j)
    BY <1>1, NthIs
  <2>2. Spot(layout, k) = Spot(layout, l)
    BY <1>6, <1>8, <2>1
  <2>3. k = l
    BY <1>1, <2>2, SpotIs
  <2> QED BY <1>1, <2>1, <2>3 DEF Nth
<1>9. ASSUME NEW i \in 1 .. n
      PROVE  \/ row[i].column = col[i]
             \/ row[i].column = 0 /\ col[i] = IF i = 1 THEN 1 ELSE col[i - 1] + 1
  <2>1. /\ Reversed(layout) => row[i].column = (n + 1) - i
        /\ ~Reversed(layout) => row[i].column = IF Gapped(layout) /\ i = 2 THEN 3 ELSE 0
    BY <1>11 DEF CellFits
  <2>2. CASE Reversed(layout)
    <3>1. Nth(layout, n, i) = (n + 1) - i /\ ~Gapped(layout)
      BY <2>2, LayoutsDiffer DEF Nth
    <3>2. col[i] = (n + 1) - i
      BY <1>6, <3>1 DEF Spot
    <3> QED BY <2>1, <2>2, <3>2
  <2>3. CASE ~Reversed(layout)
    <3>1. \A k \in 1 .. n : col[k] = Spot(layout, k)
      BY <1>6, <2>3 DEF Nth
    <3>2. CASE i = 1
      <4>1. col[i] = 1 /\ row[i].column = 0
        BY <2>1, <2>3, <3>1, <3>2 DEF Spot
      <4> QED BY <3>2, <4>1
    <3>3. CASE i # 1
      <4>1. i - 1 \in 1 .. n /\ i > 1
        BY <1>1, <3>3
      <4>2. col[i] = Spot(layout, i) /\ col[i - 1] = Spot(layout, i - 1)
        BY <3>1, <4>1
      <4>3. CASE ~Gapped(layout)
        <5>1. col[i] = i /\ col[i - 1] = i - 1 /\ row[i].column = 0
          BY <2>1, <2>3, <4>2, <4>3 DEF Spot
        <5> QED BY <1>1, <3>3, <5>1
      <4>4. CASE Gapped(layout) /\ i = 2
        <5>1. col[i] = 3 /\ row[i].column = 3
          BY <2>1, <2>3, <4>2, <4>4 DEF Spot
        <5> QED BY <5>1
      <4>5. CASE Gapped(layout) /\ i # 2
        <5>1. i - 1 > 1
          BY <4>1, <4>5
        <5>2. col[i] = i + 1 /\ col[i - 1] = (i - 1) + 1 /\ row[i].column = 0
          BY <2>1, <2>3, <4>1, <4>2, <4>5, <5>1 DEF Spot
        <5> QED BY <1>1, <3>3, <5>2
      <4> QED BY <4>3, <4>4, <4>5
    <3> QED BY <3>2, <3>3
  <2> QED BY <2>2, <2>3
<1>10. Laid(row, col)
  BY <1>4, <1>7, <1>8, <1>9 DEF Laid
<1> QED BY <1>4, <1>5, <1>6, <1>10 DEF LaidBy

\* The texts of a row, each in its column and nothing between them.
Spread(layout, texts, cells) ==
  /\ cells \in Seq(Text)
  /\ \A i \in 1 .. Len(texts) : In(cells, Spot(layout, i)) = texts[i]
  /\ \A j \in Nat \ {0} : (\A i \in 1 .. Len(texts) : Spot(layout, i) # j) => In(cells, j) = <<>>
  /\ Len(cells) <= Spot(layout, Len(texts))
  /\ Reversed(layout) \/ texts[Len(texts)] # <<>> => Len(cells) = Spot(layout, Len(texts))

LEMMA RowSpread ==
  ASSUME NEW layout, ~Broken(layout), NEW strings, NEW texts \in Seq(Text), texts # <<>>,
         NEW offset \in Nat, Lists(strings, offset, texts)
  PROVE  Spread(layout, texts, RowCells(Row(layout, texts, offset), strings))
<1>1. PICK n \in Nat \ {0} : n = Len(texts) /\ n \in 1 .. n
  BY DEF Text
<1>2. PICK row, col, cells : /\ row = Row(layout, texts, offset) /\ col = ColumnsOf(layout, n)
                             /\ cells = RowCells(Row(layout, texts, offset), strings)
  OBVIOUS
<1>3. /\ row \in Seq(Placeable(strings)) /\ Len(row) = n /\ Laid(row, col)
      /\ \A i \in 1 .. n : col[i] <= Spot(layout, n)
  <2>1. LaidBy(row, layout, n, strings)
    BY <1>1, <1>2, RowLaid
  <2> QED BY <1>2, <2>1 DEF LaidBy
<1>11. \A i \in 1 .. n : CellFits(row[i], i, layout, texts, strings)
  BY <1>1, <1>2, CellIs
<1>4. PICK bound \in Nat : bound = Spot(layout, n)
  BY <1>1, SpotIs
<1>5. \E line \in RowsRead : /\ RowCells(row, strings) = line.cells /\ Len(line.cells) <= bound
                             /\ LaidOut(row, strings, col, Len(row), line)
  BY <1>3, <1>4, RowCellsAre
<1>6. PICK line \in RowsRead : cells = line.cells /\ Len(cells) <= bound /\ LaidOut(row, strings, col, n, line)
  BY <1>2, <1>3, <1>5
<1>7. cells \in Seq(Text)
  BY <1>6 DEF RowsRead
<1>8. ASSUME NEW k \in 1 .. n
      PROVE  \E i \in 1 .. n : /\ Nth(layout, n, k) = i /\ col[i] = Spot(layout, k)
                               /\ In(cells, Spot(layout, k)) = texts[k]
                               /\ ~Left(row[i]) => Spot(layout, k) <= Len(cells)
  <2>1. PICK i \in 1 .. n : i = Nth(layout, n, k) /\ Nth(layout, n, i) = k
    BY <1>1, NthIs
  <2>2. col[i] = Spot(layout, k)
    BY <1>2, <2>1 DEF ColumnsOf
  <2>3. ShownIn(row[i], strings) = texts[k]
    BY <1>1, <1>11, <2>1 DEF CellFits
  <2>4. In(cells, col[i]) = ShownIn(row[i], strings) /\ (~Left(row[i]) => col[i] <= Len(cells))
    BY <1>6 DEF LaidOut
  <2> QED BY <2>1, <2>2, <2>3, <2>4
<1>9. ASSUME NEW j \in Nat \ {0}, \A i \in 1 .. n : Spot(layout, i) # j PROVE In(cells, j) = <<>>
  <2>1. ASSUME NEW i \in 1 .. n PROVE col[i] # j
    <3>1. col[i] = Spot(layout, Nth(layout, n, i)) /\ Nth(layout, n, i) \in 1 .. n
      BY <1>1, <1>2, NthIs DEF ColumnsOf
    <3> QED BY <1>9, <3>1
  <2> QED BY <1>6, <2>1 DEF LaidOut
<1>10. ASSUME Reversed(layout) \/ texts[n] # <<>> PROVE Len(cells) = bound
  <2>1. PICK i \in 1 .. n : Nth(layout, n, n) = i /\ (~Left(row[i]) => Spot(layout, n) <= Len(cells))
    BY <1>1, <1>8
  <2>2. ~Left(row[i])
    <3>1. CASE Reversed(layout)
      BY <1>1, <1>11, <3>1 DEF CellFits
    <3>2. CASE ~Reversed(layout) /\ texts[n] # <<>>
      <4>1. i = n
        BY <2>1, <3>2 DEF Nth
      <4> QED BY <1>1, <1>11, <3>2, <4>1 DEF CellFits
    <3> QED BY <1>10, <3>1, <3>2
  <2>3. PICK l \in Nat : l = Len(cells)
    BY <1>7
  <2>4. bound <= l /\ l <= bound
    BY <1>4, <1>6, <2>1, <2>2, <2>3
  <2> QED BY <2>3, <2>4
<1> QED BY <1>1, <1>2, <1>4, <1>6, <1>7, <1>8, <1>9, <1>10 DEF Spread

LEMMA BlankKey == normalizeKey(<<>>) = <<>>
<1>1. PICK e \in Text : e = <<>> /\ Len(e) = 0 /\ DOMAIN e = {}
  BY Join
<1>2. TrimLeft(e, " ") = e
  <2>1. FirstAt(e, " ", FirstNot(e, " "))
    BY FirstOther
  <2>2. FirstNot(e, " ") = 0
    <3>1. PICK i : i = FirstNot(e, " ")
      OBVIOUS
    <3>2. i \in 0 .. Len(e)
      BY <2>1, <3>1 DEF FirstAt
    <3>3. i \in 0 .. 0
      BY <1>1, <3>2
    <3>4. i = 0
      BY <3>3
    <3> QED BY <3>1, <3>4
  <2> QED BY <1>1, <2>2 DEF TrimLeft, FirstNot
<1>3. TrimRight(e, " ") = e
  <2>1. PICK i : i = LastNot(e, " ")
    OBVIOUS
  <2>2. i \in 0 .. Len(e)
    BY <2>1, LastOther
  <2>3. i = 0
    BY <1>1, <2>2
  <2>4. SubSeq(e, 1, 0) = <<>>
    BY DEF Text
  <2> QED BY <1>1, <2>1, <2>3, <2>4 DEF TrimRight, LastNot
<1>4. ToLower(e) = e
  BY <1>1 DEF ToLower
<1>5. PICK bar \in Word : bar = "_"
  BY MarksAreWords
<1>6. PICK item : item = [x \in Word |-> IF x = " " THEN <<bar>> ELSE <<x>>]
  OBVIOUS
<1>7. item \in [Word -> Text]
  <2>1. \A x \in Word : (IF x = " " THEN <<bar>> ELSE <<x>>) \in Text
    BY ShortTexts
  <2> QED BY <1>6, <2>1
<1>8. ReplaceAll(e, " ", bar) = MapFlat(item, e)
  BY <1>6, ReplaceIsMapFlat
<1>9. MapFlat(item, e) = <<>>
  BY <1>1, <1>7, MapFlatNext
<1> QED BY <1>1, <1>2, <1>3, <1>4, <1>5, <1>8, <1>9 DEF normalizeKey, TrimSpace

Titled(r) == [k \in DOMAIN r \ {<<>>} |-> r[k]]

LEMMA TitledIs ==
  /\ Titled(EmptyRecord) = EmptyRecord
  /\ \A r, value : Titled(Put(r, <<>>, value)) = Titled(r)
  /\ \A r, key, value : key # <<>> => Titled(Put(r, key, value)) = Put(Titled(r), key, value)
<1>1. Titled(EmptyRecord) = EmptyRecord
  BY DEF Titled, EmptyRecord
<1>2. ASSUME NEW r, NEW value PROVE Titled(Put(r, <<>>, value)) = Titled(r)
  <2>1. DOMAIN Put(r, <<>>, value) \ {<<>>} = DOMAIN r \ {<<>>}
    BY DEF Put
  <2>2. \A k \in DOMAIN r \ {<<>>} : Put(r, <<>>, value)[k] = r[k]
    BY DEF Put
  <2> QED BY <2>1, <2>2 DEF Titled
<1>3. ASSUME NEW r, NEW key, NEW value, key # <<>>
      PROVE  Titled(Put(r, key, value)) = Put(Titled(r), key, value)
  <2>1. PICK e : e = <<>>
    OBVIOUS
  <2>2. DOMAIN Put(r, key, value) \ {e} = (DOMAIN r \ {e}) \cup {key}
    BY <1>3, <2>1 DEF Put
  <2>3. \A k \in (DOMAIN r \ {e}) \cup {key} :
          Put(r, key, value)[k] = IF k = key THEN value ELSE r[k]
    BY <1>3, <2>1 DEF Put
  <2>4. Titled(Put(r, key, value))
          = [k \in (DOMAIN r \ {e}) \cup {key} |-> IF k = key THEN value ELSE r[k]]
    BY <2>1, <2>2, <2>3 DEF Titled
  <2>5. PICK p : p = Titled(r)
    OBVIOUS
  <2>6. DOMAIN p = DOMAIN r \ {e} /\ \A k \in DOMAIN r \ {e} : p[k] = r[k]
    BY <2>1, <2>5 DEF Titled
  <2>7. Put(p, key, value)
          = [k \in (DOMAIN r \ {e}) \cup {key} |-> IF k = key THEN value ELSE r[k]]
    BY <2>6 DEF Put
  <2> QED BY <2>4, <2>5, <2>7
<1> QED BY <1>1, <1>2, <1>3

\* The j-th column is that of a field, or the one that a gapped sheet skips.
Skipped(layout, j) == Gapped(layout) /\ j = 2

LEMMA UptoIs ==
  ASSUME NEW layout, NEW n \in Nat \ {0}, NEW j \in Nat, j + 1 <= Spot(layout, n)
  PROVE  /\ Upto(layout, j) \in 0 .. n
         /\ Skipped(layout, j + 1) => /\ Upto(layout, j + 1) = Upto(layout, j)
                                      /\ \A i \in 1 .. n : Spot(layout, i) # j + 1
         /\ ~Skipped(layout, j + 1) => /\ Upto(layout, j + 1) = Upto(layout, j) + 1
                                       /\ Upto(layout, j + 1) \in 1 .. n
                                       /\ Spot(layout, Upto(layout, j + 1)) = j + 1
BY DEF Upto, Spot, Skipped

LEMMA UptoEnds ==
  ASSUME NEW layout, NEW n \in Nat \ {0}
  PROVE  Upto(layout, 0) = 0 /\ Upto(layout, Spot(layout, n)) = n
BY DEF Upto, Spot

LEMMA SpreadMeans ==
  ASSUME NEW layout, Flat(layout), NEW table \in Tables, NEW titles, NEW data,
         Spread(layout, Keys(table), titles), Spread(layout, Values(table), data),
         \A i \in 1 .. Len(table) : normalizeKey(table[i].key) # <<>>,
         Reversed(layout) \/ table[Len(table)].value # <<>>
  PROVE  Titled(RowRecord([i \in DOMAIN titles |-> normalizeKey(titles[i])], data)) = Meaning(layout, table)
<1>1. PICK n \in Nat \ {0} : n = Len(table) /\ n \in 1 .. n
  BY TableIs
<1>2. \A i \in 1 .. n : table[i].key \in Text /\ table[i].value \in Text
  BY <1>1, TableIs
<1>3. PICK heads, cells : /\ heads = Keys(table) /\ cells = Values(table) /\ Len(heads) = n /\ Len(cells) = n
                          /\ \A i \in 1 .. n : heads[i] = table[i].key /\ cells[i] = table[i].value
  BY <1>1, KeysAndValues
<1>4. PICK m \in Nat : m = Spot(layout, n)
  BY <1>1, SpotIs
<1>5. titles \in Seq(Text) /\ Len(titles) = m /\ DOMAIN titles = 1 .. m
  <2>1. heads[n] # <<>>
    BY <1>1, <1>3, BlankKey
  <2> QED BY <1>3, <1>4, <2>1 DEF Spread
<1>6. data \in Seq(Text) /\ Len(data) = m
  BY <1>1, <1>3, <1>4 DEF Spread
<1>7. ASSUME NEW i \in 1 .. n
      PROVE  /\ titles[Spot(layout, i)] = table[i].key /\ data[Spot(layout, i)] = table[i].value
             /\ Spot(layout, i) \in 1 .. m
  <2>1. PICK s \in 1 .. m : s = Spot(layout, i)
    BY <1>1, <1>4, SpotIs
  <2>2. In(titles, s) = heads[i] /\ In(data, s) = cells[i]
    BY <1>3, <2>1 DEF Spread
  <2> QED BY <1>3, <1>5, <1>6, <2>1, <2>2 DEF In
<1>8. ASSUME NEW j \in 1 .. m, \A i \in 1 .. n : Spot(layout, i) # j PROVE titles[j] = <<>>
  <2>1. j \in Nat \ {0}
    OBVIOUS
  <2>2. In(titles, j) = <<>>
    BY <1>3, <1>8, <2>1 DEF Spread
  <2> QED BY <1>5, <2>2 DEF In
<1>9. PICK keys : keys = [i \in 1 .. m |-> normalizeKey(titles[i])]
  OBVIOUS
<1>10. keys \in Seq(Text) /\ Len(keys) = m
  <2>1. \A i \in 1 .. m : normalizeKey(titles[i]) \in Text
    <3>1. \A i \in 1 .. m : titles[i] \in Text
      BY <1>5
    <3> QED BY <3>1, NormalizeKeyIs
  <2>2. keys \in [1 .. m -> Text]
    BY <1>9, <2>1
  <2> QED BY <2>2, FunctionIsSeq
<1>11. PICK f : /\ StagesOf(f, m, Records, EmptyRecord, RowStep(keys, data))
                /\ RowRecord(keys, data) = f[m]
  BY <1>6, <1>10, RowRecordStages
<1>12. PICK g : /\ StagesOf(g, n, Records, EmptyRecord, MeaningStep(layout, table))
                /\ Meaning(layout, table) = g[n]
  BY <1>1, MeaningStages
<1>13. ASSUME NEW j \in 1 .. m PROVE f[j] = Put(f[j - 1], keys[j], data[j])
  <2>1. f[j] = RowStep(keys, data)[j][f[j - 1]] /\ f[j - 1] \in Records
    <3>1. j - 1 \in 0 .. m
      BY <1>4
    <3> QED BY <1>11, <3>1 DEF StagesOf
  <2>2. ~ (j > m)
    BY <1>4
  <2>3. RowStep(keys, data)[j] = [r \in Records |-> Put(r, keys[j], data[j])]
    BY <1>6, <1>10, <2>2 DEF RowStep
  <2> QED BY <2>1, <2>3
<1>14. ASSUME NEW i \in 1 .. n PROVE g[i] = Put(g[i - 1], KeyAt(layout, table, i), table[i].value)
  <2>1. g[i] = MeaningStep(layout, table)[i][g[i - 1]] /\ g[i - 1] \in Records
    <3>1. i - 1 \in 0 .. n
      BY <1>1
    <3> QED BY <1>12, <3>1 DEF StagesOf
  <2> QED BY <1>1, <2>1 DEF MeaningStep
<1> DEFINE Counts(j) == Titled(f[j]) = g[Upto(layout, j)]
           T == {j \in Nat : j <= m => Counts(j)}
<1>15. 0 \in T
  <2>1. f[0] = EmptyRecord /\ g[0] = EmptyRecord
    BY <1>11, <1>12 DEF StagesOf
  <2> QED BY <1>1, <2>1, TitledIs, UptoEnds
<1>16. ASSUME NEW j \in Nat, j \in T PROVE j + 1 \in T
  <2>1. SUFFICES ASSUME j + 1 <= m PROVE Counts(j + 1)
    OBVIOUS
  <2>2. j + 1 \in 1 .. m /\ (j + 1) - 1 = j /\ j <= m
    BY <1>4, <2>1
  <2>3. PICK a : a = f[j]
    OBVIOUS
  <2>4. Titled(a) = g[Upto(layout, j)]
    BY <1>16, <2>2, <2>3
  <2>5. PICK key, value : key = keys[j + 1] /\ value = data[j + 1]
    OBVIOUS
  <2>6. f[j + 1] = Put(a, key, value) /\ key = normalizeKey(titles[j + 1])
    BY <1>9, <1>13, <2>2, <2>3, <2>5
  <2>7. CASE Skipped(layout, j + 1)
    <3>1. Upto(layout, j + 1) = Upto(layout, j) /\ \A i \in 1 .. n : Spot(layout, i) # j + 1
      BY <1>1, <1>4, <2>1, <2>7, UptoIs
    <3>2. key = <<>>
      BY <1>8, <2>2, <2>6, <3>1, BlankKey
    <3> QED BY <2>4, <2>6, <3>1, <3>2, TitledIs
  <2>8. CASE ~Skipped(layout, j + 1)
    <3>1. PICK i \in 1 .. n : i = Upto(layout, j + 1) /\ i = Upto(layout, j) + 1 /\ Spot(layout, i) = j + 1
      BY <1>1, <1>4, <2>1, <2>8, UptoIs
    <3>2. Upto(layout, j) \in 0 .. n
      BY <1>1, <1>4, <2>1, UptoIs
    <3>3. i - 1 = Upto(layout, j)
      BY <3>1, <3>2
    <3>4. key = normalizeKey(table[i].key) /\ value = table[i].value /\ key # <<>>
      BY <1>1, <1>7, <2>5, <2>6, <3>1
    <3>5. KeyAt(layout, table, i) = key
      BY <1>1, <3>4, PathIs DEF Flat
    <3>6. g[i] = Put(Titled(a), key, value)
      BY <1>14, <2>4, <3>3, <3>4, <3>5
    <3> QED BY <2>6, <3>1, <3>4, <3>6, TitledIs
  <2> QED BY <2>7, <2>8
<1> HIDE DEF T
<1>17. m \in T
  BY <1>15, <1>16, Inductive
<1>18. Titled(f[m]) = g[n]
  <2>1. m <= m
    BY <1>4
  <2>2. Counts(m)
    BY <1>17, <2>1 DEF T
  <2> QED BY <1>1, <1>4, <2>2, UptoEnds
<1>19. [i \in DOMAIN titles |-> normalizeKey(titles[i])] = keys
  BY <1>5, <1>9
<1> QED BY <1>11, <1>12, <1>18, <1>19

\* Whatever the titles and values: a value is in the column of its own title.
LEMMA SpreadApart ==
  ASSUME NEW layout, Flat(layout), NEW table \in Tables, NEW titles, NEW data,
         Spread(layout, Keys(table), titles), Spread(layout, Values(table), data)
  PROVE  Apart(layout, Titled(RowRecord([i \in DOMAIN titles |-> normalizeKey(titles[i])], data)), table)
<1>1. PICK n \in Nat \ {0} : n = Len(table) /\ \A i \in 1 .. n : table[i].key \in Text
  BY TableIs
<1>2. PICK heads, cells : /\ heads = Keys(table) /\ cells = Values(table) /\ Len(heads) = n /\ Len(cells) = n
                          /\ \A i \in 1 .. n : heads[i] = table[i].key /\ cells[i] = table[i].value
  BY <1>1, KeysAndValues
<1>3. titles \in Seq(Text) /\ data \in Seq(Text)
  BY DEF Spread
<1>4. PICK m \in Nat : m = Len(titles) /\ DOMAIN titles = 1 .. m /\ \A j \in 1 .. m : titles[j] \in Text
  BY <1>3
<1>5. PICK keys : keys = [i \in 1 .. m |-> normalizeKey(titles[i])]
  OBVIOUS
<1>6. keys \in Seq(Text) /\ Len(keys) = m
  <2>1. keys \in [1 .. m -> Text]
    BY <1>4, <1>5, NormalizeKeyIs
  <2> QED BY <2>1, FunctionIsSeq
<1>7. PICK record : record = RowRecord(keys, data)
  OBVIOUS
<1>8. ASSUME NEW key \in DOMAIN record, key # <<>>
      PROVE  \E i \in 1 .. n : Of(table[i], key, record[key])
  <2>1. PICK j \in 1 .. m : j <= Len(data) /\ keys[j] = key /\ record[key] = data[j]
    BY <1>3, <1>6, <1>7, RowHolds
  <2>2. key = normalizeKey(titles[j])
    BY <1>5, <2>1
  <2>3. titles[j] # <<>>
    BY <1>8, <2>2, BlankKey
  <2>4. In(titles, j) = titles[j] /\ In(data, j) = data[j]
    <3>1. j \in 1 .. Len(data)
      BY <1>3, <2>1
    <3> QED BY <1>4, <3>1 DEF In
  <2>5. PICK i \in 1 .. n : Spot(layout, i) = j
    <3>1. j \in Nat \ {0}
      OBVIOUS
    <3>2. (\A i \in 1 .. n : Spot(layout, i) # j) => In(titles, j) = <<>>
      BY <1>2, <3>1 DEF Spread
    <3> QED BY <2>3, <2>4, <3>2
  <2>6. titles[j] = table[i].key /\ data[j] = table[i].value
    BY <1>2, <2>4, <2>5 DEF Spread
  <2>7. Bare(normalizeKey(key)) = Bare(normalizeKey(table[i].key))
    BY <1>1, <2>2, <2>6, KeyedBare
  <2> QED BY <2>1, <2>6, <2>7 DEF Of
<1>9. Tied(Titled(record), table)
  <2>1. DOMAIN Titled(record) = DOMAIN record \ {<<>>}
    BY DEF Titled
  <2>2. \A key \in DOMAIN record \ {<<>>} : Titled(record)[key] = record[key]
    BY DEF Titled
  <2> QED BY <1>1, <1>8, <2>1, <2>2 DEF Tied
<1>10. [i \in DOMAIN titles |-> normalizeKey(titles[i])] = keys
  BY <1>4, <1>5
<1> QED BY <1>7, <1>9, <1>10, TiedApart

\* A text of one-word runs is the text.
Alone == [x \in Word |-> <<x>>]

LEMMA RunsJoined == \A s \in Text : FlattenSeq([j \in DOMAIN s |-> <<s[j]>>]) = s
<1>1. Alone \in [Word -> Text]
  BY ShortTexts DEF Alone
<1> DEFINE T == {s \in Text : MapFlat(Alone, s) = s}
<1>2. <<>> \in T
  <2>1. PICK e \in Text : e = <<>>
    BY Join
  <2> QED BY <1>1, <2>1, MapFlatNext
<1>3. ASSUME NEW s \in Seq(Word), NEW x \in Word, s \in T PROVE Append(s, x) \in T
  <2>1. s \in Text /\ MapFlat(Alone, s) = s
    BY <1>3
  <2>2. MapFlat(Alone, Append(s, x)) = MapFlat(Alone, s) \o Alone[x]
    BY <1>1, MapFlatNext
  <2>3. Alone[x] = <<x>>
    BY DEF Alone
  <2>4. PICK t : t = Append(s, x)
    OBVIOUS
  <2>5. t = s \o <<x>> /\ t \in Text
    <3>1. t \in Text
      BY <2>4, AppendProperties DEF Text
    <3>2. t = s \o <<x>>
      BY <2>4, JoinOne
    <3> QED BY <3>1, <3>2
  <2>6. MapFlat(Alone, t) = t
    BY <2>1, <2>2, <2>3, <2>4, <2>5
  <2> QED BY <2>4, <2>5, <2>6
<1> HIDE DEF T
<1>4. Seq(Word) \subseteq T
  BY <1>2, <1>3, SeqInductive
<1>5. ASSUME NEW s \in Text PROVE FlattenSeq([j \in DOMAIN s |-> <<s[j]>>]) = s
  <2>1. MapFlat(Alone, s) = s
    BY <1>4 DEF Text, T
  <2>2. PICK n \in Nat : n = Len(s) /\ DOMAIN s = 1 .. n /\ \A j \in 1 .. n : s[j] \in Word
    BY DEF Text
  <2>3. [j \in DOMAIN s |-> <<s[j]>>] = [j \in DOMAIN s |-> Alone[s[j]]]
    BY <2>2 DEF Alone
  <2> QED BY <2>1, <2>3 DEF MapFlat
<1> QED BY <1>5

\* The shared strings of a workbook are its titles and its values.
LEMMA BookStrings ==
  ASSUME NEW layout, NEW table \in Tables, NEW strings, strings = SharedStrings(Book(layout, table).shared)
  PROVE  Lists(strings, 0, Keys(table)) /\ Lists(strings, Len(table), Values(table))
<1>1. PICK n \in Nat : n = Len(table)
  BY TableIs
<1>2. PICK keys \in Seq(Text), data \in Seq(Text) :
        keys = Keys(table) /\ data = Values(table) /\ Len(keys) = n /\ Len(data) = n
  BY <1>1, KeysAndValues
<1>3. PICK texts : texts = keys \o data
  OBVIOUS
<1>4. /\ texts \in Seq(Text) /\ Len(texts) = n + n
      /\ \A i \in 1 .. n : texts[0 + i] = keys[i] /\ texts[n + i] = data[i]
  <2>1. /\ texts \in Seq(Text) /\ Len(texts) = Len(keys) + Len(data)
        /\ \A i \in 1 .. Len(keys) + Len(data) :
             texts[i] = IF i <= Len(keys) THEN keys[i] ELSE data[i - Len(keys)]
    BY <1>3, ConcatProperties
  <2>2. ASSUME NEW i \in 1 .. n PROVE texts[0 + i] = keys[i] /\ texts[n + i] = data[i]
    <3>1. 0 + i = i /\ i \in 1 .. n + n /\ i <= n
      BY <1>1
    <3>2. n + i \in 1 .. n + n /\ ~ (n + i <= n) /\ (n + i) - n = i
      BY <1>1
    <3>3. texts[i] = keys[i]
      BY <1>2, <2>1, <3>1
    <3>4. texts[n + i] = data[i]
      BY <1>2, <2>1, <3>2
    <3> QED BY <3>1, <3>3, <3>4
  <2> QED BY <1>2, <2>1, <2>2
<1>5. DOMAIN texts = 1 .. n + n
  BY <1>4
<1>6. PICK items : items = Book(layout, table).shared
  OBVIOUS
<1>7. items = [i \in DOMAIN texts |-> [j \in DOMAIN texts[i] |-> <<texts[i][j]>>]]
  BY <1>2, <1>3, <1>6 DEF Book
<1>8. ASSUME NEW i \in DOMAIN texts PROVE strings[i] = texts[i] /\ i \in DOMAIN strings
  <2>1. PICK t \in Text : t = texts[i]
    BY <1>4
  <2>2. items[i] = [j \in DOMAIN t |-> <<t[j]>>]
    BY <1>7, <2>1
  <2>3. FlattenSeq(items[i]) = t
    BY <2>2, RunsJoined
  <2>4. DOMAIN items = DOMAIN texts
    BY <1>7
  <2> QED BY <1>6, <2>1, <2>3, <2>4 DEF SharedStrings
<1>9. ASSUME NEW c \in 1 .. n
      PROVE  /\ 0 + c \in DOMAIN strings /\ strings[0 + c] = keys[c]
             /\ n + c \in DOMAIN strings /\ strings[n + c] = data[c]
  <2>1. 0 + c \in DOMAIN texts /\ n + c \in DOMAIN texts
    BY <1>1, <1>5
  <2>2. texts[0 + c] = keys[c] /\ texts[n + c] = data[c]
    BY <1>4
  <2> QED BY <1>8, <2>1, <2>2
<1> QED BY <1>1, <1>2, <1>9 DEF Lists

\* What ParseXLSX makes of a workbook: the record of the first sheet's rows.
TitlesOf(layout, table, strings) == RowCells(Row(layout, Keys(table), 0), strings)
CellsOf(layout, table, strings) == RowCells(Row(layout, Values(table), Len(table)), strings)

LEMMA BookParsed ==
  ASSUME NEW layout, NEW table, NEW strings, strings = SharedStrings(Book(layout, table).shared),
         NEW titles, titles = TitlesOf(layout, table, strings)
  PROVE  ParseXLSX(Book(layout, table))
           = Titled(RowRecord([i \in DOMAIN titles |-> normalizeKey(titles[i])],
                              CellsOf(layout, table, strings)))
<1>1. PICK book : book = Book(layout, table)
  OBVIOUS
<1>2. PICK one, two : one = Row(layout, Keys(table), 0) /\ two = Row(layout, Values(table), Len(table))
  OBVIOUS
<1>3. PICK rows : rows = <<one, two>>
  OBVIOUS
<1>4. book.sheets = [n \in {1, 2} |-> IF n = 1 THEN rows ELSE <<>>]
  BY <1>1, <1>2, <1>3 DEF Book
<1>5. DOMAIN book.sheets = {1, 2} /\ book.sheets[1] = rows
  BY <1>4
<1>6. book.sheets # <<>>
  BY <1>5
<1>7. PICK first : first = CHOOSE n \in DOMAIN book.sheets : \A m \in DOMAIN book.sheets : n <= m
  OBVIOUS
<1>8. first = 1
  BY <1>5, <1>7
<1>9. rows[1] = one /\ rows[2] = two /\ ~ (Len(rows) < 2)
  BY <1>3
<1>10. PICK record : record = RowRecord([i \in DOMAIN titles |-> normalizeKey(titles[i])],
                                        CellsOf(layout, table, strings))
  OBVIOUS
<1>11. record = RowRecord([i \in DOMAIN RowCells(rows[1], strings) |-> normalizeKey(RowCells(rows[1], strings)[i])],
                          RowCells(rows[2], strings))
  BY <1>2, <1>9, <1>10 DEF TitlesOf, CellsOf
<1>12. ParseXLSX(book) = [k \in DOMAIN record \ {<<>>} |-> record[k]]
  <2>1. (CHOOSE n \in DOMAIN book.sheets : \A m \in DOMAIN book.sheets : n <= m) = 1
    BY <1>7, <1>8
  <2>2. SharedStrings(book.shared) = strings
    BY <1>1
  <2> DEFINE F == CHOOSE n \in DOMAIN book.sheets : \A m \in DOMAIN book.sheets : n <= m
             S == SharedStrings(book.shared)
             OfSheet(sheet, shown) ==
               RowRecord([i \in DOMAIN RowCells(sheet[1], shown) |-> normalizeKey(RowCells(sheet[1], shown)[i])],
                         RowCells(sheet[2], shown))
  <2>4. ParseXLSX(book) = IF Len(book.sheets[F]) < 2 THEN Failed
                          ELSE [k \in DOMAIN OfSheet(book.sheets[F], S) \ {<<>>} |-> OfSheet(book.sheets[F], S)[k]]
    BY <1>6 DEF ParseXLSX
  <2>5. OfSheet(rows, strings) = record
    BY <1>11
  <2>6. F = 1 /\ S = strings
    BY <2>1, <2>2
  <2> HIDE DEF F, S, OfSheet
  <2>3. ParseXLSX(book) = IF Len(rows) < 2 THEN Failed ELSE [k \in DOMAIN record \ {<<>>} |-> record[k]]
    BY <1>5, <2>4, <2>5, <2>6
  <2> QED BY <1>9, <2>3
<1> QED BY <1>1, <1>10, <1>12 DEF Titled

\* The rows of a workbook, whatever is in the table.
LEMMA BookSpread ==
  ASSUME NEW layout \in SheetLayouts, ~Broken(layout), NEW table \in Tables
  PROVE  \E titles, cells :
           /\ Spread(layout, Keys(table), titles) /\ Spread(layout, Values(table), cells)
           /\ ParseXLSX(Written(layout, table).body)
                = Titled(RowRecord([i \in DOMAIN titles |-> normalizeKey(titles[i])], cells))
<1>1. Format(layout) = "xlsx" /\ layout \notin {"csv", "csv rows", "docx", "docx runs", "pptx"}
  BY DEF Format, SheetLayouts
<1>2. Written(layout, table).body = Book(layout, table)
  BY <1>1 DEF Written
<1>3. PICK n \in Nat \ {0} : n = Len(table)
  BY TableIs
<1>4. PICK strings : strings = SharedStrings(Book(layout, table).shared)
  OBVIOUS
<1>5. PICK keys \in Seq(Text), data \in Seq(Text) :
        /\ keys = Keys(table) /\ data = Values(table) /\ Len(keys) = n /\ Len(data) = n
  BY <1>3, KeysAndValues
<1>6. keys # <<>> /\ data # <<>>
  BY <1>3, <1>5
<1>7. Lists(strings, 0, keys) /\ Lists(strings, n, data)
  BY <1>3, <1>4, <1>5, BookStrings
<1>8. PICK titles, cells : titles = TitlesOf(layout, table, strings) /\ cells = CellsOf(layout, table, strings)
  OBVIOUS
<1>9. Spread(layout, keys, titles)
  <2>1. 0 \in Nat
    OBVIOUS
  <2> QED BY <1>5, <1>6, <1>7, <1>8, <2>1, RowSpread DEF TitlesOf
<1>10. Spread(layout, data, cells)
  BY <1>3, <1>5, <1>6, <1>7, <1>8, RowSpread DEF CellsOf
<1>11. ParseXLSX(Book(layout, table)) = Titled(RowRecord([i \in DOMAIN titles |-> normalizeKey(titles[i])], cells))
  BY <1>4, <1>8, BookParsed
<1> QED BY <1>2, <1>5, <1>9, <1>10, <1>11

\* A workbook is read as what its table means, however its cells are placed.
LEMMA XLSXUnderstood ==
  ASSUME NEW layout \in SheetLayouts, NEW table \in Tables, Suits(layout, table)
  PROVE  ParseXLSX(Written(layout, table).body) = Meaning(layout, table)
<1>1. Format(layout) = "xlsx" /\ Flat(layout)
  BY DEF Format, Flat, SheetLayouts
<1>2. /\ ~Broken(layout) /\ \A i \in DOMAIN table : normalizeKey(table[i].key) # <<>>
      /\ Reversed(layout) \/ table[Len(table)].value # <<>>
  BY <1>1 DEF Suits, Broken, Reversed, Last
<1>3. PICK titles, cells :
        /\ Spread(layout, Keys(table), titles) /\ Spread(layout, Values(table), cells)
        /\ ParseXLSX(Written(layout, table).body)
             = Titled(RowRecord([i \in DOMAIN titles |-> normalizeKey(titles[i])], cells))
  BY <1>2, BookSpread
<1>4. \A i \in 1 .. Len(table) : normalizeKey(table[i].key) # <<>>
  BY <1>2, TableIs
<1> QED BY <1>1, <1>2, <1>3, <1>4, SpreadMeans

LEMMA XLSXApart ==
  ASSUME NEW layout \in SheetLayouts, ~Broken(layout), NEW table \in Tables
  PROVE  Apart(layout, ParseXLSX(Written(layout, table).body), table)
<1>1. Flat(layout)
  BY DEF Flat, SheetLayouts
<1>2. PICK titles, cells :
        /\ Spread(layout, Keys(table), titles) /\ Spread(layout, Values(table), cells)
        /\ ParseXLSX(Written(layout, table).body)
             = Titled(RowRecord([i \in DOMAIN titles |-> normalizeKey(titles[i])], cells))
  BY BookSpread
<1> QED BY <1>1, <1>2, SpreadApart

-----------------------------------------------------------------------------
(* All formats *)

ParseOwn(layout, table) == Parse(Format(layout), Written(layout, table))
BodyOf(layout, table) == Written(layout, table).body

\* A document of a layout goes to the parser of its format.
LEMMA OwnParser ==
  ASSUME NEW layout \in Layouts, NEW table
  PROVE  \/ /\ layout \in {"csv", "csv rows"}
            /\ ParseOwn(layout, table) = {ParseCSV(BodyOf(layout, table))}
         \/ /\ layout \in {"text", "list", "heading", "bold"}
            /\ ParseOwn(layout, table) = {ParseText(TextBody(layout, table))}
         \/ /\ layout \in {"html", "html split"}
            /\ ParseOwn(layout, table) = {ParseMarkup(HTMLBody(layout, table))}
         \/ /\ layout \in WordLayouts
            /\ ParseOwn(layout, table) = {ParseDOCX(BodyOf(layout, table))}
         \/ /\ layout = "pptx"
            /\ ParseOwn(layout, table) = {ParsePPTX(BodyOf(layout, table))}
         \/ /\ layout \in {"pdf", "pdf split"}
            /\ ParseOwn(layout, table) = {ParsePDF(PDFBody(layout, table))}
         \/ /\ layout \in {"json", "json nested"}
            /\ ParseOwn(layout, table) = JSONRecords(Members(layout, table))
         \/ /\ layout \in SheetLayouts
            /\ ParseOwn(layout, table) = {ParseXLSX(BodyOf(layout, table))}
<1>1. Written(layout, table).format = Format(layout)
  BY DEF Written
<1>2. CASE layout \in {"csv", "csv rows"}
  <2>1. Format(layout) = "csv"
    BY <1>2 DEF Format
  <2> QED BY <1>1, <1>2, <2>1 DEF ParseOwn, Parse, BodyOf
<1>3. CASE layout \in {"text", "list", "heading", "bold"}
  <2>1. Format(layout) = "text"
    BY <1>3 DEF Format
  <2>2. Written(layout, table).body = TextBody(layout, table)
    BY <1>3, <2>1 DEF Written
  <2> QED BY <1>1, <1>3, <2>1, <2>2 DEF ParseOwn, Parse
<1>4. CASE layout \in {"html", "html split"}
  <2>1. Format(layout) = "html"
    BY <1>4 DEF Format
  <2>2. Written(layout, table).body = HTMLBody(layout, table)
    BY <1>4, <2>1 DEF Written
  <2> QED BY <1>1, <1>4, <2>1, <2>2 DEF ParseOwn, Parse
<1>5. CASE layout \in WordLayouts
  <2>1. Format(layout) = "docx"
    BY <1>5 DEF Format, WordLayouts
  <2> QED BY <1>1, <1>5, <2>1 DEF ParseOwn, Parse, BodyOf
<1>6. CASE layout = "pptx"
  <2>1. Format(layout) = "pptx"
    BY <1>6 DEF Format
  <2> QED BY <1>1, <1>6, <2>1 DEF ParseOwn, Parse, BodyOf
<1>7. CASE layout \in {"pdf", "pdf split"}
  <2>1. Format(layout) = "pdf"
    BY <1>7 DEF Format
  <2>2. Written(layout, table).body = PDFBody(layout, table)
    BY <1>7, <2>1 DEF Written
  <2> QED BY <1>1, <1>7, <2>1, <2>2 DEF ParseOwn, Parse
<1>8. CASE layout \in {"json", "json nested"}
  <2>1. Format(layout) = "json"
    BY <1>8 DEF Format
  <2>2. Written(layout, table).body = [kind |-> "object", members |-> Members(layout, table)]
    BY <1>8, <2>1 DEF Written
  <2>3. ParseJSON(Written(layout, table).body) = JSONRecords(Members(layout, table))
    BY <2>2 DEF ParseJSON
  <2> QED BY <1>1, <1>8, <2>1, <2>3 DEF ParseOwn, Parse
<1>9. CASE layout \in SheetLayouts
  <2>1. Format(layout) = "xlsx"
    BY <1>9 DEF Format, SheetLayouts
  <2> QED BY <1>1, <1>9, <2>1 DEF ParseOwn, Parse, BodyOf
<1>10. \/ layout \in {"csv", "csv rows"} \/ layout \in {"text", "list", "heading", "bold"}
       \/ layout \in {"html", "html split"} \/ layout \in WordLayouts \/ layout = "pptx"
       \/ layout \in {"pdf", "pdf split"} \/ layout \in {"json", "json nested"} \/ layout \in SheetLayouts
  BY DEF Layouts, WordLayouts, SheetLayouts
<1> QED BY <1>2, <1>3, <1>4, <1>5, <1>6, <1>7, <1>8, <1>9, <1>10
LEMMA ScannedIs ==
  ASSUME NEW layout \in ScannedLayouts
  PROVE  /\ layout \in Layouts /\ Flat(layout) /\ Format(layout) \notin {"csv", "xlsx", "json"}
         /\ layout \notin {"html split", "pdf split", "json", "json nested", "csv", "csv rows"}
         /\ layout \notin SheetLayouts
BY DEF ScannedLayouts, WordLayouts, Layouts, Format, Flat, SheetLayouts

\* Whatever a layout wraps its lines in, they are what is scanned.
LEMMA ScannedLaid ==
  ASSUME NEW layout \in ScannedLayouts, NEW table \in Tables, Lined(table)
  PROVE  \E t : Lays(t, LinesOf(layout, table)) /\ ParseOwn(layout, table) = {ParseText(t)}
<1>1. layout \in Layouts
  BY ScannedIs
<1>2. CASE layout \in {"text", "list", "heading", "bold"}
  <2>1. ParseOwn(layout, table) = {ParseText(TextBody(layout, table))}
    BY <1>1, <1>2, OwnParser DEF WordLayouts, SheetLayouts
  <2> QED BY <1>2, <2>1, TextLaid
<1>3. CASE layout = "html"
  <2>1. ParseOwn(layout, table) = {ParseMarkup(HTMLBody(layout, table))}
    BY <1>1, <1>3, OwnParser DEF WordLayouts, SheetLayouts
  <2> QED BY <1>3, <2>1, HTMLLaid
<1>4. CASE layout \in WordLayouts
  <2>1. ParseOwn(layout, table) = {ParseDOCX(BodyOf(layout, table))}
    BY <1>1, <1>4, OwnParser DEF WordLayouts, SheetLayouts
  <2> QED BY <1>4, <2>1, DOCXLaid DEF BodyOf
<1>5. CASE layout = "pptx"
  <2>1. ParseOwn(layout, table) = {ParsePPTX(BodyOf(layout, table))}
    BY <1>1, <1>5, OwnParser DEF WordLayouts, SheetLayouts
  <2> QED BY <1>5, <2>1, PPTXLaid DEF BodyOf
<1>6. CASE layout = "pdf"
  <2>1. ParseOwn(layout, table) = {ParsePDF(PDFBody(layout, table))}
    BY <1>1, <1>6, OwnParser DEF WordLayouts, SheetLayouts
  <2> QED BY <1>6, <2>1, PDFLaid
<1> QED BY <1>2, <1>3, <1>4, <1>5, <1>6 DEF ScannedLayouts

\* Lines of fields that suit their format say what the table means.
LEMMA LinesUnderstood ==
  ASSUME NEW layout \in ScannedLayouts, NEW table \in Tables, Suits(layout, table)
  PROVE  /\ Lined(table) /\ AllLack(LinesOf(layout, table), "64K")
         /\ ReadLines(LinesOf(layout, table)) = Meaning(layout, table)
<1>1. \A i \in 1 .. Len(table) : FitKey(table[i].key) /\ FitValue(table[i].value)
  BY ScannedIs, SuitsIs
<1>2. ASSUME NEW i \in 1 .. Len(table)
      PROVE  \A mark \in {"\n", "&#58;", "64K"} : Lacks(table[i].key, mark) /\ Lacks(table[i].value, mark)
  BY <1>1, FitMarks
<1>3. Lined(table)
  BY <1>2 DEF Lined
<1>4. PICK raws : raws = LinesOf(layout, table)
  OBVIOUS
<1>5. /\ raws \in Seq(Text) /\ Len(raws) = Len(table)
      /\ \A i \in 1 .. Len(table) : raws[i] = LineOf(layout, table[i]) /\ table[i] \in Fields
  BY <1>3, <1>4, LinesAre DEF Ruled
<1>6. AllLack(raws, "64K")
  <2>1. "64K" \notin LineWords
    BY DEF LineWords
  <2>2. ASSUME NEW i \in 1 .. Len(table) PROVE Lacks(raws[i], "64K")
    <3>1. Lacks(table[i].key, "64K") /\ Lacks(table[i].value, "64K")
      BY <1>2
    <3> QED BY <1>5, <2>1, <3>1, LineIs
  <2> QED BY <1>5, <2>2 DEF AllLack
<1>7. ASSUME NEW i \in 1 .. Len(table)
      PROVE  FieldLine(raws[i], KeyAt(layout, table, i), table[i].value)
  <2>1. PICK field \in Fields : field = table[i] /\ FitKey(field.key) /\ FitValue(field.value)
    BY <1>1, <1>5
  <2>2. raws[i] \in LinesFor(field)
    <3>1. LineOf(layout, field) \in LinesFor(field)
      BY ScannedLine
    <3> QED BY <1>5, <2>1, <3>1
  <2>3. Speaks(raws[i], field)
    BY <2>1, <2>2, FieldSpeaks DEF LinesFor
  <2>4. KeyAt(layout, table, i) = normalizeKey(field.key)
    BY <2>1, PathIs, ScannedIs DEF Flat
  <2> QED BY <2>1, <2>3, <2>4 DEF Speaks
<1> QED BY <1>3, <1>4, <1>5, <1>6, <1>7, LinesMean

\* What suits its format is understood, whatever the format.
LEMMA OwnUnderstood ==
  ASSUME NEW layout \in Layouts, NEW table \in Tables, Suits(layout, table),
         NEW record \in Parse(Format(layout), Written(layout, table))
  PROVE  record = Meaning(layout, table)
<1>1. record \in ParseOwn(layout, table)
  BY DEF ParseOwn
<1>2. CASE layout \in {"csv", "csv rows"}
  <2>1. layout \in CSVLayouts /\ ParseOwn(layout, table) = {ParseCSV(BodyOf(layout, table))}
    BY <1>2, OwnParser DEF CSVLayouts, WordLayouts, SheetLayouts
  <2> QED BY <1>1, <2>1, CSVUnderstood DEF BodyOf
<1>3. CASE layout \in {"json", "json nested"}
  <2>1. layout \in JSONLayouts /\ ParseOwn(layout, table) = JSONRecords(Members(layout, table))
    BY <1>3, OwnParser DEF JSONLayouts, WordLayouts, SheetLayouts
  <2> QED BY <1>1, <2>1, JSONUnderstood
<1>4. CASE layout \in SheetLayouts
  <2>1. ParseOwn(layout, table) = {ParseXLSX(BodyOf(layout, table))}
    BY <1>4, OwnParser DEF WordLayouts, SheetLayouts
  <2> QED BY <1>1, <1>4, <2>1, XLSXUnderstood DEF BodyOf
<1>5. CASE layout \in ScannedLayouts
  <2>1. /\ Lined(table) /\ AllLack(LinesOf(layout, table), "64K")
        /\ ReadLines(LinesOf(layout, table)) = Meaning(layout, table)
    BY <1>5, LinesUnderstood
  <2>2. PICK t : Lays(t, LinesOf(layout, table)) /\ ParseOwn(layout, table) = {ParseText(t)}
    BY <1>5, <2>1, ScannedLaid
  <2>3. ParseText(t) = ReadLines(LinesOf(layout, table))
    BY <2>1, <2>2, LaidParsed
  <2> QED BY <1>1, <2>1, <2>2, <2>3
<1>6. CASE layout \in {"html split", "pdf split"}
  BY <1>6 DEF Suits, Format
<1> QED BY <1>2, <1>3, <1>4, <1>5, <1>6 DEF Layouts, ScannedLayouts, WordLayouts, SheetLayouts

-----------------------------------------------------------------------------
(* Values stay with their keys, whatever the table *)

LEMMA FreeLacks ==
  ASSUME NEW s \in Text, NEW marks, Free(s, marks)
  PROVE  \A mark \in marks : Lacks(s, mark)
<1>1. \A i \in DOMAIN s : s[i] \notin marks
  BY DEF Free, ToSet
<1>2. DOMAIN s = 1 .. Len(s)
  BY DEF Text
<1> QED BY <1>1, <1>2 DEF Lacks

OneLined(table) == \A i \in DOMAIN table : OneLine(table[i])

\* Lines that hold a field each are read as no other.
LEMMA LinesApart ==
  ASSUME NEW layout \in ScannedLayouts, NEW table \in Tables, OneLined(table)
  PROVE  Lined(table) /\ Tied(ReadLines(LinesOf(layout, table)), table)
<1>1. ASSUME NEW i \in 1 .. Len(table)
      PROVE  /\ Lacks(table[i].key, ":") /\ Unled(table[i].key)
             /\ \A mark \in {"\n", "&#58;"} : Lacks(table[i].key, mark) /\ Lacks(table[i].value, mark)
  <2>1. PICK k \in Text, v \in Text : k = table[i].key /\ v = table[i].value
    BY TableIs
  <2>2. OneLine(table[i])
    BY TableIs DEF OneLined
  <2>3. Free(k, {":", "\n", "&#58;"}) /\ Unled(k) /\ Free(v, {"\n", "&#58;"})
    BY <2>1, <2>2 DEF OneLine
  <2>4. \A mark \in {":", "\n", "&#58;"} : Lacks(k, mark)
    BY <2>3, FreeLacks
  <2>5. \A mark \in {"\n", "&#58;"} : Lacks(v, mark)
    BY <2>3, FreeLacks
  <2> QED BY <2>1, <2>3, <2>4, <2>5
<1>2. Lined(table)
  BY <1>1 DEF Lined
<1>3. PICK raws : raws = LinesOf(layout, table)
  OBVIOUS
<1>4. /\ raws \in Seq(Text) /\ Len(raws) = Len(table)
      /\ \A i \in 1 .. Len(table) : raws[i] = LineOf(layout, table[i]) /\ table[i] \in Fields
  BY <1>2, <1>3, LinesAre DEF Ruled
<1>5. ASSUME NEW i \in 1 .. Len(table) PROVE Tells(raws[i], table[i])
  <2>1. PICK field \in Fields : field = table[i] /\ Unled(field.key)
    BY <1>1, <1>4
  <2>2. raws[i] \in LinesFor(field)
    <3>1. LineOf(layout, field) \in LinesFor(field)
      BY ScannedLine
    <3> QED BY <1>4, <2>1, <3>1
  <2> QED BY <2>1, <2>2, FieldTells DEF LinesFor
<1>6. table \in Seq(Fields)
  BY TableIs
<1>7. Tied(ReadLines(raws), table)
  BY <1>1, <1>4, <1>5, <1>6, LinesTied
<1> QED BY <1>2, <1>3, <1>7

LEMMA LaidApart ==
  ASSUME NEW layout \in ScannedLayouts, NEW table \in Tables, OneLined(table),
         NEW t, Lays(t, LinesOf(layout, table)), ParseText(t) # Failed
  PROVE  Apart(layout, ParseText(t), table)
<1>1. ParseText(t) = ReadLines(LinesOf(layout, table))
  BY LaidParsed
<1> QED BY <1>1, LinesApart, TiedApart, ScannedIs

Unsplit == Layouts \ {"html split", "pdf split", "xlsx runs"}

LEMMA OwnApart ==
  ASSUME NEW layout \in Unsplit, NEW table \in Tables,
         Format(layout) \in {"csv", "xlsx", "json"} \/ OneLined(table),
         NEW record \in ParseOwn(layout, table), record # Failed
  PROVE  Apart(layout, record, table)
<1>1. layout \in Layouts
  BY DEF Unsplit
<1>2. CASE layout \in {"csv", "csv rows"}
  <2>1. layout \in CSVLayouts /\ ParseOwn(layout, table) = {ParseCSV(BodyOf(layout, table))}
    BY <1>1, <1>2, OwnParser DEF CSVLayouts, WordLayouts, SheetLayouts
  <2> QED BY <2>1, CSVApart DEF BodyOf
<1>3. CASE layout \in {"json", "json nested"}
  <2>1. ParseOwn(layout, table) = JSONRecords(Members(layout, table))
    BY <1>1, <1>3, OwnParser DEF WordLayouts, SheetLayouts
  <2> QED BY <2>1, JSONApart
<1>4. CASE layout \in SheetLayouts
  <2>1. ParseOwn(layout, table) = {ParseXLSX(BodyOf(layout, table))}
    BY <1>1, <1>4, OwnParser DEF WordLayouts, SheetLayouts
  <2>2. ~Broken(layout)
    BY DEF Unsplit, Broken
  <2> QED BY <1>4, <2>1, <2>2, XLSXApart DEF BodyOf
<1>5. CASE layout \in ScannedLayouts
  <2>1. OneLined(table)
    BY <1>5, ScannedIs
  <2>2. Lined(table)
    BY <1>5, <2>1, LinesApart
  <2>3. PICK t : Lays(t, LinesOf(layout, table)) /\ ParseOwn(layout, table) = {ParseText(t)}
    BY <1>5, <2>2, ScannedLaid
  <2> QED BY <1>5, <2>1, <2>3, LaidApart
<1> QED BY <1>2, <1>3, <1>4, <1>5 DEF Unsplit, Layouts, ScannedLayouts, WordLayouts, SheetLayouts

\* A text that is taken for a page is read as the text it is.
LEMMA TextAsPage ==
  ASSUME NEW t \in Text, Lacks(t, "&#58;")
  PROVE  ParseMarkup(<<Piece("text", t)>>) = ParseText(t)
<1>1. PICK piece \in Snippets : piece = Piece("text", t)
  BY PieceIs
<1>2. PICK item \in [Snippets -> Text] : item = MarkupItem
  BY MarkupItemIs
<1>3. item[piece] = t
  BY <1>1, <1>2 DEF MarkupItem, Piece
<1>4. MapFlat(item, <<piece>>) = t
  BY <1>3, MapFlatOne
<1>5. <<piece>> \in Seq(Snippets)
  BY PiecesAre
<1>6. MapFlat(Unescape, t) = t
  BY UnescapeIs
<1> QED BY <1>1, <1>2, <1>4, <1>5, <1>6, MarkupItemIs

\* HTML and XML have one parser.
LEMMA SameParser ==
  ASSUME NEW format, NEW layout \in Layouts, NEW table,
         format = Format(layout) \/ (format \in {"html", "xml"} /\ Format(layout) = "html")
  PROVE  Parse(format, Written(layout, table)) = ParseOwn(layout, table)
<1>1. Written(layout, table).format = Format(layout)
  BY DEF Written
<1>2. CASE format = Format(layout)
  BY <1>2 DEF ParseOwn
<1>3. CASE format = "xml" /\ Format(layout) = "html"
  <2>1. {format, Format(layout)} = {"html", "xml"}
    BY <1>3
  <2>2. Parse(format, Written(layout, table)) = {ParseMarkup(Written(layout, table).body)}
    BY <1>1, <1>3, <2>1 DEF Parse
  <2>3. ParseOwn(layout, table) = {ParseMarkup(Written(layout, table).body)}
    BY <1>1, <1>3 DEF ParseOwn, Parse
  <2> QED BY <2>2, <2>3
<1> QED BY <1>2, <1>3

LEMMA TextIsMisread ==
  ASSUME NEW format \in {"html", "xml"}, NEW layout \in Layouts, NEW table, Format(layout) = "text"
  PROVE  /\ layout \in {"text", "list", "heading", "bold"}
         /\ Parse(format, Written(layout, table)) = {ParseMarkup(<<Piece("text", TextBody(layout, table))>>)}
<1>1. layout \in {"text", "list", "heading", "bold"}
  BY DEF Layouts, Format
<1>2. Written(layout, table).format = "text" /\ Written(layout, table).body = TextBody(layout, table)
  BY <1>1 DEF Written
<1>3. format # "text" /\ {format, "text"} # {"html", "xml"}
  OBVIOUS
<1>4. Parse(format, Written(layout, table)) = Misread(format, Written(layout, table))
  BY <1>2, <1>3 DEF Parse
<1>5. Misread(format, Written(layout, table)) = {ParseMarkup(<<Piece("text", TextBody(layout, table))>>)}
  BY <1>2 DEF Misread, Piece
<1> QED BY <1>1, <1>4, <1>5

\* Read as what it was written as, or a text as a page.
LEMMA ParseApart ==
  ASSUME NEW format, NEW layout \in Unsplit, NEW table \in Tables, ReadAsWritten(layout, format),
         Format(layout) \in {"csv", "xlsx", "json"} \/ OneLined(table),
         NEW record \in Parse(format, Written(layout, table)), record # Failed
  PROVE  Apart(layout, record, table)
<1>1. layout \in Layouts
  BY DEF Unsplit
<1>2. CASE format \in {"html", "xml"} /\ Format(layout) = "text"
  <2>1. layout \in {"text", "list", "heading", "bold"}
    BY <1>1, <1>2, TextIsMisread
  <2>2. layout \in ScannedLayouts /\ OneLined(table)
    BY <1>2, <2>1 DEF ScannedLayouts
  <2>3. PICK body : body = TextBody(layout, table)
    OBVIOUS
  <2>4. Lined(table)
    BY <2>2, LinesApart
  <2>5. Lays(body, LinesOf(layout, table)) /\ AllLack(LinesOf(layout, table), "&#58;")
    BY <2>1, <2>2, <2>3, <2>4, TextLaid, LinesAre
  <2>6. body \in Text /\ Lacks(body, "&#58;")
    BY <2>5 DEF Lays
  <2>7. record = ParseText(body)
    <3>1. Parse(format, Written(layout, table)) = {ParseMarkup(<<Piece("text", body)>>)}
      BY <1>1, <1>2, <2>3, TextIsMisread
    <3>2. ParseMarkup(<<Piece("text", body)>>) = ParseText(body)
      BY <2>6, TextAsPage
    <3> QED BY <3>1, <3>2
  <2> QED BY <2>2, <2>5, <2>7, LaidApart
<1>3. CASE format = Format(layout) \/ (format \in {"html", "xml"} /\ Format(layout) = "html")
  BY <1>1, <1>3, SameParser, OwnApart
<1> QED BY <1>2, <1>3 DEF ReadAsWritten

-----------------------------------------------------------------------------
(* The characters of CSV *)

LEMMA CSVSigns == <<Comma>> \in Text /\ <<Quote>> \in Text /\ <<Quote, Quote>> \in Text
<1>1. Comma \in Word /\ Quote \in Word
  BY FormatAssumption DEF FormatAssumption, Word
<1> QED BY <1>1, ShortTexts

LEMMA CSVCellType == \A cell \in Text : CSVCell(cell) \in Text
<1> SUFFICES ASSUME NEW cell \in Text PROVE CSVCell(cell) \in Text
  OBVIOUS
<1> DEFINE parts == [i \in DOMAIN cell |-> IF cell[i] = Quote THEN <<Quote, Quote>> ELSE <<cell[i]>>]
<1>1. \A i \in 1 .. Len(cell) : <<cell[i]>> \in Text
  <2>1. \A i \in 1 .. Len(cell) : cell[i] \in Word
    BY DEF Text
  <2> QED BY <2>1, ShortTexts
<1>2. parts \in Seq(Text)
  <2>1. parts \in [1 .. Len(cell) -> Text]
    BY <1>1, CSVSigns, TextDomain
  <2>2. Len(cell) \in Nat
    BY TextDomain
  <2> HIDE DEF parts
  <2> QED BY <2>1, <2>2, FunctionIsSeq
<1> HIDE DEF parts
<1>3. PICK inner \in Text : inner = FlattenSeq(parts)
  BY <1>2, PartsFlat
<1>4. (<<Quote>> \o inner) \o <<Quote>> \in Text
  <2>1. PICK q \in Text : q = <<Quote>>
    BY CSVSigns
  <2>2. q \o inner \in Text
    BY Join
  <2> QED BY <2>1, <2>2, Join
<1>5. CSVCell(cell) = cell \/ CSVCell(cell) = (<<Quote>> \o inner) \o <<Quote>>
  BY <1>3 DEF CSVCell, parts
<1> QED BY <1>4, <1>5

LEMMA CSVLineType == \A row \in Seq(Text) : CSVLine(row) \in Text
<1> SUFFICES ASSUME NEW row \in Seq(Text) PROVE CSVLine(row) \in Text
  OBVIOUS
<1> DEFINE parts == [i \in DOMAIN row |-> (IF i = 1 THEN <<>> ELSE <<Comma>>) \o CSVCell(row[i])]
<1>1. PICK q \in Word, nl \in Word : q = Quote /\ nl = "\n"
  BY FormatAssumption, MarksAreWords DEF FormatAssumption, Word
<1>2. PICK pair \in Text, end \in Text : pair = <<q, q, nl>> /\ end = <<nl>>
  BY ShortTexts
<1>3. ASSUME NEW i \in 1 .. Len(row)
      PROVE  (IF i = 1 THEN <<>> ELSE <<Comma>>) \o CSVCell(row[i]) \in Text
  <2>1. PICK cell \in Text : cell = CSVCell(row[i])
    BY CSVCellType
  <2>2. PICK sign \in Text : sign = IF i = 1 THEN <<>> ELSE <<Comma>>
    BY CSVSigns, Join
  <2> QED BY <2>1, <2>2, Join
<1>4. parts \in Seq(Text)
  <2>1. Len(row) \in Nat /\ DOMAIN row = 1 .. Len(row)
    OBVIOUS
  <2>2. parts \in [1 .. Len(row) -> Text]
    BY <1>3, <2>1
  <2> HIDE DEF parts
  <2> QED BY <2>1, <2>2, FunctionIsSeq
<1> HIDE DEF parts
<1>5. PICK inner \in Text : inner = FlattenSeq(parts)
  BY <1>4, PartsFlat
<1>6. CSVLine(row) = pair \/ CSVLine(row) = inner \o end
  BY <1>1, <1>2, <1>5 DEF CSVLine, parts
<1>7. inner \o end \in Text
  BY Join
<1> QED BY <1>6, <1>7

LEMMA CSVTextType == \A rows \in Seq(Seq(Text)) : CSVText(rows) \in Text
<1> SUFFICES ASSUME NEW rows \in Seq(Seq(Text)) PROVE CSVText(rows) \in Text
  OBVIOUS
<1> DEFINE parts == [i \in DOMAIN rows |-> CSVLine(rows[i])]
<1>1. parts \in Seq(Text)
  <2>1. Len(rows) \in Nat /\ DOMAIN rows = 1 .. Len(rows) /\ \A i \in 1 .. Len(rows) : rows[i] \in Seq(Text)
    OBVIOUS
  <2>2. parts \in [1 .. Len(rows) -> Text]
    BY <2>1, CSVLineType
  <2> HIDE DEF parts
  <2> QED BY <2>1, <2>2, FunctionIsSeq
<1> QED BY <1>1, PartsFlat DEF CSVText

CSVReader ==
  [at : {"start", "bare", "quoted", "closed", "wrong"},
   rows : Seq(Seq(Text)), row : Seq(Text), cell : Text]

LEMMA CSVStepType ==
  /\ CSVStart \in CSVReader
  /\ \A s \in CSVReader, t \in Word : CSVStep(s, t) \in CSVReader
<1>1. CSVStart \in CSVReader
  <2>1. <<>> \in Text /\ <<>> \in Seq(Text) /\ <<>> \in Seq(Seq(Text))
    BY EmptySeq, Join
  <2> QED BY <2>1 DEF CSVStart, ReaderAt, CSVReader
<1>2. ASSUME NEW s \in CSVReader, NEW t \in Word PROVE CSVStep(s, t) \in CSVReader
  <2>1. PICK place \in {"start", "bare", "quoted", "closed", "wrong"},
             rows \in Seq(Seq(Text)), row \in Seq(Text), cell \in Text :
          s = ReaderAt(place, rows, row, cell)
    BY DEF CSVReader, ReaderAt
  <2>2. PICK longer \in Text, ended \in Seq(Text), more \in Seq(Seq(Text)), blank \in Text, none \in Seq(Text) :
          /\ longer = Append(cell, t) /\ ended = Append(row, cell) /\ more = Append(rows, ended)
          /\ blank = <<>> /\ none = <<>>
    <3>1. Append(cell, t) \in Text /\ Append(row, cell) \in Seq(Text)
      BY AppendProperties DEF Text
    <3>2. Append(rows, Append(row, cell)) \in Seq(Seq(Text))
      BY <3>1, AppendProperties
    <3>3. <<>> \in Text /\ <<>> \in Seq(Text)
      BY EmptySeq, Join
    <3> QED BY <3>1, <3>2, <3>3
  <2>3. \A a \in {"start", "bare", "quoted", "closed", "wrong"}, r \in Seq(Seq(Text)), q \in Seq(Text), c \in Text :
          ReaderAt(a, r, q, c) \in CSVReader
    BY DEF CSVReader, ReaderAt
  <2>4. s.at = place /\ s.rows = rows /\ s.row = row /\ s.cell = cell
    BY <2>1 DEF ReaderAt
  <2> DEFINE y == CSVStep(s, t)
  <2>5. y = s \/ y \in {ReaderAt("start", rows, ended, blank), ReaderAt("start", more, none, blank),
                        ReaderAt("bare", rows, row, longer), ReaderAt("quoted", rows, row, longer),
                        ReaderAt("quoted", rows, row, cell), ReaderAt("closed", rows, row, cell),
                        ReaderAt("wrong", rows, row, cell)}
    <3>1. CASE place = "wrong"
      BY <2>2, <2>4, <3>1 DEF CSVStep
    <3>2. CASE place = "quoted"
      BY <2>2, <2>4, <3>2 DEF CSVStep
    <3>3. CASE place = "start"
      BY <2>2, <2>4, <3>3 DEF CSVStep
    <3>4. CASE place = "bare"
      BY <2>2, <2>4, <3>4 DEF CSVStep
    <3>5. CASE place = "closed"
      BY <2>2, <2>4, <3>5 DEF CSVStep
    <3> QED BY <3>1, <3>2, <3>3, <3>4, <3>5
  <2> HIDE DEF y
  <2>6. y \in CSVReader
    BY <2>3, <2>5
  <2> QED BY <2>6 DEF y
<1> QED BY <1>1, <1>2

CSVSteps(text) == [i \in 1 .. Len(text) |-> [s \in CSVReader |-> CSVStep(s, text[i])]]

LEMMA CSVStages ==
  ASSUME NEW text \in Seq(Word)
  PROVE  \E f : /\ StagesOf(f, Len(text), CSVReader, CSVStart, CSVSteps(text))
                /\ FoldLeft(CSVStep, CSVStart, text) = f[Len(text)]
<1> DEFINE n == Len(text)
           G == CSVSteps(text)
           s == text
           Op(x, e) == CSVStep(x, e)
           E(h) == [S \in SUBSET (DOMAIN s) |->
                      IF S = {} THEN CSVStart ELSE Op(h[S \ {Max(S)}], s[Max(S)])]
           last == FoldLeft(CSVStep, CSVStart, text)
<1>1. n \in Nat /\ DOMAIN s = 1 .. n /\ CSVStart \in CSVReader
  BY CSVStepType
<1>2. G \in [1 .. n -> [CSVReader -> CSVReader]] /\ \A i \in 1 .. n, x \in CSVReader : G[i][x] = Op(x, s[i])
  <2>1. \A i \in 1 .. n, x \in CSVReader : Op(x, s[i]) \in CSVReader
    <3>1. \A i \in 1 .. n : s[i] \in Word
      OBVIOUS
    <3> QED BY <3>1, CSVStepType
  <2> QED BY <2>1 DEF CSVSteps
<1>3. PICK h : IterOf(h, n, CSVReader, CSVStart, G)
  <2> HIDE DEF G, n, s, Op
  <2> QED BY <1>1, <1>2, IterExists
<1>4. h = E(h)
  <2>1. ASSUME NEW S \in SUBSET (1 .. n), S # {} PROVE h[S] = Op(h[S \ {Max(S)}], s[Max(S)])
    <3> HIDE DEF Op, s, G
    <3>1. Max(S) \in 1 .. n
      BY <1>1, <2>1, MaxOf
    <3>2. h[S \ {Max(S)}] \in CSVReader /\ h[S] = G[Max(S)][h[S \ {Max(S)}]]
      BY <1>3, <2>1 DEF IterOf
    <3> QED BY <1>2, <3>1, <3>2
  <2>2. h \in [SUBSET (1 .. n) -> CSVReader] /\ h[{}] = CSVStart
    BY <1>3 DEF IterOf
  <2> HIDE DEF Op, s, n, G
  <2> QED BY <1>1, <2>1, <2>2
<1>5. PICK iter : iter = E(iter) /\ last = iter[DOMAIN s]
  <2>1. last = (CHOOSE iter : iter = E(iter))[DOMAIN s]
    BY DEF FoldLeft, MapThenFoldSet
  <2> HIDE DEF E, last
  <2> QED BY <1>4, <2>1
<1> HIDE DEF last
<1>6. iter[{}] = CSVStart
  BY <1>5
<1>7. ASSUME NEW S \in SUBSET (1 .. n), S # {}, iter[S \ {Max(S)}] = h[S \ {Max(S)}]
      PROVE  iter[S] = h[S]
  <2> HIDE DEF Op, s, n, G
  <2>1. iter[S] = Op(iter[S \ {Max(S)}], s[Max(S)])
    BY <1>1, <1>5, <1>7
  <2>2. h[S] = Op(h[S \ {Max(S)}], s[Max(S)])
    BY <1>1, <1>4, <1>7
  <2> QED BY <2>1, <2>2, <1>7
<1> HIDE DEF Op, s, n, G, E
<1>8. \E f : StagesOf(f, n, CSVReader, CSVStart, G) /\ iter[1 .. n] = f[n]
  <2>1. Follows(iter, h, n)
    BY <1>7 DEF Follows
  <2> QED BY <1>1, <1>2, <1>3, <1>6, <2>1, FoldIsLastStage
<1> QED BY <1>1, <1>5, <1>8 DEF n, G, last

LEMMA ReadCSVType == \A text \in Text : ReadCSV(text) \in Seq(Seq(Text))
<1> SUFFICES ASSUME NEW text \in Text PROVE ReadCSV(text) \in Seq(Seq(Text))
  OBVIOUS
<1>1. PICK s \in Seq(Word) : s = Append(text, "\n")
  BY MarksAreWords, AppendProperties DEF Text
<1>2. PICK f : StagesOf(f, Len(s), CSVReader, CSVStart, CSVSteps(s)) /\ FoldLeft(CSVStep, CSVStart, s) = f[Len(s)]
  BY CSVStages
<1>3. Len(s) \in 0 .. Len(s)
  OBVIOUS
<1>4. PICK end \in CSVReader : end = FoldLeft(CSVStep, CSVStart, s)
  BY <1>2, <1>3 DEF StagesOf
<1>5. end.rows \in Seq(Seq(Text)) /\ <<>> \in Seq(Seq(Text))
  BY EmptySeq DEF CSVReader
<1>6. ReadCSV(text) = end.rows \/ ReadCSV(text) = <<>>
  BY <1>1, <1>4 DEF ReadCSV
<1> QED BY <1>5, <1>6

-----------------------------------------------------------------------------
(* What a parser returns, whatever the document says *)

Readable(record) == record = Failed \/ DOMAIN record \subseteq Text

LEMMA RecordsAreReadable == \A record \in Records : Readable(record)
BY DEF Records, Readable

LEMMA TextReadable == \A s \in Text : Readable(ParseText(s))
<1> SUFFICES ASSUME NEW s \in Text PROVE Readable(ParseText(s))
  OBVIOUS
<1>1. PICK lines \in Seq(Text) : lines = Lines(s)
  BY LinesNext DEF Text, Pages
<1>2. FoldLeft(TextField, EmptyRecord, lines) \in Records
  BY ReadLinesNext DEF ReadLines
<1>3. ParseText(s) = Failed \/ ParseText(s) \in Records
  BY <1>1, <1>2 DEF ParseText
<1> QED BY <1>3, RecordsAreReadable DEF Readable

LEMMA RowReadable == \A keys, data \in Seq(Text) : RowRecord(keys, data) \in Records
<1> SUFFICES ASSUME NEW keys \in Seq(Text), NEW data \in Seq(Text) PROVE RowRecord(keys, data) \in Records
  OBVIOUS
<1>1. PICK f : /\ StagesOf(f, Len(keys), Records, EmptyRecord, RowStep(keys, data))
               /\ RowRecord(keys, data) = f[Len(keys)]
  BY RowRecordStages
<1>2. Len(keys) \in 0 .. Len(keys)
  OBVIOUS
<1> QED BY <1>1, <1>2 DEF StagesOf

LEMMA MarkupReadable == \A pieces \in Seq(Snippets) : Readable(ParseMarkup(pieces))
<1> SUFFICES ASSUME NEW pieces \in Seq(Snippets) PROVE Readable(ParseMarkup(pieces))
  OBVIOUS
<1>1. PICK s \in Text : s = MapFlat(MarkupItem, pieces)
  BY MarkupItemIs
<1>2. MapFlat(Unescape, s) \in Text
  <2>1. PICK item \in [Word -> Text] : item = Unescape
    BY UnescapeIs
  <2>2. s \in Seq(Word)
    BY DEF Text
  <2> QED BY <2>1, <2>2, MapFlatNext
<1> QED BY <1>1, <1>2, MarkupItemIs, TextReadable

LEMMA OOXMLReadable == \A pieces \in Seq(Snippets) : OOXMLText(pieces) \in Text
<1> SUFFICES ASSUME NEW pieces \in Seq(Snippets) PROVE OOXMLText(pieces) \in Text
  OBVIOUS
<1>1. PICK item \in [Snippets -> Text] : item = OOXMLItem
  BY OOXMLTextIs
<1>2. MapFlat(item, pieces) \in Text
  BY MapFlatNext
<1> QED BY <1>1, <1>2, OOXMLTextIs

LEMMA ShownReadable == \A stream \in Seq(Snippets) : ShownText(stream) \in Text
<1> SUFFICES ASSUME NEW stream \in Seq(Snippets) PROVE ShownText(stream) \in Text
  OBVIOUS
<1>1. ShownAll(stream) \in Shown
  BY ShownNext
<1>2. ShownText(stream) = ShownAll(stream).out
  BY DEF ShownText, ShownAll, NothingShown
<1> QED BY <1>1, <1>2 DEF Shown

\* What each layout makes of a field, in pieces.
Split(field) ==
  <<Piece("tag", <<>>), Piece("text", Append(field.key, ":")), Piece("tag", <<>>),
    Piece("text", <<" ">> \o field.value)>>
Shows(field) ==
  <<Piece("string", Append(field.key, ":")), Piece("show", <<>>), Piece("string", field.value),
    Piece("show", <<>>)>>

LEMMA PartsOfFields ==
  ASSUME NEW field \in Fields
  PROVE  /\ Append(field.key, ":") \in Text /\ <<" ">> \o field.value \in Text
         /\ (field.key \o <<"&#58;">>) \o field.value \in Text
         /\ <<":">> \o field.value \in Text /\ <<":", " ">> \o field.value \in Text
         /\ Line(field) \in Text /\ Stated(field) \in Text /\ Starred(field) \in Text
<1>1. PICK k \in Text, v \in Text : k = field.key /\ v = field.value
  BY DEF Fields
<1>2. PICK colon \in Word, space \in Word, star \in Word, entity \in Word :
        colon = ":" /\ space = " " /\ star = "*" /\ entity = "&#58;"
  BY MarksAreWords
<1>3. /\ <<space>> \in Text /\ <<entity>> \in Text /\ <<colon>> \in Text /\ <<colon, space>> \in Text
      /\ <<star, space, star, star>> \in Text /\ <<star, star, colon, space>> \in Text
  BY ShortTexts
<1>4. Append(k, colon) \in Text
  BY AppendProperties DEF Text
<1>5. PICK s \in Text, e \in Text, c \in Text, g \in Text, p \in Text, q \in Text :
        /\ s = <<space>> /\ e = <<entity>> /\ c = <<colon>> /\ g = <<colon, space>>
        /\ p = <<star, space, star, star>> /\ q = <<star, star, colon, space>>
  BY <1>3
<1>6. /\ s \o v \in Text /\ (k \o e) \o v \in Text /\ c \o v \in Text /\ g \o v \in Text
      /\ (k \o g) \o v \in Text /\ ((p \o k) \o q) \o v \in Text
  <2>1. k \o e \in Text /\ k \o g \in Text /\ p \o k \in Text
    BY Join
  <2>2. (p \o k) \o q \in Text
    BY <2>1, Join
  <2> QED BY <2>1, <2>2, Join
<1> QED BY <1>1, <1>2, <1>4, <1>5, <1>6 DEF Line, Stated, Starred, Gap

LEMMA FieldPieces ==
  ASSUME NEW field \in Fields
  PROVE  /\ Paragraph(field) \in Seq(Snippets) /\ Runs(field) \in Seq(Snippets)
         /\ Element(field) \in Seq(Snippets) /\ Split(field) \in Seq(Snippets)
         /\ Strings(field) \in Seq(Snippets) /\ Shows(field) \in Seq(Snippets)
<1>1. field.key \in Text /\ field.value \in Text /\ <<>> \in Text /\ <<"-">> \in Text
  BY MarksAreWords, ShortTexts, Join DEF Fields
<1>2. Paragraph(field) \in Seq(Snippets) /\ Runs(field) \in Seq(Snippets)
  BY <1>1, PartsOfFields, PieceIs, PiecesAre DEF Paragraph, Runs
<1>3. Element(field) \in Seq(Snippets) /\ Split(field) \in Seq(Snippets)
  BY <1>1, PartsOfFields, PieceIs, PiecesAre DEF Element, Split
<1>4. Strings(field) \in Seq(Snippets) /\ Shows(field) \in Seq(Snippets)
  BY <1>1, PartsOfFields, PieceIs, PiecesAre DEF Strings, Shows
<1> QED BY <1>2, <1>3, <1>4

\* A body of one part to each field.
LEMMA BodyPieces ==
  ASSUME NEW n \in Nat, NEW ss, ss = [i \in 1 .. n |-> ss[i]], \A i \in 1 .. n : ss[i] \in Seq(Snippets)
  PROVE  FlattenSeq(ss) \in Seq(Snippets)
<1>1. ss \in [1 .. n -> Seq(Snippets)]
  OBVIOUS
<1>2. ss \in Seq(Seq(Snippets))
  BY <1>1, FunctionIsSeq
<1> QED BY <1>2, Flatten

LEMMA TextBodyType ==
  ASSUME NEW layout \in {"text", "list", "heading", "bold"}, NEW table \in Tables
  PROVE  TextBody(layout, table) \in Text
<1>1. PICK n \in Nat : n = Len(table) /\ \A i \in 1 .. n : table[i] \in Fields
  BY TableIs
<1>2. PICK nl \in Word : nl = "\n"
  BY MarksAreWords
<1>3. ASSUME NEW i \in 1 .. n PROVE Append(LineOf(layout, table[i]), "\n") \in Text
  <2>1. LineOf(layout, table[i]) \in Text
    BY <1>1, LineIs DEF ScannedLayouts
  <2> QED BY <1>2, <2>1, AppendProperties DEF Text
<1>4. PICK parts : parts = [i \in 1 .. n |-> Append(LineOf(layout, table[i]), "\n")]
  OBVIOUS
<1>5. parts \in [1 .. n -> Text]
  BY <1>3, <1>4
<1>6. parts \in Seq(Text)
  BY <1>5, FunctionIsSeq
<1> QED BY <1>1, <1>4, <1>6, TextBodyIs, PartsFlat

LEMMA HTMLBodyType ==
  ASSUME NEW layout, NEW table \in Tables
  PROVE  HTMLBody(layout, table) \in Seq(Snippets)
<1>1. PICK n \in Nat : n = Len(table) /\ DOMAIN table = 1 .. n /\ \A i \in 1 .. n : table[i] \in Fields
  BY TableIs
<1>2. PICK ss : ss = [i \in 1 .. n |-> IF layout = "html" THEN Element(table[i]) ELSE Split(table[i])]
  OBVIOUS
<1>3. \A i \in 1 .. n : ss[i] \in Seq(Snippets)
  BY <1>1, <1>2, FieldPieces
<1>4. FlattenSeq(ss) \in Seq(Snippets)
  <2>1. ss = [i \in 1 .. n |-> ss[i]]
    BY <1>2
  <2> QED BY <1>3, <2>1, BodyPieces
<1>5. HTMLBody(layout, table) = <<Piece("script", <<>>)>> \o FlattenSeq(ss)
  <2>1. HTMLBody(layout, table)
          = <<Piece("script", <<>>)>> \o FlattenSeq([i \in DOMAIN table |->
              IF layout = "html" THEN Element(table[i]) ELSE Split(table[i])])
    BY DEF HTMLBody, PerField, Element, Split
  <2> QED BY <1>1, <1>2, <2>1
<1>6. <<Piece("script", <<>>)>> \in Seq(Snippets)
  <2>1. <<>> \in Text
    BY Join
  <2>2. Piece("script", <<>>) \in Snippets
    BY <2>1, PieceIs
  <2> QED BY <2>2, PiecesAre
<1>7. PICK a \in Seq(Snippets), b \in Seq(Snippets) : a = <<Piece("script", <<>>)>> /\ b = FlattenSeq(ss)
  BY <1>4, <1>6
<1>8. a \o b \in Seq(Snippets)
  BY ConcatProperties
<1> QED BY <1>5, <1>7, <1>8

LEMMA PDFBodyType ==
  ASSUME NEW layout, NEW table \in Tables
  PROVE  \E stream \in Seq(Snippets) : PDFBody(layout, table) = <<stream>>
<1>1. PICK n \in Nat : n = Len(table) /\ DOMAIN table = 1 .. n /\ \A i \in 1 .. n : table[i] \in Fields
  BY TableIs
<1>2. PICK ss : ss = [i \in 1 .. n |-> IF layout = "pdf" THEN Strings(table[i]) ELSE Shows(table[i])]
  OBVIOUS
<1>3. \A i \in 1 .. n : ss[i] \in Seq(Snippets)
  BY <1>1, <1>2, FieldPieces
<1>4. FlattenSeq(ss) \in Seq(Snippets)
  <2>1. ss = [i \in 1 .. n |-> ss[i]]
    BY <1>2
  <2> QED BY <1>3, <2>1, BodyPieces
<1>5. PDFBody(layout, table) = <<FlattenSeq(ss)>>
  <2>1. PDFBody(layout, table)
          = <<FlattenSeq([i \in DOMAIN table |->
              IF layout = "pdf" THEN Strings(table[i]) ELSE Shows(table[i])])>>
    BY DEF PDFBody, PerField, Strings, Shows
  <2> QED BY <1>1, <1>2, <2>1
<1> QED BY <1>4, <1>5

LEMMA PDFReadable ==
  ASSUME NEW layout, NEW table \in Tables
  PROVE  Readable(ParsePDF(PDFBody(layout, table)))
<1>1. PICK stream \in Seq(Snippets) : PDFBody(layout, table) = <<stream>>
  BY PDFBodyType
<1>2. PICK t \in Text : t = ShownText(stream)
  BY ShownReadable
<1>3. [i \in DOMAIN <<stream>> |-> ShownText(<<stream>>[i])] = <<t>>
  BY <1>2
<1>4. ParsePDF(<<stream>>) = ParseText(FlattenSeq(<<t>>))
  BY <1>3 DEF ParsePDF
<1>5. FlattenSeq(<<t>>) \in Text
  <2>1. <<t>> \in Seq(Text)
    OBVIOUS
  <2> QED BY <2>1, PartsFlat
<1> QED BY <1>1, <1>4, <1>5, TextReadable

LEMMA DOCXReadable ==
  ASSUME NEW layout \in WordLayouts, NEW table \in Tables
  PROVE  Readable(ParseDOCX(BodyOf(layout, table)))
<1>1. PICK n \in Nat : n = Len(table) /\ DOMAIN table = 1 .. n /\ \A i \in 1 .. n : table[i] \in Fields
  BY TableIs
<1>2. PICK ss : ss = [i \in 1 .. n |-> IF layout = "docx" THEN Paragraph(table[i]) ELSE Runs(table[i])]
  OBVIOUS
<1>3. \A i \in 1 .. n : ss[i] \in Seq(Snippets)
  BY <1>1, <1>2, FieldPieces
<1>4. FlattenSeq(ss) \in Seq(Snippets)
  <2>1. ss = [i \in 1 .. n |-> ss[i]]
    BY <1>2
  <2> QED BY <1>3, <2>1, BodyPieces
<1>5. Format(layout) = "docx"
  BY DEF Format, WordLayouts
<1>6. BodyOf(layout, table) = [part \in {"word/document"} |-> FlattenSeq(ss)]
  <2>1. CASE layout = "docx"
    <3>1. BodyOf(layout, table) = [part \in {"word/document"} |-> PerField(table, Paragraph)]
      BY <1>5, <2>1 DEF Written, BodyOf
    <3>2. PerField(table, Paragraph) = FlattenSeq(ss)
      BY <1>1, <1>2, <2>1 DEF PerField
    <3> QED BY <3>1, <3>2
  <2>2. CASE layout = "docx runs"
    <3>1. BodyOf(layout, table) = [part \in {"word/document"} |-> PerField(table, Runs)]
      BY <1>5, <2>2 DEF Written, BodyOf
    <3>2. PerField(table, Runs) = FlattenSeq(ss)
      BY <1>1, <1>2, <2>2 DEF PerField
    <3> QED BY <3>1, <3>2
  <2> QED BY <2>1, <2>2 DEF WordLayouts
<1>7. ParseDOCX(BodyOf(layout, table)) = ParseText(OOXMLText(FlattenSeq(ss)))
  BY <1>6 DEF ParseDOCX
<1> QED BY <1>4, <1>7, OOXMLReadable, TextReadable

LEMMA PPTXReadable ==
  ASSUME NEW table \in Tables
  PROVE  Readable(ParsePPTX(BodyOf("pptx", table)))
<1>1. PICK n \in Nat \ {0} : n = Len(table) /\ DOMAIN table = 1 .. n /\ \A i \in 1 .. n : table[i] \in Fields
  BY TableIs
<1>2. PICK slides : slides = Slides(table)
  OBVIOUS
<1>3. PICK D : D = {8 + i : i \in 1 .. n}
  OBVIOUS
<1>4. DOMAIN slides = D /\ \A m \in D : OOXMLText(slides[m]) \in Text
  <2>1. DOMAIN slides = D /\ \A m \in D : slides[m] = Paragraph(table[m - 8])
    BY <1>1, <1>2, <1>3 DEF Slides
  <2>2. \A m \in D : m - 8 \in 1 .. n
    BY <1>3
  <2>3. \A m \in D : slides[m] \in Seq(Snippets)
    BY <1>1, <2>1, <2>2, FieldPieces
  <2> QED BY <2>1, <2>3, OOXMLReadable
<1>5. Max(D) = n + 8 /\ D # {}
  <2>1. n + 8 \in D /\ \A y \in D : y <= n + 8
    BY <1>1, <1>3
  <2>2. D \in SUBSET Nat
    BY <1>3
  <2>3. Max(D) = n + 8
    BY <2>1, <2>2, MaxIs
  <2> QED BY <2>1, <2>3
<1>6. PICK parts : parts = [j \in 1 .. Max(D) + 1 |->
                             IF j - 1 \in D THEN Append(OOXMLText(slides[j - 1]), "\n") ELSE <<>>]
  OBVIOUS
<1>7. ParsePPTX(slides) = ParseText(FlattenSeq(parts))
  BY <1>4, <1>5, <1>6 DEF ParsePPTX
<1>8. PICK m \in Nat : m = Max(D) + 1
  BY <1>5
<1>9. PICK nl \in Word, e \in Text : nl = "\n" /\ e = <<>>
  BY MarksAreWords, Join
<1>10. ASSUME NEW j \in 1 .. m
       PROVE  (IF j - 1 \in D THEN Append(OOXMLText(slides[j - 1]), "\n") ELSE <<>>) \in Text
  <2>1. \A s \in Text : Append(s, nl) \in Text
    BY AppendProperties DEF Text
  <2> QED BY <1>4, <1>9, <2>1
<1>11. parts \in [1 .. m -> Text]
  BY <1>6, <1>8, <1>10
<1>12. parts \in Seq(Text)
  BY <1>11, FunctionIsSeq
<1>13. BodyOf("pptx", table) = Slides(table)
  BY DEF BodyOf, Written, Slides, Format
<1> QED BY <1>2, <1>7, <1>12, <1>13, PartsFlat, TextReadable

\* Any rows.
LEMMA RowsReadable == \A rows \in Seq(Seq(Text)) : Readable(ParseCSV(rows))
<1> SUFFICES ASSUME NEW rows \in Seq(Seq(Text)) PROVE Readable(ParseCSV(rows))
  OBVIOUS
<1>1. CASE Len(rows) < 2
  BY <1>1 DEF ParseCSV, Readable
<1>2. CASE ~(Len(rows) < 2)
  <2>1. PICK keys \in Seq(Text), data \in Seq(Text) : keys = rows[1] /\ data = rows[2]
    BY <1>2
  <2>2. ParseCSV(rows) = Failed \/ ParseCSV(rows) = RowRecord(keys, data)
    BY <2>1 DEF ParseCSV
  <2> QED BY <2>2, RowReadable, RecordsAreReadable DEF Readable
<1> QED BY <1>1, <1>2

LEMMA CSVRows ==
  ASSUME NEW layout \in CSVLayouts, NEW table \in Tables
  PROVE  BodyOf(layout, table) \in Seq(Seq(Text))
<1>1. Format(layout) = "csv"
  BY DEF Format, CSVLayouts
<1>2. PICK keys \in Seq(Text), data \in Seq(Text) : keys = Keys(table) /\ data = Values(table)
  BY KeysAndValues
<1>3. BodyOf(layout, table) = <<keys, data>> \/ BodyOf(layout, table) = <<keys, data, keys>>
  <2>1. layout = "csv" \/ layout = "csv rows"
    BY DEF CSVLayouts
  <2> QED BY <1>1, <1>2, <2>1 DEF BodyOf, Written
<1>4. <<keys, data>> \in Seq(Seq(Text)) /\ <<keys, data, keys>> \in Seq(Seq(Text))
  OBVIOUS
<1> QED BY <1>3, <1>4

LEMMA CSVReadable ==
  ASSUME NEW layout \in CSVLayouts, NEW table \in Tables
  PROVE  Readable(ParseCSV(BodyOf(layout, table)))
BY CSVRows, RowsReadable

LEMMA RowCellsType ==
  ASSUME NEW layout, NEW strings, NEW texts \in Seq(Text), NEW offset \in Nat, Lists(strings, offset, texts)
  PROVE  RowCells(Row(layout, texts, offset), strings) \in Seq(Text)
<1>1. PICK row : row = Row(layout, texts, offset)
  OBVIOUS
<1>2. PICK n \in Nat : n = Len(texts)
  OBVIOUS
<1>3. LaidBy(row, layout, n, strings)
  BY <1>1, <1>2, RowLaid
<1>4. row \in Seq(Placeable(strings))
  BY <1>3 DEF LaidBy
<1>5. PICK f : /\ StagesOf(f, Len(row), RowsRead, FirstLine, PlaceStep(row, strings))
               /\ RowLine(row, strings) = f[Len(row)]
  BY <1>4, PlaceStages
<1>6. f[Len(row)] \in RowsRead
  <2>1. Len(row) \in 0 .. Len(row)
    BY <1>4
  <2> QED BY <1>5, <2>1 DEF StagesOf
<1>7. RowCells(row, strings) = RowLine(row, strings).cells
  BY DEF RowCells, RowLine, FirstLine
<1> QED BY <1>1, <1>5, <1>6, <1>7 DEF RowsRead

LEMMA XLSXReadable ==
  ASSUME NEW layout \in SheetLayouts, NEW table \in Tables
  PROVE  Readable(ParseXLSX(BodyOf(layout, table)))
<1>1. Format(layout) = "xlsx" /\ layout \notin {"csv", "csv rows", "docx", "docx runs", "pptx"}
  BY DEF Format, SheetLayouts
<1>2. BodyOf(layout, table) = Book(layout, table)
  BY <1>1 DEF Written, BodyOf
<1>3. PICK n \in Nat : n = Len(table)
  BY TableIs
<1>4. PICK strings : strings = SharedStrings(Book(layout, table).shared)
  OBVIOUS
<1>5. PICK keys \in Seq(Text), data \in Seq(Text) : keys = Keys(table) /\ data = Values(table)
  BY KeysAndValues
<1>6. Lists(strings, 0, keys) /\ Lists(strings, n, data)
  BY <1>3, <1>4, <1>5, BookStrings
<1>7. PICK titles, cells : titles = TitlesOf(layout, table, strings) /\ cells = CellsOf(layout, table, strings)
  OBVIOUS
<1>8. titles \in Seq(Text)
  <2>1. 0 \in Nat
    OBVIOUS
  <2> QED BY <1>5, <1>6, <1>7, <2>1, RowCellsType DEF TitlesOf
<1>9. cells \in Seq(Text)
  BY <1>3, <1>5, <1>6, <1>7, RowCellsType DEF CellsOf
<1>10. PICK heads : heads = [i \in DOMAIN titles |-> normalizeKey(titles[i])]
  OBVIOUS
<1>11. heads \in Seq(Text)
  <2>1. PICK m \in Nat : m = Len(titles) /\ DOMAIN titles = 1 .. m /\ \A i \in 1 .. m : titles[i] \in Text
    BY <1>8
  <2>2. heads \in [1 .. m -> Text]
    BY <1>10, <2>1, NormalizeKeyIs
  <2> QED BY <2>2, FunctionIsSeq
<1>12. PICK record \in Records : record = RowRecord(heads, cells)
  BY <1>9, <1>11, RowReadable
<1>13. ParseXLSX(Book(layout, table)) = Titled(record)
  BY <1>4, <1>7, <1>10, <1>12, BookParsed
<1>14. DOMAIN Titled(record) \subseteq DOMAIN record
  BY DEF Titled
<1>15. DOMAIN record \subseteq Text
  BY DEF Records
<1> QED BY <1>2, <1>13, <1>14, <1>15 DEF Readable

LEMMA OwnReadable ==
  ASSUME NEW layout \in Layouts, NEW table \in Tables, NEW record \in ParseOwn(layout, table)
  PROVE  Readable(record)
<1>1. CASE layout \in {"csv", "csv rows"} /\ ParseOwn(layout, table) = {ParseCSV(BodyOf(layout, table))}
  BY <1>1, CSVReadable DEF CSVLayouts
<1>2. CASE /\ layout \in {"text", "list", "heading", "bold"}
           /\ ParseOwn(layout, table) = {ParseText(TextBody(layout, table))}
  <2>1. TextBody(layout, table) \in Text
    BY <1>2, TextBodyType
  <2> QED BY <1>2, <2>1, TextReadable
<1>3. CASE /\ layout \in {"html", "html split"}
           /\ ParseOwn(layout, table) = {ParseMarkup(HTMLBody(layout, table))}
  <2>1. HTMLBody(layout, table) \in Seq(Snippets)
    BY HTMLBodyType
  <2> QED BY <1>3, <2>1, MarkupReadable
<1>4. CASE layout \in WordLayouts /\ ParseOwn(layout, table) = {ParseDOCX(BodyOf(layout, table))}
  BY <1>4, DOCXReadable
<1>5. CASE layout = "pptx" /\ ParseOwn(layout, table) = {ParsePPTX(BodyOf(layout, table))}
  BY <1>5, PPTXReadable
<1>6. CASE /\ layout \in {"pdf", "pdf split"}
           /\ ParseOwn(layout, table) = {ParsePDF(PDFBody(layout, table))}
  BY <1>6, PDFReadable
<1>7. CASE /\ layout \in {"json", "json nested"}
           /\ ParseOwn(layout, table) = JSONRecords(Members(layout, table))
  BY <1>7, JSONType DEF Readable
<1>8. CASE layout \in SheetLayouts /\ ParseOwn(layout, table) = {ParseXLSX(BodyOf(layout, table))}
  BY <1>8, XLSXReadable
<1> QED BY <1>1, <1>2, <1>3, <1>4, <1>5, <1>6, <1>7, <1>8, OwnParser

\* Fetch may take a document for another format; what it reads then is a
\* record all the same, or an error.
LEMMA MisreadReadable ==
  ASSUME NEW format, NEW layout \in Layouts, NEW table \in Tables,
         NEW record \in Misread(format, Written(layout, table))
  PROVE  Readable(record)
<1>1. Written(layout, table).format = Format(layout)
  BY DEF Written
<1>2. CASE format \notin {"csv", "text", "html", "xml", "pdf"}
  BY <1>2 DEF Misread, Readable
<1>3. CASE format \in {"csv", "text", "html", "xml", "pdf"} /\ Format(layout) \notin {"csv", "text"}
  <2>1. record \in {Failed, EmptyRecord} \cup Misreadings
    BY <1>1, <1>3 DEF Misread
  <2>2. \A r \in Misreadings : DOMAIN r \subseteq Text
    BY FormatAssumption DEF FormatAssumption, Text, Word
  <2>3. Readable(EmptyRecord)
    BY PutType, RecordsAreReadable
  <2> QED BY <2>1, <2>2, <2>3 DEF Readable
<1>4. CASE format \in {"csv", "text", "html", "xml", "pdf"} /\ Format(layout) \in {"csv", "text"}
  <2>1. PICK text \in Text :
          text = IF Format(layout) = "csv" THEN CSVText(BodyOf(layout, table)) ELSE BodyOf(layout, table)
    <3>1. CASE Format(layout) = "csv"
      <4>1. layout \in CSVLayouts
        BY <3>1 DEF Layouts, Format, CSVLayouts
      <4> QED BY <3>1, <4>1, CSVRows, CSVTextType
    <3>2. CASE Format(layout) = "text"
      <4>1. layout \in {"text", "list", "heading", "bold"}
        BY <3>2 DEF Layouts, Format
      <4>2. BodyOf(layout, table) = TextBody(layout, table)
        BY <3>2, <4>1 DEF BodyOf, Written
      <4> QED BY <3>2, <4>1, <4>2, TextBodyType
    <3> QED BY <1>4, <3>1, <3>2
  <2>2. \/ record = ParseCSV(ReadCSV(text)) \/ record = ParseText(text)
        \/ record = ParseMarkup(<<Piece("text", text)>>) \/ record = EmptyRecord
    BY <1>1, <1>4, <2>1 DEF Misread, BodyOf, Piece
  <2>3. Readable(ParseCSV(ReadCSV(text))) /\ Readable(ParseText(text)) /\ Readable(EmptyRecord)
    BY ReadCSVType, RowsReadable, TextReadable, PutType, RecordsAreReadable
  <2>4. Readable(ParseMarkup(<<Piece("text", text)>>))
    <3>1. PICK piece \in Snippets : piece = Piece("text", text)
      BY PieceIs
    <3>2. <<piece>> \in Seq(Snippets)
      BY PiecesAre
    <3> QED BY <3>1, <3>2, MarkupReadable
  <2> QED BY <2>2, <2>3, <2>4
<1> QED BY <1>2, <1>3, <1>4

LEMMA ParseReadable ==
  ASSUME NEW format, NEW layout \in Layouts, NEW table \in Tables,
         NEW record \in Parse(format, Written(layout, table))
  PROVE  Readable(record)
<1>1. Written(layout, table).format = Format(layout)
  BY DEF Written
<1>2. CASE format # Format(layout) /\ {format, Format(layout)} # {"html", "xml"}
  <2>1. Parse(format, Written(layout, table)) = Misread(format, Written(layout, table))
    BY <1>1, <1>2 DEF Parse
  <2> QED BY <2>1, MisreadReadable
<1>3. CASE format = Format(layout) \/ {format, Format(layout)} = {"html", "xml"}
  <2>1. Format(layout) # "xml"
    BY DEF Layouts, Format
  <2>2. format = Format(layout) \/ (format \in {"html", "xml"} /\ Format(layout) = "html")
    BY <1>3, <2>1
  <2> QED BY <2>2, SameParser, OwnReadable
<1> QED BY <1>2, <1>3

-----------------------------------------------------------------------------
(* The theorems *)

\* TableUnderstood: a table that suits its format, submitted as a file or found
\* under a link, is read as what it means, in every format and layout.
THEOREM TablesAreUnderstood == DiscoverySpec => []TableUnderstood
<1>1. DiscoveryInit => TableUnderstood
  BY DEF DiscoveryInit, TableUnderstood, NoSource
<1>2. TableUnderstood /\ [DiscoveryNext]_allVars => TableUnderstood'
  <2> SUFFICES ASSUME TableUnderstood, [DiscoveryNext]_allVars PROVE TableUnderstood'
    OBVIOUS
  <2> HIDE DEF Suits, Meaning, Layouts, Written, Parse, Format, DetectFormat
  <2>1. CASE UNCHANGED source
    BY <2>1 DEF TableUnderstood
  <2>2. ASSUME NEW layout \in Layouts, NEW table \in Tables, SubmitFile(layout, table)
        PROVE  TableUnderstood'
    <3>1. PICK record \in Parse(Format(layout), Written(layout, table)) :
            source' = [at |-> "parsed", layout |-> layout, table |-> table, record |-> record,
                       detected |-> Format(layout)]
      BY <2>2 DEF SubmitFile
    <3>2. Suits(layout, table) => record = Meaning(layout, table)
      BY OwnUnderstood
    <3> QED BY <3>1, <3>2 DEF TableUnderstood
  <2>3. ASSUME NEW link \in Links, SubmitLink(link) PROVE TableUnderstood'
    BY <2>3 DEF SubmitLink, TableUnderstood
  <2>4. CASE FetchFails \/ RefuseRecord \/ Publish
    BY <2>4 DEF FetchFails, RefuseRecord, Publish, TableUnderstood, NoSource
  <2>5. ASSUME NEW layout \in Layouts, NEW table \in Online, NEW type \in MediaTypes,
               Fetch(layout, table, type)
        PROVE  TableUnderstood'
    <3>1. PICK format : format = DetectFormat(source.link, type)
      OBVIOUS
    <3>2. PICK record \in Parse(format, Written(layout, table)) :
            source' = [at |-> "parsed", layout |-> layout, table |-> table, record |-> record,
                       detected |-> format]
      BY <2>5, <3>1 DEF Fetch
    <3>3. table \in Tables
      BY DiscoveryAssumption DEF DiscoveryAssumption
    <3>4. format = Format(layout) /\ Suits(layout, table) => record = Meaning(layout, table)
      BY <3>3, OwnUnderstood
    <3> QED BY <3>2, <3>4 DEF TableUnderstood
  <2> QED BY <2>1, <2>2, <2>3, <2>4, <2>5 DEF DiscoveryNext, Submit, allVars
<1> QED BY <1>1, <1>2, PTL DEF DiscoverySpec

\* NothingMixedUp: whatever the table and the document it is in, when the
\* document is read as what it was written as, or a text as a page, no value is
\* read under another field's key, as long as the fields fit on lines where lines
\* are scanned.
THEOREM NothingIsMixedUp == DiscoverySpec => []NothingMixedUp
<1>1. DiscoveryInit => NothingMixedUp
  <2>1. ASSUME source = NoSource PROVE NothingMixedUp
    <3>1. source.at # "parsed"
      BY <2>1 DEF NoSource
    <3> QED BY <3>1 DEF NothingMixedUp
  <2> QED BY <2>1 DEF DiscoveryInit
<1>2. NothingMixedUp /\ [DiscoveryNext]_allVars => NothingMixedUp'
  <2> SUFFICES ASSUME NothingMixedUp, [DiscoveryNext]_allVars PROVE NothingMixedUp'
    OBVIOUS
  <2> HIDE DEF Layouts, Written, Parse, Format, DetectFormat
  <2>1. CASE UNCHANGED source
    BY <2>1 DEF NothingMixedUp
  <2>2. ASSUME NEW format, NEW layout \in Layouts, NEW table \in Tables,
               NEW record \in Parse(format, Written(layout, table)),
               source' = [at |-> "parsed", layout |-> layout, table |-> table, record |-> record,
                          detected |-> format]
        PROVE  NothingMixedUp'
    <3>1. SUFFICES ASSUME record # Failed, ReadAsWritten(layout, format),
                          layout \notin {"html split", "pdf split", "xlsx runs"},
                          Format(layout) \in {"csv", "xlsx", "json"} \/ OneLined(table)
                   PROVE  Apart(layout, record, table)
      <4> HIDE DEF ReadAsWritten
      <4>1. DOMAIN table = 1 .. Len(table)
        BY TableIs
      <4> HIDE DEF Bare, FlatKey, Path, normalizeKey
      <4> QED BY <2>2, <4>1 DEF NothingMixedUp, Apart, KeyAt, OneLined
    <3>2. layout \in Unsplit
      BY <3>1 DEF Unsplit
    <3> QED BY <3>1, <3>2, ParseApart
  <2>3. ASSUME NEW layout \in Layouts, NEW table \in Tables, SubmitFile(layout, table)
        PROVE  NothingMixedUp'
    BY <2>2, <2>3 DEF SubmitFile
  <2>4. ASSUME NEW link \in Links, SubmitLink(link) PROVE NothingMixedUp'
    BY <2>4 DEF SubmitLink, NothingMixedUp
  <2>5. CASE FetchFails \/ RefuseRecord \/ Publish
    <3>1. source' = NoSource
      BY <2>5 DEF FetchFails, RefuseRecord, Publish
    <3>2. source'.at # "parsed"
      BY <3>1 DEF NoSource
    <3> QED BY <3>2 DEF NothingMixedUp
  <2>6. ASSUME NEW layout \in Layouts, NEW table \in Online, NEW type \in MediaTypes,
               Fetch(layout, table, type)
        PROVE  NothingMixedUp'
    <3>1. table \in Tables
      BY DiscoveryAssumption DEF DiscoveryAssumption
    <3> QED BY <2>2, <2>6, <3>1 DEF Fetch
  <2> QED BY <2>1, <2>3, <2>4, <2>5, <2>6 DEF DiscoveryNext, Submit, allVars
<1> QED BY <1>1, <1>2, PTL DEF DiscoverySpec
=============================================================================
