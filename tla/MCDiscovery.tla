------------------------------ MODULE MCDiscovery ------------------------------
(* An instance of Discovery for TLC: tables of one or two fields over keys and *)
(* values that differ in everything the parsers look at, a handful of links,   *)
(* and sites with pages of up to three pieces.                                 *)
EXTENDS Discovery

SmallLetters == [t \in {"Name", "Beds"} |-> IF t = "Name" THEN "name" ELSE "beds"]

KeyTexts == {<<"name">>, <<"Name">>, <<"Beds", " ", "free">>, <<"beds", "_", "free">>}
ValueTexts == {<<"Ada">>, <<"9", ":", "30">>, <<>>}
OddValues == {<<"a", "_", "b">>, <<" ", "Ada">>, <<"64K">>, <<"-">>, <<"9", Comma, "30">>}
Fields(values) == {Field(key, value) : key \in KeyTexts, value \in values}

\* Keys that start like a list item or a heading, say two things or nothing.
OddKeys ==
  {<<>>, <<"_">>, <<"#", "Beds">>, <<"-", " ", "Beds">>, <<"*", " ", "-", "Beds">>,
   <<" ", "*", "Beds">>, <<"Name", ":", "Beds">>}
OddFields == {Field(key, value) : key \in OddKeys, value \in ValueTexts \cup OddValues}

SmallTables ==
  [{1} -> Fields(ValueTexts \cup OddValues) \cup OddFields] \cup [1 .. 2 -> Fields(ValueTexts)]

Ada == <<Field(<<"name">>, <<"Ada">>)>>
AdaNow == [Name |-> <<"Ada">>, Properties |-> EmptyRecord]
AFewFacts == {Nobody, AdaNow}

\* What links lead to: tables that keep their fields apart when they are misread,
\* and tables that do not.
AFewTables ==
  {Ada, <<Field(<<"Name">>, <<"Ada">>), Field(<<"Beds", " ", "free">>, <<"9", ":", "30">>)>>,
   <<Field(<<"Name", ":", "Beds">>, <<"Ada">>)>>, <<Field(<<"_">>, <<"9", Comma, "30">>)>>}
AMisreading == {[key \in {<<"name">>} |-> <<"beds">>]}

\* Everything a document can be read as that has a name.
Readings ==
  UNION ({Parse(Format(layout), Written(layout, table)) : layout \in Layouts, table \in SmallTables}
         \cup {Parse(Format(other), Written(layout, table)) :
                 other \in Layouts, layout \in Layouts, table \in AFewTables})
Named(record) == record # Failed /\ <<"name">> \in DOMAIN record /\ record[<<"name">>] # <<>>
AllFacts == {Nobody} \cup {Provider(record) : record \in {r \in Readings : Named(r)}}

Url(scheme, host, path, ext, format, gid, fragment) ==
  [scheme |-> scheme, host |-> host, path |-> path, ext |-> ext, format |-> format,
   output |-> "", gid |-> gid, fragment |-> fragment]
AFewLinks ==
  {Url(s, "docs.google.com", p, "", f, g, h) :
     s \in {"http", "https"}, p \in {"sheet", "sheet/edit", "sheet/export"}, f \in {"", "csv"},
     g \in {"", "g1"}, h \in {"", "g2"}}
  \cup {Url(s, h, "page", e, "", "", "") :
     s \in {"", "http", "ftp"}, h \in {"", "example.org"}, e \in {"", "csv", "json", "txt"}}
  \cup {[Url("http", "example.org", "page", "", "", "", "") EXCEPT !.output = "csv"]}

ShortBodies == BoundedSeq(Pieces, 3)
================================================================================
