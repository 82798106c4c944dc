--------------------------- MODULE ResponsePipeline ---------------------------
(***************************************************************************)
(* The way of one answer through the writers of the public endpoint:       *)
(* internal/endpoint/server.go (the limiter, withDiscoveryLinks,           *)
(* withNotFoundHint, the routes) and internal/siteproxy (FileServer,       *)
(* ReverseProxy, InjectLinks).  The inner handler sets headers, calls      *)
(* WriteHeader, Write and perhaps Flush; each writer passes the call on,   *)
(* holds it back, or rewrites it.  net/http and httputil.ReverseProxy are  *)
(* external.  Meanwhile the admin server may replace the facts, and the    *)
(* reverse proxy's flush timer may go off.                                 *)
(***************************************************************************)
EXTENDS Integers, SequencesExt

CONSTANTS
  Facts,   \* values of facts.Provider
  Sites,   \* what main may have passed to SetSite
  Bodies   \* bodies of the provider's own site, cut into pieces

Unknown == -1  \* no Content-Length

\* A piece is a <head> tag, a </body> tag, or anything else.  (headOpenTag
\* matches <header ...> as well; such a tag is a "head" here.)
Pieces == {"head", "/body", "text"}

ASSUME PipelineAssumption ==
  Sites \subseteq {"none", "dir", "upstream"} /\ Bodies \subseteq Seq(Pieces)

VARIABLES
  site,      \* Server.site
  provider,  \* Server.provider
  request,   \* the request being answered
  at,        \* where its goroutine is
  answer,    \* what the inner handler has to say
  left,      \* the pieces it has not written yet
  timer,     \* the reverse proxy's flush timer: "off", "due" or "fired"
  w,         \* the header map and the writers of the request
  read,      \* facts the handler has read
  published, \* history: the facts handed over last
  since      \* history: facts handed over since the request arrived, and before

shared == <<site, provider, published>>
call == <<request, at, answer, left, timer, w, read>>
vars == <<shared, call, since>>

Routes == {"facts", "index", "fixed", "booking", "mcp", "site"}
Asks == {"all", "range", "if-none-match", "if-match"}
\* Accept matters to the index only, the conditional headers to the site only;
\* "GET" is any method that is not HEAD.
Request ==
  {r \in [route : Routes, method : {"GET", "HEAD"}, json : BOOLEAN, asks : Asks] :
     (r.json => r.route = "index") /\ (r.asks # "all" => r.route = "site")}
Types == {"none", "html", "stream", "other"}
Statuses == {200, 202, 206, 301, 302, 304, 400, 404, 405, 412, 429, 500, 502}
\* early: an informational header went before it.
Answer ==
  [status : Statuses, type : Types, length : Int, body : Seq(Pieces \cup {"error"}),
   early : BOOLEAN]
Sent == Seq(Pieces \cup {"error", "links", "footer", "hint"})
Header == [link : BOOLEAN, type : Types, length : Int]
Wire == [status : Statuses \cup {0}, header : Header, body : Sent, flushed : Nat]
Page == [wrote : BOOLEAN, holds : BOOLEAN, status : Statuses \cup {0}, buf : Sent]
Hint == [wrote : BOOLEAN, holds : BOOLEAN, buf : Sent]

Places == {"idle", "limiter", "route", "index", "early", "head", "body", "done", "aborted"}

TypeOK ==
  /\ site \in Sites /\ {provider, published} \subseteq Facts
  /\ request \in Request /\ at \in Places
  /\ answer \in Answer /\ left \in Sent
  /\ timer \in {"off", "due", "fired"}
  /\ w \in [header : Header, page : Page, hint : Hint, wire : Wire]
  /\ read \subseteq Facts /\ since \subseteq Facts

FreshHeader == [link |-> FALSE, type |-> "none", length |-> Unknown]
FreshWriters ==
  [header |-> FreshHeader,
   page |-> [wrote |-> FALSE, holds |-> FALSE, status |-> 0, buf |-> <<>>],
   hint |-> [wrote |-> FALSE, holds |-> FALSE, buf |-> <<>>],
   wire |-> [status |-> 0, header |-> FreshHeader, body |-> <<>>, flushed |-> 0]]

NoRequest == [route |-> "fixed", method |-> "GET", json |-> FALSE, asks |-> "all"]
Plain(status, type, body) ==
  [status |-> status, type |-> type, length |-> Unknown, body |-> body,
   early |-> FALSE]
HTTPError(status) == Plain(status, "other", <<"error">>)
NoAnswer == Plain(200, "none", <<>>)

Idle ==
  /\ request = NoRequest /\ at = "idle" /\ answer = NoAnswer /\ left = <<>>
  /\ timer = "off" /\ w = FreshWriters /\ read = {} /\ since = {}

Init == site \in Sites /\ provider \in Facts /\ published = provider /\ Idle
-----------------------------------------------------------------------------
(* InjectLinks *)

\* MUTANT: the links go before the tag.
InjectHeadLinksBefore(body) ==
  LET i == SelectInSeq(body, LAMBDA piece : piece = "head")
  IN IF i = 0 THEN body ELSE InsertAt(body, i, "links")

injectHeadLinks(body) ==
  LET i == SelectInSeq(body, LAMBDA piece : piece = "head")
  IN IF i = 0 THEN body ELSE InsertAt(body, i + 1, "links")

\* DefaultLinks always has an llms-txt link.
injectHiddenFooterLink(body) ==
  LET i == SelectInSeq(body, LAMBDA piece : piece = "/body")
  IN IF i = 0 THEN body ELSE InsertAt(body, i, "footer")

InjectLinks(body) == injectHiddenFooterLink(injectHeadLinks(body))
-----------------------------------------------------------------------------
(* The writers, from the connection inwards.  Each operator is one call and *)
(* returns the writers after it.                                            *)

\* net/http (external): an informational header changes nothing, a second
\* header is ignored, a body or a flush implies 200, the body of an answer to
\* HEAD is dropped, and writing past the Content-Length is an error.
SendHeader(x, status) ==
  IF status < 200 \/ x.wire.status # 0 THEN x
  ELSE [x EXCEPT !.wire.status = status, !.wire.header = x.header]

SendBody(x, body) ==
  LET y == SendHeader(x, 200)
      room == y.wire.header.length
      fits == room = Unknown \/ Len(y.wire.body \o body) <= room
  IN IF fits /\ request.method # "HEAD" THEN [y EXCEPT !.wire.body = @ \o body] ELSE y

Flush(x) ==
  LET y == SendHeader(x, 200) IN [y EXCEPT !.wire.flushed = Len(y.wire.body)]

\* MUTANT: a header is written once; the informational one is taken for it.
HintHeaderOnce(x, status) ==
  IF x.hint.wrote THEN x
  ELSE LET holds == status = 404 /\ x.header.type # "html"
           y == [x EXCEPT !.hint.wrote = TRUE, !.hint.holds = holds]
       IN IF holds THEN y ELSE SendHeader(y, status)

\* MUTANT: the page's type is not looked at.
HintHeaderAnyType(x, status) ==
  LET holds == status = 404
      y == [x EXCEPT !.hint.wrote = TRUE, !.hint.holds = holds]
  IN IF holds THEN y ELSE SendHeader(y, status)

\* notFoundHintWriter
HintHeader(x, status) ==
  LET holds == status = 404 /\ x.header.type # "html"
      y == [x EXCEPT !.hint.wrote = TRUE, !.hint.holds = holds]
  IN IF holds THEN y ELSE SendHeader(y, status)

HintWrite(x, body) ==
  LET y == IF x.hint.wrote THEN x ELSE HintHeader(x, 200)
  IN IF y.hint.holds THEN [y EXCEPT !.hint.buf = @ \o body] ELSE SendBody(y, body)

\* MUTANT: the Content-Length of what was held back stays.
HintFlushKeepsLength(x) ==
  IF x.hint.holds
  THEN SendBody(SendHeader([x EXCEPT !.header.type = "other"], 404), <<"hint">>)
  ELSE x

HintFlush(x) ==
  IF x.hint.holds
  THEN SendBody(SendHeader([x EXCEPT !.header.type = "other", !.header.length = 1], 404),
                <<"hint">>)
  ELSE x

\* bufferingResponseWriter, around a directory only
PageHeader(x, status) ==
  LET holds == x.header.type = "html"
      y == [x EXCEPT !.page.wrote = TRUE, !.page.holds = holds, !.page.status = status]
  IN IF holds THEN y ELSE HintHeader(y, status)

PageWrite(x, body) ==
  LET y == IF x.page.wrote THEN x ELSE PageHeader(x, 200)
  IN IF y.page.holds THEN [y EXCEPT !.page.buf = @ \o body] ELSE HintWrite(y, body)

PageFlush(x) ==
  IF x.page.holds
  THEN LET body == InjectLinks(x.page.buf)
           y == [x EXCEPT !.header.length = Len(body)]
       IN HintWrite(HintHeader(y, x.page.status), body)
  ELSE x

\* The writer the inner handler is given.
FromDir == site = "dir" /\ request.route = "site"
FromUpstream == site = "upstream" /\ request.route = "site"
WriteHeader(x, status) == IF FromDir THEN PageHeader(x, status) ELSE HintHeader(x, status)
Write(x, body) == IF FromDir THEN PageWrite(x, body) ELSE HintWrite(x, body)
-----------------------------------------------------------------------------
(* The inner handlers.  Reply says what the handler will write; to is        *)
(* "head" when it calls WriteHeader and "body" when it only writes.          *)

Reply(a, body, length, to) ==
  /\ answer' = a /\ left' = body /\ at' = to
  /\ w' = [w EXCEPT !.header.type = a.type, !.header.length = length]

Arrive(r) ==
  /\ at = "idle"
  /\ request' = r /\ at' = "limiter" /\ since' = {published}
  /\ UNCHANGED <<shared, answer, left, timer, w, read>>

\* middleware refuses, outside the other writers.
Refuse ==
  /\ at = "limiter"
  /\ answer' = HTTPError(429) /\ at' = "done"
  /\ w' = SendBody(SendHeader([w EXCEPT !.header.type = "other"], 429), <<"error">>)
  /\ UNCHANGED <<shared, request, left, timer, read, since>>

\* withDiscoveryLinks sets the Link header before anything can be written.
Allow ==
  /\ at = "limiter"
  /\ at' = "route" /\ w' = [w EXCEPT !.header.link = TRUE]
  /\ UNCHANGED <<shared, request, answer, left, timer, read, since>>

Routed(route) == at = "route" /\ request.route = route

\* handleFacts, handleAgentCard and handleLLMsTxt read the facts once.
ServeFacts ==
  /\ Routed("facts")
  /\ read' = {provider}
  /\ \/ Reply(Plain(200, "other", <<"text">>), <<"text">>, Unknown, "body")
     \/ Reply(HTTPError(500), <<"error">>, Unknown, "head")
  /\ UNCHANGED <<shared, request, timer, since>>

\* handleRobots and handleMCPManifest; the booking handlers and the page that
\* asks to confirm, whose statuses BookingIntake models.
OwnAnswers ==
  IF request.route = "fixed" THEN {Plain(200, "other", <<"text">>), HTTPError(500)}
  ELSE {Plain(s, "other", <<"text">>) : s \in {200, 202}} \cup {Plain(200, "html", <<"head", "text", "/body">>)}
         \cup {HTTPError(s) : s \in {400, 405, 500}}

ServeOwn ==
  /\ Routed("fixed") \/ Routed("booking")
  /\ \E a \in OwnAnswers :
       Reply(a, a.body, Unknown, IF a.status = 200 THEN "body" ELSE "head")
  /\ UNCHANGED <<shared, request, timer, read, since>>

\* handleIndex: a redirect, or a document for which it reads the facts twice.
RedirectIndex ==
  /\ Routed("index") /\ ~request.json
  /\ Reply(Plain(302, "html", <<"text">>), <<"text">>, Unknown, "head")
  /\ UNCHANGED <<shared, request, timer, read, since>>

ReadName ==
  /\ Routed("index") /\ request.json
  /\ read' = {provider} /\ at' = "index"
  /\ UNCHANGED <<shared, request, answer, left, timer, w, since>>

ReadDescription ==
  /\ at = "index"
  /\ read' = read \cup {provider}
  /\ Reply(Plain(200, "other", <<"text">>), <<"text">>, Unknown, "body")
  /\ UNCHANGED <<shared, request, timer, since>>

\* The MCP SDK (external): an answer, a stream it flushes, or an error of its own.
MCPAnswers ==
  {Plain(200, "other", <<"text">>), Plain(200, "stream", <<"text", "text">>),
   HTTPError(400), HTTPError(404)}

ServeMCP ==
  /\ Routed("mcp")
  /\ \E a \in MCPAnswers : Reply(a, a.body, Unknown, "head")
  /\ UNCHANGED <<shared, request, timer, read, since>>

\* Without a site the mux answers every other path itself.
ServeNotFound ==
  /\ Routed("site") /\ site = "none"
  /\ Reply(HTTPError(404), <<"error">>, Unknown, "head")
  /\ UNCHANGED <<shared, request, timer, read, since>>

\* A body with its length; HEAD is answered with the length alone.
Known(status, type, body) ==
  [Plain(status, type, IF request.method = "HEAD" THEN <<>> ELSE body)
     EXCEPT !.length = Len(body)]

\* FileServer deletes Range, If-Range, If-None-Match and If-Modified-Since.
Strip(asks) == IF asks \in {"range", "if-none-match"} THEN "all" ELSE asks

\* http.FileServer (external), asked for what is left of the request.
DirAnswers(asks) ==
  {HTTPError(404), HTTPError(500), Plain(301, "none", <<>>)} \cup
  CASE asks = "range" ->
           {Known(206, t, SubSeq(b, 1, 1)) : t \in {"html", "other"}, b \in Bodies \ {<<>>}}
    [] asks = "if-none-match" -> {Plain(304, "none", <<>>)}
    [] asks = "if-match" -> {Plain(412, "none", <<>>)}
    [] asks = "all" -> {Known(200, t, b) : t \in {"html", "other"}, b \in Bodies}

ServeDir ==
  /\ Routed("site") /\ FromDir
  /\ \E a \in DirAnswers(Strip(request.asks)) : Reply(a, a.body, a.length, "head")
  /\ UNCHANGED <<shared, request, timer, read, since>>

\* The upstream (external) answers with its length or without (chunked, or
\* gunzipped by the transport; an event stream always).
UpstreamAnswers ==
  LET statuses == {200, 404} \cup (IF request.asks = "range" THEN {206} ELSE {})
      whole == {Known(s, t, b) : s \in statuses, t \in {"html", "stream", "other"}, b \in Bodies}
      later == {[a EXCEPT !.length = Unknown] : a \in whole}
      given == {a \in whole : a.type # "stream"}
      cached == IF request.asks = "if-none-match" THEN {Known(304, "html", <<>>)} ELSE {}
  IN later \cup given \cup cached

\* ModifyResponse reads a page to its end and rewrites it.
Modified(a) ==
  IF a.type = "html"
  THEN [a EXCEPT !.body = InjectLinks(@), !.length = Len(InjectLinks(a.body))]
  ELSE a

\* ReverseProxy passes an informational header on, and then clears the header
\* map, for which the answer is still to come; so the Link header goes too.
WriteEarly ==
  /\ Routed("site") /\ FromUpstream
  /\ w' = [WriteHeader(w, 103) EXCEPT !.header = FreshHeader] /\ at' = "early"
  /\ UNCHANGED <<shared, request, answer, left, timer, read, since>>

\* The request is with the upstream, which has sent an informational header or
\* nothing yet.
Forwarded == FromUpstream /\ (Routed("site") \/ at = "early")
Told(a) == [a EXCEPT !.early = (at = "early")]

ServeUpstream ==
  /\ Forwarded
  /\ \E a \in UpstreamAnswers :
       LET m == Modified(a) IN Reply(Told(a), m.body, m.length, "head")
  /\ UNCHANGED <<shared, request, timer, read, since>>

\* An upstream that cannot be reached, or a page that breaks off while
\* ModifyResponse reads it: ReverseProxy answers 502.
UpstreamFails ==
  /\ Forwarded
  /\ Reply(Told(Plain(502, "none", <<>>)), <<>>, Unknown, "head")
  /\ UNCHANGED <<shared, request, timer, read, since>>
-----------------------------------------------------------------------------
(* Writing the answer *)

\* ReverseProxy flushes bodies of unknown length, event streams too, at once.
Streams == FromUpstream /\ w.header.length = Unknown /\ answer.status # 502

WriteStatus ==
  /\ at = "head"
  /\ w' = WriteHeader(w, answer.status) /\ at' = "body"
  /\ timer' = IF Streams THEN "due" ELSE "off"
  /\ UNCHANGED <<shared, request, answer, left, read, since>>

\* The timer goes off by itself, on a goroutine of its own, to get the header out.
TimerFires ==
  /\ at = "body" /\ timer = "due"
  /\ w' = Flush(w) /\ timer' = "fired"
  /\ UNCHANGED <<shared, request, at, answer, left, read, since>>

\* Flush is reached through Unwrap, past the writers that hold back.
Flushes == timer # "off" \/ (request.route = "mcp" /\ answer.type = "stream")

\* MUTANT: without Unwrap a Flush does nothing.
FlushNothing(x) == x

FlushInner(x) == IF Flushes THEN Flush(x) ELSE x

WritePiece ==
  /\ at = "body" /\ left # <<>>
  /\ w' = FlushInner(Write(w, <<Head(left)>>)) /\ left' = Tail(left)
  /\ UNCHANGED <<shared, request, at, answer, timer, read, since>>

\* The handler returns and the writers let go of what they hold.
Return ==
  /\ at = "body" /\ left = <<>>
  /\ w' = SendHeader(HintFlush(PageFlush(w)), 200)
  /\ timer' = "off" /\ at' = "done"
  /\ UNCHANGED <<shared, request, answer, left, read, since>>

\* A body that breaks off while it is copied aborts the handler: nothing
\* more is written.  A page was read whole before.
Abort ==
  /\ at = "body" /\ FromUpstream /\ request.method = "GET" /\ answer.type \in {"stream", "other"}
  /\ left # <<>> \/ w.header.length = Unknown
  /\ timer' = "off" /\ at' = "aborted"
  /\ UNCHANGED <<shared, request, answer, left, w, read, since>>

NextRequest ==
  /\ at \in {"done", "aborted"}
  /\ request' = NoRequest /\ at' = "idle" /\ answer' = NoAnswer /\ left' = <<>>
  /\ timer' = "off" /\ w' = FreshWriters /\ read' = {} /\ since' = {}
  /\ UNCHANGED shared

\* MUTANT: the facts stay as they are while a request is read from them.
UpdateProviderTryLock(p) ==
  /\ provider' = IF at = "index" THEN provider ELSE p
  /\ published' = p
  /\ since' = IF at = "idle" THEN {} ELSE since \cup {p}
  /\ UNCHANGED <<site, call>>

\* The admin server's callback.
UpdateProvider(p) ==
  /\ provider' = p /\ published' = p
  /\ since' = IF at = "idle" THEN {} ELSE since \cup {p}
  /\ UNCHANGED <<site, call>>

Serve ==
  \/ Refuse \/ Allow \/ ServeFacts \/ ServeOwn \/ RedirectIndex \/ ReadName
  \/ ReadDescription \/ ServeMCP \/ ServeNotFound \/ ServeDir \/ ServeUpstream
  \/ UpstreamFails \/ WriteEarly \/ WriteStatus \/ TimerFires \/ WritePiece \/ Return \/ Abort
  \/ NextRequest

Next ==
  \/ Serve
  \/ \E r \in Request : Arrive(r)
  \/ \E p \in Facts : UpdateProvider(p)

Spec == Init /\ [][Next]_vars
-----------------------------------------------------------------------------
(* What an agent may rely on *)

FromSite == (FromDir \/ FromUpstream) /\ answer.status \notin {429, 502}
Passed == at = "done" /\ answer.status # 429
IsHTML == answer.type = "html"
Hinted == answer.status = 404 /\ ~IsHTML

\* The status an agent receives is the one the handler gave, whatever was
\* held back, rewritten or announced before.  The exception is exact: a 404
\* that is not HTML and comes from the upstream without its length.  The
\* reverse proxy flushes it past notFoundHintWriter, and it becomes a 200.
\* The Link header is in every answer that passed the limiter, cut off or not,
\* but for those to which the upstream sent an informational header first.
HeadKept ==
  /\ at = "done" =>
       \/ w.wire.status = answer.status
       \/ FromUpstream /\ Hinted /\ answer.length = Unknown /\ w.wire.status = 200
  /\ at \in {"done", "aborted"} /\ answer.status # 429 /\ w.wire.status # 0
       => (w.wire.header.link <=> ~answer.early)

\* withNotFoundHint: the pointer to /llms.txt replaces the body of every 404
\* that is not HTML, alone, and is in no other answer.
HintIsAlone ==
  /\ Passed /\ Hinted /\ request.method = "GET" => w.wire.body = <<"hint">>
  /\ ~Hinted => "hint" \notin ToSet(w.wire.body)

\* Every answer's Content-Length is the length of what is sent, after links
\* were added or the body was replaced.
LengthKept ==
  Passed /\ request.method = "GET" /\ w.wire.header.length # Unknown
    => Len(w.wire.body) = w.wire.header.length

Added == {"links", "footer"}

\* The pieces of sent that are not in added are those of body, in its order.
Arrives(body, sent, added) ==
  \E kept \in [DOMAIN body -> DOMAIN sent] :
    /\ \A i, j \in DOMAIN body : i < j => kept[i] < kept[j]
    /\ \A i \in DOMAIN body : sent[kept[i]] = body[i]
    /\ {kept[i] : i \in DOMAIN body} = {j \in DOMAIN sent : sent[j] \notin added}

Only(sent, i, piece) == \A j \in DOMAIN sent : sent[j] = piece <=> j = i
First(sent, i, piece) == sent[i] = piece /\ \A j \in 1 .. i - 1 : sent[j] # piece

\* The links are there once, right after the first <head> of the page.
LinksPlaced(body, sent) ==
  IF "head" \in ToSet(body)
  THEN \E i \in 2 .. Len(sent) : Only(sent, i, "links") /\ First(sent, i - 1, "head")
  ELSE "links" \notin ToSet(sent)

\* The hidden link is there once, right before the first </body> of the page.
FooterPlaced(body, sent) ==
  IF "/body" \in ToSet(body)
  THEN \E i \in 1 .. Len(sent) - 1 : Only(sent, i, "footer") /\ First(sent, i + 1, "/body")
  ELSE "footer" \notin ToSet(sent)

\* A page of the site arrives as the site has it, with the links and the hidden
\* link in their places; anything else arrives as the site sent it.  From a
\* directory it is never a part (206) or an empty answer to a validator (304).
PagesCarryLinks ==
  Passed /\ FromSite /\ request.method = "GET" /\ ~Hinted =>
    LET sent == w.wire.body
    IN /\ FromDir => w.wire.status \notin {206, 304}
       /\ IF IsHTML
          THEN /\ Arrives(answer.body, sent, Added)
               /\ LinksPlaced(answer.body, sent) /\ FooterPlaced(answer.body, sent)
          ELSE sent = answer.body

\* A stream is not held back: whatever its handler has written has left the
\* server before the handler goes on, even through the wrappers.
StreamFlows ==
  at = "body" /\ Flushes /\ request.method = "GET" /\ ~Hinted =>
    w.wire.status = answer.status /\ w.wire.flushed = Len(answer.body) - Len(left)

\* What an answer says of the provider was the latest when it was asked, or is
\* newer: an edit is seen by every request that comes after it, even when it
\* came while another was being answered.
FactsAreCurrent == at = "done" => read \subseteq since
=============================================================================
